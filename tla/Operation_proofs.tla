--------------------------- MODULE Operation_proofs ---------------------------
(***************************************************************************)
(* How the bot is operated: the control center (AdminPanel), for any       *)
(* threads, jobs, limits and requests, and at the end the life of the      *)
(* process (Operation), for any restarts, signals, faults and starts.      *)
(* The invariant of the control center has three parts, each inductive     *)
(* with those before it: FilesInv, VersionInv and OutageInv.               *)
(***************************************************************************)
EXTENDS AdminPanel, Operation, SequenceTheorems, FiniteSetTheorems, TLAPS

(***************************************************************************)
(* The shape of a handler's steps.                                         *)
(***************************************************************************)

Writes == {"item", "remove", "audit", "version", "token", "revoke", "password"}
Uses   == Writes \cup {"find", "show", "error"}
Steps  == Uses \cup {"read", "log", "call", "send", "job", "before", "set", "forward", "clear", "after", "join"}

\* A change of the configuration that saves a version, with what comes first in a
\* rollback, and an overview: a thread has the last steps of it before it.
Rollback == <<"read", "find", "before", "set", "after", "read", "version">>
View     == <<"join", "read", "show">>
Saves(s) == Len(s) \in 1..7 /\ \A i \in 1..Len(s) : s[i] = Rollback[7 - Len(s) + i]
Views(s) == Len(s) \in 1..3 /\ \A i \in 1..Len(s) : s[i] = View[3 - Len(s) + i]

Planned(s) ==
  /\ s \in Seq(Steps) /\ Len(s) <= 7
  /\ \A i \in 1..Len(s) : /\ s[i] = "read" => i < Len(s) /\ s[i + 1] \in Uses \ {"error"}
                          /\ i > 1 /\ s[i] \in Uses => s[i - 1] = "read"
                          /\ s[i] \in {"find", "before", "after", "version"} => Saves(s)
                          /\ s[i] = "set" => i = Len(s) \/ Saves(s)
                          /\ s[i] \in {"join", "show"} => Views(s)
                          /\ s[i] = "job" => Len(s) = 1
PlanInv ==
  /\ \A p \in Procs : Planned(todo[p])
  /\ \A p \in Pool : todo[p] \in {<<>>, <<"job">>, <<"log">>, <<"error">>}
  /\ \A t \in Threads : ~At(t, "job")

(***************************************************************************)
(* Types.                                                                  *)
(***************************************************************************)

Config    == [Scopes -> Contents \cup {"none"}]
Snapshots == Config \cup {<<>>}
Saved     == [n : Nat, kind : {"persona"}, scope : Scopes, before : Config, after : Config,
              content : Contents \cup {"none"}, was : Snapshots, clean : BOOLEAN]
Versions  == Saved \cup {Legacy}
Items     == [Keys -> 0..MaxRequests]
Tokens    == [1..MaxRequests -> {"none", "on", "off"}]
StateFile == [items : Items, audit : Seq(Nat), versions : Seq(Versions), errors : Seq(Nat)]
AuthFile  == [tokens : Tokens, password : Nat]
Short(f)  == Len(f.versions) <= VersionLimit /\ Len(f.errors) <= ErrorLimit
Copies(s) == IF s = "state" THEN {f \in StateFile : Short(f)} ELSE AuthFile
Scoped    == Scopes \cup {"none"}
Texts     == Contents \cup {"none", "replace", "create", "failed"}
Request   == [n : 0..MaxRequests, key : Keys \cup Nat, scope : Scoped, content : Texts, kind : {"persona", "model"},
              rolls : BOOLEAN, before : Snapshots, after : Snapshots, was : Snapshots, alone : BOOLEAN,
              copy : {NoCopy} \cup Copies("state") \cup AuthFile]

Stores == {"state", "auth"}
TypeInv ==
  /\ todo \in [Procs -> Seq(Steps)] /\ req \in [Procs -> Request]
  /\ file \in [Stores -> Copies("state") \cup AuthFile] /\ \A s \in Stores : file[s] \in Copies(s)
  /\ ideal = [s \in Stores |-> ideal[s]]
  /\ lock \in Procs \cup {"free"} /\ served \in 0..MaxRequests /\ config \in Config
  /\ stale \subseteq Procs /\ overlapped \subseteq Stores

\* A change of the configuration knows what to set, unless it is a rollback that still
\* has to find it or found a version of the model, and from its snapshots on what was there.
Aimed(q) == q.scope \in Scopes /\ q.content \in Contents \cup {"none"}
AimInv == \A p \in Procs :
  /\ Configures(p) => \/ Aimed(req[p])
                      \/ Saves(todo[p]) /\ req[p].rolls /\ (Len(todo[p]) < 6 => req[p].kind = "model")
  /\ Saves(todo[p]) => /\ Len(todo[p]) > 5 => req[p].rolls
                       /\ Len(todo[p]) < 5 => req[p].before \in Config
                       /\ Len(todo[p]) < 4 => req[p].kind = "persona"
                       /\ Len(todo[p]) < 3 => req[p].after \in Config

(***************************************************************************)
(* The files.                                                              *)
(***************************************************************************)

Using(p) == todo[p] # <<>> /\ Head(todo[p]) \in Uses
StoreFor(p) == StoreOf(Head(todo[p]))
CopyInv ==
  /\ \A p \in Procs : Using(p) => /\ req[p].copy \in Copies(StoreFor(p))
                                  /\ p \notin stale => req[p].copy = ReadFile(StoreFor(p), file[StoreFor(p)])
  /\ \A p \in Procs : At(p, "error") <=> lock = p
  /\ \A p \in Procs : At(p, "error") => p \notin stale

(***************************************************************************)
(* The versions.                                                           *)
(***************************************************************************)

\* Of two changes of the configuration that overlap neither is alone.
AloneInv ==
  /\ \A p, r \in Procs : p # r /\ Configures(p) /\ Configures(r) => ~req[p].alone
  /\ \A p, r \in Procs : Compares(p) /\ Configures(r) => ~req[p].alone

Changed(q) == [q.was EXCEPT ![q.scope] = q.content]
StageInv == \A p \in Procs : Saves(todo[p]) /\ req[p].alone =>
  /\ Len(todo[p]) = 4 => req[p].before = config
  /\ Len(todo[p]) < 4 => req[p].before = req[p].was /\ config = Changed(req[p])
  /\ Len(todo[p]) < 3 => req[p].after = config

TellInv ==
  /\ VersionsTellTheChange
  /\ \A p \in Procs : Using(p) /\ StoreFor(p) = "state" => \A i \in DOMAIN req[p].copy.versions : Tells(req[p].copy.versions[i])

Agrees(c, versions) == InSync(c, versions) \/ Last(versions).kind = "model"
Explained == causes # {} \/ "state" \in overlapped
Applied(p) == Saves(todo[p]) /\ Len(todo[p]) < 4
SyncInv ==
  Explained \/ Agrees(config, file["state"].versions)
  \/ \E p \in Procs : Applied(p) /\ (req[p].alone => Agrees(req[p].was, file["state"].versions))

WaitInv ==
  /\ \A t \in Procs : Compares(t) => /\ t \in Threads /\ \A r \in Procs : Compares(r) => r = t
                                     /\ ~At(t, "join") => \A p \in Pool : todo[p] = <<>>
  /\ (\A t \in Procs : ~Compares(t)) => \A p \in Pool : todo[p] = <<>>
ViewInv == \A t \in Procs : Compares(t) =>
  /\ \A p \in Pool : At(p, "job") => req[p].content # "failed"
  /\ req[t].alone => \A p \in Pool : ~At(p, "job") => req[p].content = "failed" \/ req[p].after = config
  /\ At(t, "show") => Explained \/ ~req[t].alone \/ Agrees(config, req[t].copy.versions)

(***************************************************************************)
(* The errors.                                                             *)
(***************************************************************************)

\* A thread's number tells its entries from every other's, and the jobs of an overview
\* have its own.
Numbered(errors) == \A i \in DOMAIN errors : errors[i] <= served
NumberInv ==
  /\ \A p \in Procs : req[p].n <= served
  /\ \A t, r \in Threads : t # r /\ todo[t] # <<>> /\ todo[r] # <<>> => req[t].n # req[r].n
  /\ \A t \in Procs, p \in Pool : Compares(t) => req[p].n = req[t].n
  /\ Numbered(file["state"].errors)
  /\ \A p \in Procs : Using(p) /\ StoreFor(p) = "state" => Numbered(req[p].copy.errors)

\* The file has an entry for every job that failed and has recorded it, and an overview
\* about to answer has read one for every job that failed.
Failed == {p \in Pool : req[p].content = "failed"}
Logged == {p \in Failed : todo[p] = <<>>}
Full(errors) == Len(errors) = ErrorLimit
ErrorsInv ==
  /\ \A p \in Pool : At(p, "log") \/ At(p, "error") => req[p].content = "failed"
  /\ \A t \in Procs : Compares(t) /\ "state" \notin overlapped =>
       /\ Full(file["state"].errors) \/ Cardinality(Entries(file["state"].errors, req[t].n)) = Cardinality(Logged)
       /\ At(t, "show") => Full(req[t].copy.errors) \/ Cardinality(Entries(req[t].copy.errors, req[t].n)) = Cardinality(Failed)

(***************************************************************************)
(* How a thread goes on.                                                   *)
(***************************************************************************)

\* What is left after a step: the rest, nothing, or an error to be recorded first.
Moves(s, r) ==
  \/ r = Tail(s) \/ r = <<>> \/ r = <<"log">>
  \/ s[1] \in {"call", "job", "forward"} /\ r = <<"log">> \o Tail(s)
  \/ s[1] = "log" /\ r = <<"error">> \o Tail(s)
  \/ s[1] = "before" /\ r = <<"log", "set">>
  \/ s[1] \in {"set", "after"} /\ r = <<"log", "log">>

Configuring(s) == \E i \in DOMAIN s : s[i] \in {"set", "version", "forward"}
Comparing(s)   == s # <<>> /\ Last(s) = "show"

\* The rest of a sequence, and the rest after something else.
LEMMA TailIs ==
  ASSUME NEW s \in Seq(Steps), s # <<>>
  PROVE  /\ Tail(s) \in Seq(Steps) /\ Len(s) \in Nat \ {0} /\ Len(Tail(s)) = Len(s) - 1 /\ Head(s) = s[1]
         /\ \A i \in 1..(Len(s) - 1) : Tail(s)[i] = s[i + 1]
         /\ \A i \in 1..Len(s) : s[i] \in Steps
OBVIOUS

LEMMA SwapIs ==
  ASSUME NEW s \in Seq(Steps), s # <<>>, NEW x \in Steps
  PROVE  /\ <<x>> \o Tail(s) \in Seq(Steps) /\ Len(<<x>> \o Tail(s)) = Len(s) /\ (<<x>> \o Tail(s))[1] = x
         /\ \A i \in 1..Len(s) : i # 1 => (<<x>> \o Tail(s))[i] = s[i]
<1>1. Tail(s) \in Seq(Steps) /\ Len(Tail(s)) = Len(s) - 1 /\ \A i \in 1..(Len(s) - 1) : Tail(s)[i] = s[i + 1]
  BY TailIs
<1>2. <<x>> \in Seq(Steps) /\ Len(<<x>>) = 1 /\ <<x>>[1] = x
  OBVIOUS
<1>3. /\ <<x>> \o Tail(s) \in Seq(Steps) /\ Len(<<x>> \o Tail(s)) = 1 + Len(Tail(s))
      /\ (<<x>> \o Tail(s))[1] = x
      /\ \A i \in 1..Len(Tail(s)) : (<<x>> \o Tail(s))[i + 1] = Tail(s)[i]
  BY <1>1, <1>2
<1> QED BY <1>1, <1>3

LEMMA SavesTail ==
  ASSUME NEW s \in Seq(Steps), s # <<>>, Saves(s)
  PROVE  Len(s) # 1 => Saves(Tail(s))
BY TailIs DEF Saves

LEMMA ViewsTail ==
  ASSUME NEW s \in Seq(Steps), s # <<>>, Views(s)
  PROVE  Len(s) # 1 => Views(Tail(s))
BY TailIs DEF Views

LEMMA PlannedTail ==
  ASSUME NEW s, Planned(s), s # <<>>
  PROVE  Planned(Tail(s))
<1> DEFINE r == Tail(s)
<1>1. /\ s \in Seq(Steps) /\ Len(s) <= 7 /\ Len(s) \in Nat \ {0} /\ r \in Seq(Steps) /\ Len(r) = Len(s) - 1
      /\ \A i \in 1..(Len(s) - 1) : r[i] = s[i + 1]
  BY TailIs DEF Planned
<1>2. Len(s) # 1 => (Saves(s) => Saves(r)) /\ (Views(s) => Views(r))
  BY <1>1, SavesTail, ViewsTail
<1> HIDE DEF r
<1>3. ASSUME NEW i \in 1..Len(r)
      PROVE  /\ r[i] = "read" => i < Len(r) /\ r[i + 1] \in Uses \ {"error"}
             /\ i > 1 /\ r[i] \in Uses => r[i - 1] = "read"
             /\ r[i] \in {"find", "before", "after", "version"} => Saves(r)
             /\ r[i] = "set" => i = Len(r) \/ Saves(r)
             /\ r[i] \in {"join", "show"} => Views(r)
             /\ r[i] = "job" => Len(r) = 1
  <2>1. i + 1 \in 1..Len(s) /\ r[i] = s[i + 1] /\ Len(s) # 1
    BY <1>1
  <2>2. r[i] = "read" => i < Len(r) /\ r[i + 1] \in Uses \ {"error"}
    BY <1>1, <2>1 DEF Planned
  <2>3. ASSUME i > 1, r[i] \in Uses PROVE r[i - 1] = "read"
    <3>1. i - 1 \in 1..(Len(s) - 1) /\ (i - 1) + 1 = i /\ (i + 1) - 1 = i /\ i + 1 > 1
      BY <1>1, <2>1, <2>3
    <3>2. r[i - 1] = s[i]
      BY <1>1, <3>1
    <3> QED BY <2>1, <2>3, <3>1, <3>2 DEF Planned
  <2> QED BY <1>1, <1>2, <2>1, <2>2, <2>3 DEF Planned
<1>4. Planned(r)
  BY <1>1, <1>3 DEF Planned
<1> QED BY <1>4 DEF r

\* An error comes instead of what failed, before what is left to do.
LEMMA PlannedSwap ==
  ASSUME NEW s, Planned(s), s # <<>>, NEW x \in {"log", "error"}, s[1] \in {"call", "job", "forward", "log"}
  PROVE  LET r == <<x>> \o Tail(s)
         IN Planned(r) /\ ~Saves(r) /\ ~Saves(s) /\ ~Views(r)
<1> DEFINE r == <<x>> \o Tail(s)
<1>1. /\ s \in Seq(Steps) /\ Len(s) <= 7 /\ Len(s) \in Nat \ {0} /\ r \in Seq(Steps) /\ Len(r) = Len(s) /\ r[1] = x
      /\ \A i \in 1..Len(s) : i # 1 => r[i] = s[i]
  BY SwapIs, TailIs DEF Planned, Steps, Uses
<1> HIDE DEF r
<1>2. ~Saves(s) /\ ~Saves(r) /\ ~Views(s) /\ ~Views(r)
  <2>1. /\ \A k \in 1..7 : Rollback[k] \in {"read", "find", "before", "set", "after", "version"}
        /\ \A k \in 1..3 : View[k] \in {"join", "read", "show"}
    BY DEF Rollback, View
  <2>2. ASSUME NEW q \in {s, r} PROVE q[1] \notin {"read", "find", "before", "set", "after", "version", "join", "show"} /\ Len(q) = Len(s)
    BY <1>1, <2>2
  <2>3. ASSUME NEW q \in {s, r} PROVE ~Saves(q) /\ ~Views(q)
    <3>1. Saves(q) => q[1] = Rollback[7 - Len(q) + 1] /\ 7 - Len(q) + 1 \in 1..7
      BY <1>1, <2>2 DEF Saves
    <3>2. Views(q) => q[1] = View[3 - Len(q) + 1] /\ 3 - Len(q) + 1 \in 1..3
      BY <1>1, <2>2 DEF Views
    <3> QED BY <2>1, <2>2, <3>1, <3>2
  <2> QED BY <2>3
<1>3. ASSUME NEW i \in 1..Len(r)
      PROVE  /\ r[i] = "read" => i < Len(r) /\ r[i + 1] \in Uses \ {"error"}
             /\ i > 1 /\ r[i] \in Uses => r[i - 1] = "read"
             /\ r[i] \in {"find", "before", "after", "version"} => Saves(r)
             /\ r[i] = "set" => i = Len(r) \/ Saves(r)
             /\ r[i] \in {"join", "show"} => Views(r)
             /\ r[i] = "job" => Len(r) = 1
  <2>1. CASE i = 1
    BY <1>1, <2>1
  <2>2. CASE i # 1
    <3>1. r[i] = s[i] /\ i \in 1..Len(s) /\ i > 1 /\ i - 1 \in 1..Len(s)
      BY <1>1, <2>2
    <3>2. r[i] = "read" => i < Len(r) /\ r[i + 1] \in Uses \ {"error"}
      <4>1. r[i] = "read" => i < Len(s) /\ s[i + 1] \in Uses \ {"error"} /\ i + 1 \in 1..Len(s) /\ i + 1 # 1
        BY <1>1, <3>1 DEF Planned
      <4> QED BY <1>1, <4>1
    <3>3. ASSUME r[i] \in Uses PROVE r[i - 1] = "read"
      <4>1. s[i - 1] = "read"
        BY <3>1, <3>3 DEF Planned
      <4>2. i - 1 # 1
        BY <4>1
      <4> QED BY <1>1, <3>1, <4>1, <4>2
    <3> QED BY <1>1, <1>2, <3>1, <3>2, <3>3 DEF Planned
  <2> QED BY <2>1, <2>2
<1>4. Planned(r)
  BY <1>1, <1>3 DEF Planned
<1> QED BY <1>2, <1>4 DEF r

LEMMA Short1 == Planned(<<>>) /\ Planned(<<"log">>) /\ Planned(<<"log", "set">>) /\ Planned(<<"log", "log">>)
<1> DEFINE P(s) == s \in Seq(Steps) /\ Len(s) <= 2 /\ (\A i \in 1..Len(s) : s[i] \in {"log", "set"} /\ (s[i] = "set" => i = Len(s)))
<1>1. ASSUME NEW s, P(s) PROVE Planned(s)
  BY <1>1 DEF Planned, Uses, Writes
<1>2. P(<<>>) /\ P(<<"log">>) /\ P(<<"log", "set">>) /\ P(<<"log", "log">>)
  BY DEF Steps
<1> QED BY <1>1, <1>2

\* A step leaves a planned rest, and begins nothing that was not planned.
LEMMA Moved ==
  ASSUME NEW s, Planned(s), s # <<>>, NEW r, Moves(s, r)
  PROVE  /\ Planned(r)
         /\ Configuring(r) => Configuring(s)
         /\ Comparing(r) => Comparing(s)
         /\ Saves(r) => r = Tail(s) /\ Saves(s) /\ Len(r) = Len(s) - 1 /\ s[1] = Rollback[8 - Len(s)]
         /\ r # <<>> /\ r[1] \in Uses => (r = Tail(s) /\ s[1] = "read") \/ (s[1] = "log" /\ r[1] = "error")
<1>0. /\ s \in Seq(Steps) /\ Len(s) <= 7 /\ Len(s) \in Nat \ {0} /\ DOMAIN s = 1..Len(s)
  BY TailIs DEF Planned
<1>s. ASSUME Saves(s) PROVE s[1] = Rollback[8 - Len(s)]
  BY <1>0, <1>s DEF Saves
<1>1. CASE r = Tail(s)
  <2>1. /\ r \in Seq(Steps) /\ Len(r) = Len(s) - 1 /\ DOMAIN r = 1..Len(r)
        /\ \A i \in 1..(Len(s) - 1) : r[i] = s[i + 1] /\ i + 1 \in 1..Len(s)
    BY <1>0, <1>1, TailIs
  <2>2. Planned(r)
    BY <1>1, PlannedTail
  <2>3. Configuring(r) => Configuring(s)
    BY <1>0, <2>1 DEF Configuring
  <2>4. Comparing(r) => Comparing(s)
    BY <1>0, <2>1 DEF Comparing, Last
  <2>5. ASSUME Saves(r) PROVE Saves(s)
    <3>1. Len(r) \in 1..Len(r) /\ r[Len(r)] = Rollback[7]
      BY <2>1, <2>5 DEF Saves
    <3>2. Len(s) \in 1..Len(s) /\ s[Len(s)] = "version"
      BY <1>0, <2>1, <3>1 DEF Rollback
    <3> QED BY <3>2 DEF Planned
  <2>6. r # <<>> /\ r[1] \in Uses => s[1] = "read"
    <3>1. r # <<>> => 1 \in 1..(Len(s) - 1)
      BY <2>1
    <3>2. r # <<>> => r[1] = s[2] /\ 2 \in 1..Len(s) /\ 2 - 1 = 1
      BY <2>1, <3>1
    <3> QED BY <3>2 DEF Planned
  <2> QED BY <1>1, <1>s, <2>1, <2>2, <2>3, <2>4, <2>5, <2>6
<1>2. CASE r \in {<<>>, <<"log">>}
  <2>1. Planned(r) /\ ~Configuring(r) /\ ~Comparing(r) /\ ~Saves(r) /\ (r # <<>> => r[1] = "log")
    BY <1>2, Short1 DEF Configuring, Comparing, Last, Saves, Rollback
  <2> QED BY <2>1 DEF Uses, Writes
<1>3. ASSUME NEW x \in {"log", "error"}, r = <<x>> \o Tail(s), s[1] \in {"call", "job", "forward", "log"}, x = "error" => s[1] = "log"
      PROVE  /\ Planned(r) /\ ~Saves(r)
             /\ Configuring(r) => Configuring(s)
             /\ Comparing(r) => Comparing(s)
             /\ r[1] \in Uses => s[1] = "log" /\ r[1] = "error"
  <2>1. Planned(r) /\ ~Saves(r)
    BY <1>3, PlannedSwap
  <2>2. /\ r \in Seq(Steps) /\ Len(r) = Len(s) /\ DOMAIN r = 1..Len(r) /\ r[1] = x
        /\ \A i \in 1..Len(s) : i # 1 => r[i] = s[i]
    BY <1>0, <1>3, SwapIs DEF Steps, Uses
  <2>3. Configuring(r) => Configuring(s)
    BY <1>0, <2>2 DEF Configuring
  <2>4. Comparing(r) => Comparing(s)
    BY <1>0, <2>2 DEF Comparing, Last
  <2> QED BY <1>3, <2>1, <2>2, <2>3, <2>4 DEF Uses, Writes
<1>4. CASE (r = <<"log", "set">> /\ s[1] = "before") \/ r = <<"log", "log">>
  <2>1. /\ Planned(r) /\ ~Comparing(r) /\ ~Saves(r) /\ r # <<>> /\ r[1] = "log"
    <3>1. r \in {<<"log", "set">>, <<"log", "log">>}
      BY <1>4
    <3> QED BY <3>1, Short1 DEF Configuring, Comparing, Last, Saves, Rollback
  <2>2. ASSUME s[1] = "before" PROVE Len(s) \in DOMAIN s /\ s[Len(s)] = "version"
    <3>0. 1 \in 1..Len(s) /\ s[1] \in {"find", "before", "after", "version"}
      BY <1>0, <2>2
    <3>1. Saves(s)
      BY <3>0 DEF Planned
    <3>2. Len(s) \in 1..Len(s) /\ s[Len(s)] = Rollback[7]
      BY <1>0, <3>1 DEF Saves
    <3> QED BY <1>0, <3>2 DEF Rollback
  <2>3. Configuring(r) => Configuring(s)
    <3>1. Configuring(r) => s[1] = "before"
      <4>1. ~Configuring(<<"log", "log">>)
        BY DEF Configuring
      <4> QED BY <1>4, <4>1
    <3> QED BY <1>0, <2>2, <3>1 DEF Configuring
  <2> QED BY <2>1, <2>3 DEF Uses, Writes
<1>5. r # <<>> => r = Tail(s) \/ r \in {<<>>, <<"log">>} \/ r \in {<<"log", "set">>, <<"log", "log">>} \/ \E x \in {"log", "error"} : r = <<x>> \o Tail(s)
  BY DEF Moves
<1> QED BY <1>1, <1>2, <1>3, <1>4 DEF Moves

\* A handler that saves a version changes the configuration, and is no overview.
LEMMA SavesConfigures ==
  ASSUME NEW s \in Seq(Steps), Saves(s)
  PROVE  Configuring(s) /\ ~Comparing(s) /\ s # <<>> /\ s[1] \notin {"log", "error", "job", "join", "show", "call", "send"}
<1>0. Len(s) \in 1..7 /\ DOMAIN s = 1..Len(s)
  BY DEF Saves
<1>1. 8 - Len(s) \in 1..7 /\ Len(s) \in DOMAIN s
  <2>1. \A n \in 1..7 : 8 - n \in 1..7 /\ n \in 1..n
    OBVIOUS
  <2> QED BY <1>0, <2>1
<1>5. s # <<>>
  <2>1. s = <<>> => Len(s) = 0
    OBVIOUS
  <2> QED BY <1>0, <2>1
<1>6. s[1] = Rollback[8 - Len(s)]
  BY <1>0 DEF Saves
<1>7. s[Len(s)] = Rollback[7]
  BY <1>0 DEF Saves
<1>2. s[Len(s)] = "version"
  BY <1>7 DEF Rollback
<1>3. \A k \in 1..7 : Rollback[k] \in {"read", "find", "before", "set", "after", "version"}
  BY DEF Rollback
<1>4. s[1] \in {"read", "find", "before", "set", "after", "version"}
  BY <1>1, <1>3, <1>6
<1> QED BY <1>1, <1>2, <1>4, <1>5 DEF Configuring, Comparing, Last

(***************************************************************************)
(* How a request begins.                                                   *)
(***************************************************************************)

Plain(t) == \E q \in Request, plan \in Seq(Steps) :
  /\ Begin(t, q, plan) /\ Planned(plan) /\ plan # <<>>
  /\ ~Configuring(plan) /\ ~Comparing(plan) /\ plan[1] \in {"read", "call", "send", "clear"}
Reconfigures(t) == \E q \in Request, plan \in Seq(Steps) :
  /\ BeginConfig(t, q, plan) /\ Planned(plan) /\ plan # <<>>
  /\ Configuring(plan) /\ ~Comparing(plan) /\ plan[1] \in {"read", "before", "forward"}
  /\ \/ Aimed(q) /\ (Saves(plan) => Len(plan) = 5)
     \/ q.rolls /\ Saves(plan) /\ Len(plan) = 7

LEMMA IdleRequest ==
  /\ Idle \in Request
  /\ \A k \in Keys \cup Nat, x \in Texts : [Idle EXCEPT !.key = k, !.content = x] \in Request
  /\ \A k \in Keys \cup Nat : [Idle EXCEPT !.key = k] \in Request
  /\ \A s \in Scopes, c \in Contents \cup {"none"} :
       LET q == [Idle EXCEPT !.scope = s, !.content = c] IN q \in Request /\ Aimed(q)
  /\ LET q == [Idle EXCEPT !.rolls = TRUE] IN q \in Request /\ q.rolls
<1> DEFINE T == {NoCopy} \cup Copies("state") \cup AuthFile
<1>1. NoCopy \in T /\ <<>> \in Snapshots
  BY DEF Snapshots
<1> HIDE DEF T
<1>2. Request = [n : 0..MaxRequests, key : Keys \cup Nat, scope : Scoped, content : Texts, kind : {"persona", "model"},
                 rolls : BOOLEAN, before : Snapshots, after : Snapshots, was : Snapshots, alone : BOOLEAN, copy : T]
  BY DEF T, Request
<1>3. 0 \in 0..MaxRequests /\ 0 \in Keys \cup Nat /\ "none" \in Scoped /\ "none" \in Texts
      /\ Scopes \subseteq Scoped /\ Contents \cup {"none"} \subseteq Texts
  BY PanelAssumption DEF Scoped, Texts
<1> QED BY <1>1, <1>2, <1>3 DEF Idle, Aimed

LEMMA UpdatePlan ==
  ASSUME NEW x \in Writes \ {"version"}
  PROVE  LET plan == Audited(x)
         IN Planned(plan) /\ plan # <<>> /\ ~Configuring(plan) /\ ~Comparing(plan) /\ plan[1] = "read"
<1> DEFINE plan == Audited(x)
<1>1. plan \in Seq(Steps) /\ Len(plan) = 4 /\ DOMAIN plan = 1..4 /\ plan # <<>>
  BY DEF Audited, Steps, Uses, Writes
<1>2. plan[1] = "read" /\ plan[2] = x /\ plan[3] = "read" /\ plan[4] = "audit"
  BY DEF Audited
<1> HIDE DEF plan
<1>3. Planned(plan)
  BY <1>1, <1>2 DEF Planned, Uses, Writes
<1>4. ~Configuring(plan) /\ ~Comparing(plan)
  BY <1>1, <1>2 DEF Configuring, Comparing, Last, Writes
<1> QED BY <1>1, <1>2, <1>3, <1>4 DEF plan

LEMMA OtherPlans ==
  /\ \A plan \in {Audit, <<"call", "read", "audit">>, <<"send", "read", "audit">>, <<"clear">>} :
       Planned(plan) /\ plan # <<>> /\ ~Configuring(plan) /\ ~Comparing(plan) /\ plan[1] \in {"read", "call", "send", "clear"}
  /\ LET plan == <<"forward", "read", "audit">>
     IN Planned(plan) /\ plan # <<>> /\ Configuring(plan) /\ ~Comparing(plan) /\ ~Saves(plan) /\ plan[1] = "forward"
<1>2. ASSUME NEW x \in {"call", "send", "forward"}
      PROVE  LET plan == <<x, "read", "audit">>
             IN Planned(plan) /\ plan # <<>> /\ (Configuring(plan) <=> x = "forward") /\ ~Comparing(plan)
                /\ ~Saves(plan) /\ plan[1] = x
  <2> DEFINE plan == <<x, "read", "audit">>
  <2>1. plan \in Seq(Steps) /\ Len(plan) = 3 /\ DOMAIN plan = 1..3 /\ plan # <<>> /\ plan[1] = x /\ plan[2] = "read" /\ plan[3] = "audit"
    BY DEF Steps, Uses, Writes
  <2> HIDE DEF plan
  <2>2. Planned(plan)
    BY <2>1 DEF Planned, Uses, Writes
  <2>3. (Configuring(plan) <=> x = "forward") /\ ~Comparing(plan)
    BY <2>1 DEF Configuring, Comparing, Last
  <2>4. Saves(plan) => plan[3] = Rollback[7]
    BY <2>1 DEF Saves
  <2>5. ~Saves(plan)
    BY <2>1, <2>4 DEF Rollback
  <2> QED BY <2>1, <2>2, <2>3, <2>5 DEF plan
<1>3. LET plan == Audit IN Planned(plan) /\ plan # <<>> /\ ~Configuring(plan) /\ ~Comparing(plan) /\ plan[1] = "read"
  BY DEF Audit, Planned, Uses, Writes, Steps, Configuring, Comparing, Last
<1>4. LET plan == <<"clear">> IN Planned(plan) /\ plan # <<>> /\ ~Configuring(plan) /\ ~Comparing(plan) /\ plan[1] = "clear"
  BY DEF Planned, Uses, Writes, Steps, Configuring, Comparing, Last
<1> QED BY <1>2, <1>3, <1>4

LEMMA VersionPlans ==
  /\ LET plan == <<"before", "set", "after", "read", "version">>
     IN Planned(plan) /\ Saves(plan) /\ Len(plan) = 5 /\ plan[1] = "before" /\ plan # <<>>
  /\ Planned(Rollback) /\ Saves(Rollback) /\ Len(Rollback) = 7 /\ Rollback[1] = "read" /\ Rollback # <<>>
<1>2. ASSUME NEW plan, plan \in {<<"before", "set", "after", "read", "version">>, Rollback}
      PROVE  /\ plan \in Seq(Steps) /\ Len(plan) \in {5, 7} /\ Saves(plan)
             /\ \A i \in 1..Len(plan) : /\ plan[i] = "read" => i < Len(plan) /\ plan[i + 1] \in Uses \ {"error"}
                                        /\ i > 1 /\ plan[i] \in Uses => plan[i - 1] = "read"
                                        /\ plan[i] \notin {"join", "show", "job"}
  <2>1. CASE plan = <<"before", "set", "after", "read", "version">>
    BY <2>1 DEF Steps, Uses, Writes, Saves, Rollback
  <2>2. CASE plan = Rollback
    BY <2>2 DEF Steps, Uses, Writes, Saves, Rollback
  <2> QED BY <1>2, <2>1, <2>2
<1>3. ASSUME NEW plan, plan \in {<<"before", "set", "after", "read", "version">>, Rollback} PROVE Planned(plan) /\ Saves(plan)
  BY <1>2, <1>3 DEF Planned
<1>4. /\ Len(<<"before", "set", "after", "read", "version">>) = 5 /\ <<"before", "set", "after", "read", "version">>[1] = "before"
      /\ Len(Rollback) = 7 /\ Rollback[1] = "read"
  BY DEF Rollback
<1> QED BY <1>3, <1>4

\* A request is one that touches no configuration, one that does, or an overview.
LEMMA ArrivesAs ==
  ASSUME NEW t \in Threads, Arrives(t)
  PROVE  Plain(t) \/ Reconfigures(t) \/ Overview(t)
<1>1. ASSUME NEW q \in Request, NEW x \in Writes \ {"version"}, Begin(t, q, Audited(x)) PROVE Plain(t)
  <2>1. Audited(x) \in Seq(Steps)
    BY UpdatePlan DEF Planned
  <2> QED BY <1>1, <2>1, UpdatePlan DEF Plain
<1>2. ASSUME NEW q \in Request, NEW plan \in {Audit, <<"call", "read", "audit">>, <<"send", "read", "audit">>, <<"clear">>},
             Begin(t, q, plan)
      PROVE  Plain(t)
  <2>1. plan \in Seq(Steps)
    BY OtherPlans DEF Planned
  <2> QED BY <1>2, <2>1, OtherPlans DEF Plain
<1>3. CASE CollectionWrite(t) \/ CollectionDelete(t) \/ TokenCreate(t) \/ TokenRevoke(t) \/ PasswordChange(t)
  <2>1. {"item", "remove", "token", "revoke", "password"} \subseteq Writes \ {"version"}
    BY DEF Writes
  <2>2. CASE CollectionWrite(t)
    <3>1. PICK k \in Keys, how \in {"replace", "create"} : Begin(t, [Idle EXCEPT !.key = k, !.content = how], Audited("item"))
      BY <2>2 DEF CollectionWrite
    <3> QED BY <1>1, <2>1, <3>1, IdleRequest DEF Texts
  <2>3. CASE CollectionDelete(t)
    BY <1>1, <2>1, <2>3, IdleRequest DEF CollectionDelete
  <2>4. CASE TokenCreate(t)
    BY <1>1, <2>1, <2>4, IdleRequest DEF TokenCreate
  <2>5. CASE TokenRevoke(t)
    <3>1. PICK id \in 1..MaxRequests : Begin(t, [Idle EXCEPT !.key = id], Audited("revoke"))
      BY <2>5 DEF TokenRevoke
    <3>2. id \in Keys \cup Nat
      OBVIOUS
    <3> QED BY <1>1, <2>1, <3>1, <3>2, IdleRequest
  <2>6. CASE PasswordChange(t)
    BY <1>1, <2>1, <2>6, IdleRequest DEF PasswordChange
  <2> QED BY <1>3, <2>2, <2>3, <2>4, <2>5, <2>6
<1>4. CASE RpcProxy(t) \/ SendMessage(t) \/ ConfigDelete(t)
  BY <1>2, <1>4, IdleRequest DEF RpcProxy, SendMessage, ConfigDelete
<1>5. CASE ConfigWrite(t) \/ ConfigForward(t) \/ ConfigRollback(t)
  <2>1. CASE ConfigWrite(t)
    <3>1. PICK s \in Scopes, c \in Contents \cup {"none"} :
            BeginConfig(t, [Idle EXCEPT !.scope = s, !.content = c], <<"before", "set", "after", "read", "version">>)
      BY <2>1 DEF ConfigWrite
    <3> DEFINE q == [Idle EXCEPT !.scope = s, !.content = c]
               plan == <<"before", "set", "after", "read", "version">>
    <3>2. q \in Request /\ Aimed(q)
      BY IdleRequest
    <3>3. Planned(plan) /\ plan \in Seq(Steps) /\ Saves(plan) /\ Len(plan) = 5 /\ plan[1] = "before" /\ plan # <<>>
      BY VersionPlans DEF Planned
    <3> HIDE DEF q, plan
    <3>4. Configuring(plan) /\ ~Comparing(plan)
      BY <3>3, SavesConfigures
    <3>5. BeginConfig(t, q, plan)
      BY <3>1 DEF q, plan
    <3>6. plan \in Seq(Steps) /\ plan[1] \in {"read", "before", "forward"} /\ (Saves(plan) => Len(plan) = 5)
      BY <3>3
    <3> QED BY <3>2, <3>3, <3>4, <3>5, <3>6, Zenon DEF Reconfigures
  <2>2. CASE ConfigForward(t)
    <3>1. PICK s \in Scopes, c \in Contents \cup {"none"} :
            BeginConfig(t, [Idle EXCEPT !.scope = s, !.content = c], <<"forward", "read", "audit">>)
      BY <2>2 DEF ConfigForward
    <3> DEFINE q == [Idle EXCEPT !.scope = s, !.content = c]
               plan == <<"forward", "read", "audit">>
    <3>2. q \in Request /\ Aimed(q)
      BY IdleRequest
    <3>3. /\ Planned(plan) /\ plan \in Seq(Steps) /\ ~Saves(plan) /\ Configuring(plan) /\ ~Comparing(plan)
          /\ plan[1] = "forward" /\ plan # <<>>
      BY OtherPlans DEF Planned
    <3> HIDE DEF q, plan
    <3>5. BeginConfig(t, q, plan)
      BY <3>1 DEF q, plan
    <3>6. plan \in Seq(Steps) /\ plan[1] \in {"read", "before", "forward"} /\ (Saves(plan) => Len(plan) = 5)
      BY <3>3
    <3> QED BY <3>2, <3>3, <3>5, <3>6, Zenon DEF Reconfigures
  <2>3. CASE ConfigRollback(t)
    <3> DEFINE q == [Idle EXCEPT !.rolls = TRUE]
    <3>1. q \in Request /\ q.rolls /\ BeginConfig(t, q, Rollback)
      BY <2>3, IdleRequest DEF ConfigRollback, Rollback
    <3> HIDE DEF q
    <3>2. Rollback \in Seq(Steps)
      BY VersionPlans DEF Planned
    <3> QED BY <3>1, <3>2, VersionPlans, SavesConfigures DEF Reconfigures
  <2> QED BY <1>5, <2>1, <2>2, <2>3
<1> QED BY <1>3, <1>4, <1>5 DEF Arrives

(***************************************************************************)
(* What a step does.                                                       *)
(***************************************************************************)

LEMMA LogAnd ==
  /\ <<"log">> \o <<>> = <<"log">>
  /\ <<"log">> \o <<"set">> = <<"log", "set">> /\ <<"log">> \o <<"log">> = <<"log", "log">>
<1>1. ASSUME NEW x \in Steps PROVE <<"log">> \o <<x>> = <<"log", x>>
  <2> DEFINE a == <<"log">>  b == <<x>>  c == a \o b  d == <<"log", x>>
  <2>1. a \in Seq(Steps) /\ b \in Seq(Steps) /\ Len(a) = 1 /\ Len(b) = 1 /\ a[1] = "log" /\ b[1] = x
    BY DEF Steps
  <2>2. d \in Seq(Steps) /\ Len(d) = 2 /\ d[1] = "log" /\ d[2] = x
    BY DEF Steps
  <2> HIDE DEF a, b, d
  <2>3. /\ c \in Seq(Steps) /\ Len(c) = Len(a) + Len(b)
        /\ \A i \in 1..Len(a) : c[i] = a[i]
        /\ \A i \in 1..Len(b) : c[Len(a) + i] = b[i]
    <3>1. a \in Seq(Steps) /\ b \in Seq(Steps)
      BY <2>1
    <3> QED BY <3>1
  <2> HIDE DEF c
  <2>4. c[1] = "log" /\ c[2] = x /\ Len(c) = 2
    BY <2>1, <2>3
  <2>5. \A i \in 1..Len(c) : c[i] = d[i]
    BY <2>2, <2>4
  <2>6. c = d
    BY <2>2, <2>3, <2>4, <2>5, SeqEqual
  <2> QED BY <2>6 DEF a, b, c, d
<1>2. <<"log">> \in Seq(Steps) /\ "set" \in Steps /\ "log" \in Steps
  BY DEF Steps
<1> QED BY <1>1, <1>2, ConcatEmptySeq

\* It moves its own thread on, and leaves the number of the request alone.
MovesOn(p, r) ==
  /\ todo' = [todo EXCEPT ![p] = r] /\ r \in Seq(Steps) /\ Moves(todo[p], r)
  /\ req' = [req EXCEPT ![p] = req'[p]] /\ req'[p].n = req[p].n /\ req'[p].alone = req[p].alone
  /\ served' = served

LEMMA Stepped ==
  ASSUME TypeInv, PlanInv, NEW p \in Procs, Step(p)
  PROVE  todo[p] # <<>> /\ todo[p] \in Seq(Steps) /\ \E r : MovesOn(p, r)
<1> DEFINE T == todo[p]
           R == Rest(p)
<1>t. T \in Seq(Steps) /\ Planned(T) /\ req \in [Procs -> Request] /\ todo \in [Procs -> Seq(Steps)]
  BY DEF TypeInv, PlanInv
<1>0. T # <<>>
  BY DEF Step, Read, ErrorRead, ErrorWrite, Call, Send, Job, Find, Before, Set, Forward, Clear, After, Join, Show, Write, At
<1>h. Head(T) = T[1] /\ R \in Seq(Steps)
  BY <1>t, <1>0, TailIs DEF Rest
\* What remains to be done.
<1>m. ASSUME NEW r, r \in {R, <<>>, <<"log">>} \/ (Head(T) \in {"call", "job", "forward"} /\ r = <<"log">> \o R)
                    \/ (Head(T) = "log" /\ r = <<"error">> \o R) \/ (Head(T) = "before" /\ r = <<"log", "set">>)
                    \/ (Head(T) \in {"set", "after"} /\ r = <<"log", "log">>)
      PROVE  Moves(T, r) /\ r \in Seq(Steps)
  <2>1. Moves(T, r)
    BY <1>h, <1>m DEF Moves, Rest
  <2>2. Planned(r)
    BY <1>t, <1>0, <2>1, Moved
  <2> QED BY <2>1, <2>2 DEF Planned
<1>f. /\ <<"log">> \o <<>> = <<"log">> /\ <<"log">> \o <<"set">> = <<"log", "set">>
      /\ <<"log">> \o <<"log">> = <<"log", "log">>
  BY LogAnd
\* What happens to the request.
<1>r. ASSUME req' = req \/ (\E x : req' = [req EXCEPT ![p].copy = x]) \/ (\E x : req' = [req EXCEPT ![p].after = x])
             \/ (\E x : req' = [req EXCEPT ![p].content = x]) \/ (\E x : req' = [req EXCEPT ![p].before = x])
             \/ (\E x : req' = [req EXCEPT ![p].was = x])
             \/ \E q : req' = [req EXCEPT ![p] = q] /\ q.n = req[p].n /\ q.alone = req[p].alone
      PROVE  req' = [req EXCEPT ![p] = req'[p]] /\ req'[p].n = req[p].n /\ req'[p].alone = req[p].alone
  BY <1>r, <1>t DEF Request
<1> HIDE DEF T, R
<1>1. ASSUME Read(p) \/ ErrorRead(p) \/ ErrorWrite(p) \/ (\E step \in Writes : Write(p, step))
      PROVE  \E r : MovesOn(p, r)
  <2>1. (\E r : todo' = [todo EXCEPT ![p] = r] /\ (r \in {R, <<>>} \/ (Head(T) = "log" /\ r = <<"error">> \o R))) /\ served' = served
    BY <1>1 DEF Read, ErrorRead, ErrorWrite, Write, Goes, At, T, R
  <2>2. \E x : req' = [req EXCEPT ![p].copy = x]
    BY <1>1 DEF Read, ErrorRead, ErrorWrite, Write, Store
  <2> QED BY <1>m, <1>r, <2>1, <2>2 DEF MovesOn, T
<1>2. ASSUME Call(p) \/ Send(p) \/ Job(p) \/ Clear(p) \/ Join(p) \/ Show(p) PROVE \E r : MovesOn(p, r)
  <2>1. (\E r : todo' = [todo EXCEPT ![p] = r] /\ (r \in {R, <<>>, <<"log">>} \/ (Head(T) \in {"call", "job"} /\ r = <<"log">> \o R)))
        /\ served' = served
    BY <1>2, <1>f DEF Call, Send, Job, Clear, Join, Show, Goes, Fails, At, T, R
  <2>2. req' = req \/ (\E x : req' = [req EXCEPT ![p].copy = x]) \/ (\E x : req' = [req EXCEPT ![p].after = x])
             \/ (\E x : req' = [req EXCEPT ![p].content = x])
    BY <1>2 DEF Call, Send, Job, Clear, Join, Show
  <2> QED BY <1>m, <1>r, <2>1, <2>2 DEF MovesOn, T
<1>3. ASSUME Find(p) \/ Before(p) \/ After(p) PROVE \E r : MovesOn(p, r)
  <2>1. (\E r : todo' = [todo EXCEPT ![p] = r] /\ (r \in {R, <<>>, <<"log">>} \/ (Head(T) = "before" /\ r = <<"log", "set">>)
                                                  \/ (Head(T) = "after" /\ r = <<"log", "log">>)))
        /\ served' = served
    <3>1. CASE Find(p)
      BY <3>1 DEF Find, Goes, At, T, R
    <3>2. CASE Before(p)
      BY <3>2, <1>f DEF Before, Goes, Fails, At, T, R
    <3>3. CASE After(p)
      BY <3>3, <1>f DEF After, Goes, Fails, At, T, R
    <3> QED BY <1>3, <3>1, <3>2, <3>3
  <2>2. req' = req \/ (\E x : req' = [req EXCEPT ![p].copy = x]) \/ (\E x : req' = [req EXCEPT ![p].after = x])
        \/ (\E x : req' = [req EXCEPT ![p].before = x])
        \/ \E q : req' = [req EXCEPT ![p] = q] /\ q.n = req[p].n /\ q.alone = req[p].alone
    <3>1. CASE Find(p)
      <4>1. CASE req' = [req EXCEPT ![p].copy = NoCopy]
        BY <4>1
      <4>2. CASE \E i \in DOMAIN req[p].copy.versions :
                   LET v == req[p].copy.versions[i]
                   IN req' = [req EXCEPT ![p] = [@ EXCEPT !.copy = NoCopy, !.kind = v.kind,
                          !.scope = IF v.kind = "model" THEN "none" ELSE v.scope,
                          !.content = IF v.kind = "model" THEN "none" ELSE v.before[v.scope]]]
        <5> PICK i \in DOMAIN req[p].copy.versions :
                   LET v == req[p].copy.versions[i]
                   IN req' = [req EXCEPT ![p] = [@ EXCEPT !.copy = NoCopy, !.kind = v.kind,
                          !.scope = IF v.kind = "model" THEN "none" ELSE v.scope,
                          !.content = IF v.kind = "model" THEN "none" ELSE v.before[v.scope]]]
          BY <4>2
        <5> DEFINE v == req[p].copy.versions[i]
                   q == [req[p] EXCEPT !.copy = NoCopy, !.kind = v.kind,
                          !.scope = IF v.kind = "model" THEN "none" ELSE v.scope,
                          !.content = IF v.kind = "model" THEN "none" ELSE v.before[v.scope]]
        <5>1. req' = [req EXCEPT ![p] = q]
          OBVIOUS
        <5>2. q.n = req[p].n /\ q.alone = req[p].alone
          BY <1>t DEF Request
        <5> HIDE DEF q
        <5> QED BY <5>1, <5>2
      <4> QED BY <3>1, <4>1, <4>2 DEF Find
    <3>2. CASE Before(p) \/ After(p)
      BY <3>2 DEF Before, After
    <3> QED BY <1>3, <3>1, <3>2
  <2> QED BY <1>m, <1>r, <2>1, <2>2 DEF MovesOn, T
<1>4. ASSUME Set(p) \/ Forward(p) PROVE \E r : MovesOn(p, r)
  <2>1. (\E r : todo' = [todo EXCEPT ![p] = r] /\ (r \in {R, <<>>, <<"log">>} \/ (Head(T) = "forward" /\ r = <<"log">> \o R)
                                                  \/ (Head(T) = "set" /\ r = <<"log", "log">>)))
        /\ served' = served
    BY <1>4, <1>f DEF Set, Forward, Goes, Fails, At, T, R
  <2>2. req' = req \/ (\E x : req' = [req EXCEPT ![p].was = x])
    BY <1>4 DEF Set, Forward, Apply
  <2> QED BY <1>m, <1>r, <2>1, <2>2 DEF MovesOn, T
<1> QED BY <1>t, <1>0, <1>1, <1>2, <1>3, <1>4 DEF Step, T, Writes

\* What it leaves alone of the request, the configuration and the causes.
Keeps(p) ==
  LET q == req[p]
      r == req'[p]
  IN /\ r.rolls = q.rolls
     /\ ~At(p, "find") => r.kind = q.kind /\ r.scope = q.scope
     /\ ~At(p, "find") /\ ~At(p, "job") => r.content = q.content
     /\ ~At(p, "before") => r.before = q.before
     /\ ~At(p, "after") /\ ~At(p, "job") => r.after = q.after
     /\ ~At(p, "set") /\ ~At(p, "forward") => r.was = q.was /\ config' = config
     /\ causes \subseteq causes'

LEMMA Kept ==
  ASSUME TypeInv, NEW p \in Procs, Step(p)
  PROVE  Keeps(p)
<1>1. req \in [Procs -> Request] /\ req[p] \in Request
  BY DEF TypeInv
<1>2. CASE Read(p) \/ ErrorRead(p) \/ ErrorWrite(p) \/ (\E step \in Writes : Write(p, step)) \/ Show(p)
  <2>1. \E x : req' = [req EXCEPT ![p].copy = x]
    BY <1>2 DEF Read, ErrorRead, ErrorWrite, Write, Store, Show
  <2>2. config' = config /\ causes \subseteq causes'
    BY <1>2 DEF Read, ErrorRead, ErrorWrite, Write, Store, Show, ghosts
  <2> QED BY <1>1, <2>1, <2>2 DEF Keeps, Request
<1>3. CASE Call(p) \/ Send(p) \/ Clear(p) \/ Join(p)
  BY <1>3 DEF Call, Send, Clear, Join, Keeps, ghosts
<1>4. CASE Job(p)
  BY <1>1, <1>4 DEF Job, Keeps, ghosts, Request
<1>5. CASE Find(p)
  <2>1. config' = config /\ causes' = causes
    BY <1>5 DEF Find, ghosts
  <2>2. CASE req' = [req EXCEPT ![p].copy = NoCopy]
    BY <1>1, <2>1, <2>2 DEF Keeps, Request
  <2>3. CASE \E i \in DOMAIN req[p].copy.versions :
                   LET v == req[p].copy.versions[i]
                   IN req' = [req EXCEPT ![p] = [@ EXCEPT !.copy = NoCopy, !.kind = v.kind,
                          !.scope = IF v.kind = "model" THEN "none" ELSE v.scope,
                          !.content = IF v.kind = "model" THEN "none" ELSE v.before[v.scope]]]
    <3>1. req'[p].rolls = req[p].rolls /\ req'[p].before = req[p].before /\ req'[p].after = req[p].after /\ req'[p].was = req[p].was
      BY <1>1, <2>3 DEF Request
    <3>2. At(p, "find")
      BY <1>5 DEF Find
    <3> QED BY <2>1, <3>1, <3>2 DEF Keeps
  <2>4. \/ req' = [req EXCEPT ![p].copy = NoCopy]
        \/ \E i \in DOMAIN req[p].copy.versions :
                   LET v == req[p].copy.versions[i]
                   IN req' = [req EXCEPT ![p] = [@ EXCEPT !.copy = NoCopy, !.kind = v.kind,
                          !.scope = IF v.kind = "model" THEN "none" ELSE v.scope,
                          !.content = IF v.kind = "model" THEN "none" ELSE v.before[v.scope]]]
    BY <1>5 DEF Find
  <2> QED BY <2>2, <2>3, <2>4
<1>6. CASE Before(p) \/ After(p)
  BY <1>1, <1>6 DEF Before, After, Keeps, ghosts, Request, NoVersion
<1>7. CASE Set(p) \/ Forward(p)
  <2>1. req' = req \/ req' = [req EXCEPT ![p].was = config]
    BY <1>7 DEF Set, Forward, Apply
  <2>2. causes \subseteq causes' /\ (At(p, "set") \/ At(p, "forward"))
    BY <1>7 DEF Set, Forward, NoVersion
  <2> QED BY <1>1, <2>1, <2>2 DEF Keeps, Request
<1> QED BY <1>2, <1>3, <1>4, <1>5, <1>6, <1>7 DEF Step, Writes

\* Where a change that saves a version stands.
LEMMA SavesAt ==
  ASSUME NEW s \in Seq(Steps), Saves(s)
  PROVE  /\ Len(s) \in 1..7 /\ s # <<>> /\ Head(s) = s[1]
         /\ s[1] = "find" <=> Len(s) = 6
         /\ s[1] = "before" <=> Len(s) = 5
         /\ s[1] = "set" <=> Len(s) = 4
         /\ s[1] = "after" <=> Len(s) = 3
         /\ s[1] = "version" <=> Len(s) = 1
         /\ s[1] = "read" <=> Len(s) \in {2, 7}
         /\ s[1] # "forward"
<1>1. Len(s) \in 1..7 /\ s[1] = Rollback[8 - Len(s)]
  BY DEF Saves
<1>2. s # <<>> /\ Head(s) = s[1]
  BY SavesConfigures, TailIs
<1>3. \A n \in 1..7 : /\ Rollback[8 - n] = "find" <=> n = 6
                      /\ Rollback[8 - n] = "before" <=> n = 5
                      /\ Rollback[8 - n] = "set" <=> n = 4
                      /\ Rollback[8 - n] = "after" <=> n = 3
                      /\ Rollback[8 - n] = "version" <=> n = 1
                      /\ Rollback[8 - n] = "read" <=> n \in {2, 7}
                      /\ Rollback[8 - n] # "forward"
  <2>1. ASSUME NEW n \in 1..7 PROVE n = 1 \/ n = 2 \/ n = 3 \/ n = 4 \/ n = 5 \/ n = 6 \/ n = 7
    OBVIOUS
  <2>2. /\ Rollback[1] = "read" /\ Rollback[2] = "find" /\ Rollback[3] = "before" /\ Rollback[4] = "set"
        /\ Rollback[5] = "after" /\ Rollback[6] = "read" /\ Rollback[7] = "version"
    BY DEF Rollback
  <2> QED BY <2>1, <2>2
<1> QED BY <1>1, <1>2, <1>3

(***************************************************************************)
(* What a file holds.                                                      *)
(***************************************************************************)

LEMMA LastIs ==
  ASSUME NEW S, NEW s \in Seq(S), NEW n \in Nat \ {0}
  PROVE  /\ LastOf(s, n) \in Seq(S) /\ Len(LastOf(s, n)) <= n
         /\ Len(s) <= n => LastOf(s, n) = s
         /\ Len(s) > n => /\ Len(LastOf(s, n)) = n
                          /\ \A i \in 1..n : LastOf(s, n)[i] = s[Len(s) - n + i]
<1>1. CASE Len(s) > n
  <2> DEFINE m == Len(s) - n + 1
  <2>1. m \in 1..Len(s) /\ Len(s) - m + 1 = n
    BY <1>1
  <2>2. \A i \in m..Len(s) : s[i] \in S
    BY <2>1
  <2>3. LastOf(s, n) = [i \in 1..n |-> s[i + m - 1]]
    BY <1>1, <2>1 DEF LastOf
  <2>4. \A i \in 1..n : i + m - 1 \in m..Len(s)
    BY <2>1
  <2>5. LastOf(s, n) \in Seq(S) /\ Len(LastOf(s, n)) = n
    BY <2>2, <2>3, <2>4
  <2>6. \A i \in 1..n : LastOf(s, n)[i] = s[Len(s) - n + i]
    BY <2>1, <2>3
  <2> QED BY <1>1, <2>5, <2>6
<1>2. CASE ~(Len(s) > n)
  BY <1>2 DEF LastOf
<1> QED BY <1>1, <1>2

\* Reading a file shortens the audit only: the other lists are kept short as they are written.
LEMMA ReadIs ==
  /\ \A f \in Copies("state") : /\ ReadState(f) \in Copies("state")
                                /\ ReadState(f).items = f.items /\ ReadState(f).versions = f.versions
                                /\ ReadState(f).errors = f.errors
  /\ \A s \in Stores : \A f \in Copies(s) : ReadFile(s, f) \in Copies(s)
<1>1. ASSUME NEW f \in Copies("state")
      PROVE  /\ ReadState(f) \in Copies("state")
             /\ ReadState(f).items = f.items /\ ReadState(f).versions = f.versions
             /\ ReadState(f).errors = f.errors
  <2>1. f \in StateFile /\ Short(f)
    BY <1>1 DEF Copies
  <2>2. f.audit \in Seq(Nat) /\ f.versions \in Seq(Versions) /\ f.errors \in Seq(Nat) /\ f.items \in Items
    BY <2>1 DEF StateFile
  <2>3. /\ LastOf(f.audit, AuditLimit) \in Seq(Nat) /\ LastOf(f.versions, VersionLimit) = f.versions
        /\ LastOf(f.errors, ErrorLimit) = f.errors
    BY <2>1, <2>2, LastIs, PanelAssumption DEF Short
  <2>4. ReadState(f) = [f EXCEPT !.audit = LastOf(f.audit, AuditLimit)]
    BY <2>1, <2>3 DEF ReadState, StateFile
  <2>5. /\ ReadState(f) \in StateFile /\ ReadState(f).items = f.items /\ ReadState(f).versions = f.versions
        /\ ReadState(f).errors = f.errors
    BY <2>1, <2>3, <2>4 DEF StateFile
  <2> QED BY <2>1, <2>5 DEF Copies, Short
<1> QED BY <1>1 DEF ReadFile, Stores

\* A copy is a file, of one kind.
LEMMA CopyIs ==
  /\ \A s \in Stores : Copies(s) \subseteq Copies("state") \cup AuthFile
  /\ \A s \in Stores : NoCopy \notin Copies(s)
  /\ \A x \in Uses \cup Steps : StoreOf(x) \in Stores
<1>1. \A s \in Stores : NoCopy \notin Copies(s)
  <2>1. \A f \in StateFile : "items" \in DOMAIN f
    BY DEF StateFile
  <2>2. \A f \in AuthFile : "tokens" \in DOMAIN f
    BY DEF AuthFile
  <2>3. DOMAIN NoCopy = {}
    BY DEF NoCopy
  <2> QED BY <2>1, <2>2, <2>3 DEF Copies
<1> QED BY <1>1 DEF Copies, Stores, StoreOf

\* What a handler puts into its copy, but for a version and an error.
LEMMA ChangeIs ==
  ASSUME NEW q \in Request, NEW step \in Writes \cup {"error"}, NEW f \in Copies(StoreOf(step)),
         step = "version" => VersionOf(q) \in Versions
  PROVE  /\ Change(step, q, f) \in Copies(StoreOf(step))
         /\ StoreOf(step) = "state" =>
              /\ step # "version" => Change(step, q, f).versions = f.versions
              /\ step # "error" => Change(step, q, f).errors = f.errors
         /\ step = "version" => Change(step, q, f).versions = LastOf(Append(f.versions, VersionOf(q)), VersionLimit)
         /\ step = "error" => Change(step, q, f).errors = LastOf(Append(f.errors, q.n), ErrorLimit)
<1>q. q.n \in 0..MaxRequests /\ q.n \in Nat /\ MaxRequests \in Nat
  BY PanelAssumption DEF Request
<1>1. CASE step \in {"item", "remove"}
  <2>1. f \in StateFile /\ Short(f) /\ StoreOf(step) = "state"
    BY <1>1 DEF StoreOf, Copies
  <2>2. \A n \in 0..MaxRequests : [f.items EXCEPT ![q.key] = n] \in Items
    BY <2>1 DEF StateFile, Items
  <2>3. \E x \in Items : Change(step, q, f) = [f EXCEPT !.items = x]
    <3>1. 0 \in 0..MaxRequests
      BY <1>q
    <3>2. CASE step = "item"
      <4>1. Change(step, q, f) = [f EXCEPT !.items = [f.items EXCEPT ![q.key] = q.n]]
        BY <3>2 DEF Change
      <4> QED BY <4>1, <2>2, <1>q
    <3>3. CASE step = "remove"
      <4>1. Change(step, q, f) = [f EXCEPT !.items = [f.items EXCEPT ![q.key] = 0]]
        BY <3>3 DEF Change
      <4> QED BY <4>1, <2>2, <3>1
    <3> QED BY <1>1, <3>2, <3>3
  <2> QED BY <1>1, <2>1, <2>3 DEF StateFile, Copies, Short
<1>2. CASE step = "audit"
  <2>1. f \in StateFile /\ Short(f) /\ StoreOf(step) = "state" /\ Append(f.audit, q.n) \in Seq(Nat)
    BY <1>2, <1>q DEF StoreOf, Copies, StateFile
  <2>2. Change(step, q, f) = [f EXCEPT !.audit = Append(f.audit, q.n)]
    BY <1>2 DEF Change
  <2> QED BY <1>2, <2>1, <2>2 DEF StateFile, Copies, Short
<1>3. CASE step = "version"
  <2> DEFINE x == LastOf(Append(f.versions, VersionOf(q)), VersionLimit)
  <2>1. f \in StateFile /\ Short(f) /\ StoreOf(step) = "state" /\ f.versions \in Seq(Versions)
    BY <1>3 DEF StoreOf, Copies, StateFile
  <2>2. Append(f.versions, VersionOf(q)) \in Seq(Versions)
    BY <1>3, <2>1
  <2>3. x \in Seq(Versions) /\ Len(x) <= VersionLimit
    BY <2>2, LastIs, PanelAssumption
  <2>4. Change(step, q, f) = [f EXCEPT !.versions = x]
    BY <1>3 DEF Change
  <2> HIDE DEF x
  <2>5. Change(step, q, f) \in Copies("state") /\ Change(step, q, f).versions = x /\ Change(step, q, f).errors = f.errors
    BY <2>1, <2>3, <2>4 DEF StateFile, Copies, Short
  <2> QED BY <1>3, <2>1, <2>5 DEF x
<1>4. CASE step = "error"
  <2> DEFINE x == LastOf(Append(f.errors, q.n), ErrorLimit)
  <2>1. f \in StateFile /\ Short(f) /\ StoreOf(step) = "state" /\ f.errors \in Seq(Nat)
    BY <1>4 DEF StoreOf, Copies, StateFile
  <2>2. Append(f.errors, q.n) \in Seq(Nat)
    BY <1>q, <2>1
  <2>3. x \in Seq(Nat) /\ Len(x) <= ErrorLimit
    BY <2>2, LastIs, PanelAssumption
  <2>4. Change(step, q, f) = [f EXCEPT !.errors = x]
    BY <1>4 DEF Change
  <2> HIDE DEF x
  <2>5. Change(step, q, f) \in Copies("state") /\ Change(step, q, f).errors = x /\ Change(step, q, f).versions = f.versions
    BY <2>1, <2>3, <2>4 DEF StateFile, Copies, Short
  <2> QED BY <1>4, <2>1, <2>5 DEF x
<1>5. CASE step \in {"token", "revoke", "password"}
  <2>1. f \in AuthFile /\ StoreOf(step) = "auth"
    BY <1>5 DEF StoreOf, Copies
  <2>2. \A i, v : v \in {"none", "on", "off"} => [f.tokens EXCEPT ![i] = v] \in Tokens
    BY <2>1 DEF AuthFile, Tokens
  <2>3. CASE step = "token"
    <3>1. Change(step, q, f) = [f EXCEPT !.tokens = [f.tokens EXCEPT ![q.n] = "on"]]
      BY <2>3 DEF Change
    <3> QED BY <2>1, <2>2, <2>3, <3>1 DEF AuthFile, Copies
  <2>4. CASE step = "revoke"
    <3>1. Change(step, q, f) = [f EXCEPT !.tokens = [f.tokens EXCEPT ![q.key] = "off"]]
      BY <2>4 DEF Change
    <3> QED BY <2>1, <2>2, <2>4, <3>1 DEF AuthFile, Copies
  <2>5. CASE step = "password"
    <3>1. Change(step, q, f) = [f EXCEPT !.password = q.n]
      BY <2>5 DEF Change
    <3> QED BY <1>q, <2>1, <2>5, <3>1 DEF AuthFile, Copies
  <2> QED BY <1>5, <2>3, <2>4, <2>5
<1> QED BY <1>1, <1>2, <1>3, <1>4, <1>5 DEF Writes

(***************************************************************************)
(* The files, step by step.                                                *)
(***************************************************************************)

FilesInv == TypeInv /\ PlanInv /\ AimInv /\ CopyInv /\ WaitInv /\ OnlyOldCopiesLoseChanges

LEMMA InitFiles == Init => FilesInv
<1> SUFFICES ASSUME Init PROVE FilesInv
  OBVIOUS
<1>p. PanelAssumption
  BY PanelAssumption
<1>1. \A p \in Procs : todo[p] = <<>> /\ req[p] = Idle
  BY DEF Init
<1>2. \A p \in Procs : (\A x : ~At(p, x)) /\ ~Compares(p) /\ ~Using(p) /\ ~Configures(p) /\ ~Saves(todo[p])
  <2>1. Len(<<>>) = 0 /\ DOMAIN <<>> = {}
    OBVIOUS
  <2>2. ~Saves(<<>>)
    BY <2>1 DEF Saves
  <2> QED BY <1>1, <2>1, <2>2 DEF At, Compares, Using, Configures
<1>3. PlanInv
  BY <1>1, <1>2, Short1 DEF PlanInv, Procs
<1>4. AimInv
  BY <1>2 DEF AimInv
<1>5. WaitInv
  BY <1>1, <1>2 DEF WaitInv, Procs
<1>6. CopyInv
  BY <1>2, <1>p DEF CopyInv, Init, Procs
<1>7. OnlyOldCopiesLoseChanges
  BY DEF OnlyOldCopiesLoseChanges, Init
<1>8. TypeInv
  <2>1. todo \in [Procs -> Seq(Steps)] /\ req \in [Procs -> Request]
    <3>1. <<>> \in Seq(Steps)
      OBVIOUS
    <3> QED BY <3>1, IdleRequest DEF Init
  <2>2. PICK versions \in {<<>>, <<Legacy>>} :
          file = [state |-> [items |-> [k \in Keys |-> 0], audit |-> <<>>, versions |-> versions, errors |-> <<>>],
                  auth |-> [tokens |-> [i \in 1..MaxRequests |-> "none"], password |-> 0]]
    BY DEF Init
  <2> DEFINE f == [items |-> [k \in Keys |-> 0], audit |-> <<>>, versions |-> versions, errors |-> <<>>]
             g == [tokens |-> [i \in 1..MaxRequests |-> "none"], password |-> 0]
  <2>3. f \in Copies("state")
    <3>1. versions \in Seq(Versions) /\ Len(versions) <= 1
      <4>1. Legacy \in Versions
        BY DEF Versions
      <4>2. <<Legacy>> \in Seq(Versions) /\ Len(<<Legacy>>) <= 1
        BY <4>1
      <4>3. <<>> \in Seq(Versions) /\ Len(<<>>) <= 1
        OBVIOUS
      <4>4. versions = <<>> \/ versions = <<Legacy>>
        BY <2>2
      <4> QED BY <4>2, <4>3, <4>4, Zenon
    <3>2. [k \in Keys |-> 0] \in Items /\ <<>> \in Seq(Nat) /\ Len(<<>>) = 0
      BY <1>p DEF Items
    <3>3. f \in StateFile
      BY <3>1, <3>2 DEF StateFile
    <3>4. Short(f)
      BY <3>1, <3>2, <1>p DEF Short
    <3> QED BY <3>3, <3>4 DEF Copies
  <2>4. g \in Copies("auth")
    <3>1. [i \in 1..MaxRequests |-> "none"] \in Tokens
      BY DEF Tokens
    <3> QED BY <3>1 DEF Copies, AuthFile
  <2> HIDE DEF f, g
  <2>5. file = [s \in Stores |-> IF s = "state" THEN f ELSE g]
    <3>1. file = [state |-> f, auth |-> g]
      BY <2>2 DEF f, g
    <3>2. DOMAIN file = Stores /\ file["state"] = f /\ file["auth"] = g /\ file = [s \in DOMAIN file |-> file[s]]
      BY <3>1 DEF Stores
    <3> QED BY <3>2 DEF Stores
  <2>6. file \in [Stores -> Copies("state") \cup AuthFile] /\ \A s \in Stores : file[s] \in Copies(s)
    BY <2>3, <2>4, <2>5 DEF Stores, Copies
  <2>7. ideal = [s \in Stores |-> ideal[s]]
    BY <2>5 DEF Init
  <2>8. served \in 0..MaxRequests /\ config \in Config
    BY <1>p DEF Init, Config
  <2> QED BY <2>1, <2>6, <2>7, <2>8 DEF TypeInv, Init
<1> QED BY <1>3, <1>4, <1>5, <1>6, <1>7, <1>8 DEF FilesInv

\* A request that begins brings its steps and its arguments, and changes nothing but
\* whether others are alone.
AloneOnly(q, r) == r = [q EXCEPT !.alone = r.alone]
Arrived(t, q, plan) ==
  /\ todo[t] = <<>> /\ todo' = [todo EXCEPT ![t] = plan]
  /\ served < MaxRequests /\ served' = served + 1 /\ shown' = [kind |-> "none"]
  /\ UNCHANGED <<file, lock, config, ghosts>>
  /\ req' \in [Procs -> Request] /\ AloneOnly([q EXCEPT !.n = served + 1], req'[t])
  /\ \A r \in Procs : r # t => AloneOnly(req[r], req'[r])

LEMMA BeginsAs ==
  ASSUME TypeInv, NEW t \in Threads, NEW q \in Request, NEW plan, Begin(t, q, plan) \/ BeginConfig(t, q, plan)
  PROVE  Arrived(t, q, plan)
<1>1. t \in Procs /\ req \in [Procs -> Request] /\ served + 1 \in 0..MaxRequests
  <2>1. MaxRequests \in Nat /\ served \in 0..MaxRequests /\ served < MaxRequests
    BY PanelAssumption DEF TypeInv, Begin, BeginConfig
  <2>2. served + 1 \in 0..MaxRequests
    BY <2>1
  <2> QED BY <2>2 DEF Procs, TypeInv
<1>2. CASE Begin(t, q, plan)
  <2>1. req' = [req EXCEPT ![t] = [q EXCEPT !.n = served + 1]] /\ [q EXCEPT !.n = served + 1] \in Request
    BY <1>1, <1>2 DEF Begin, Request
  <2>2. \A r \in Request : AloneOnly(r, r)
    BY DEF AloneOnly, Request
  <2> QED BY <1>1, <1>2, <2>1, <2>2 DEF Arrived, Begin
<1>3. CASE BeginConfig(t, q, plan)
  <2>1. \A r \in Request, b \in BOOLEAN : [r EXCEPT !.alone = b] \in Request /\ AloneOnly(r, [r EXCEPT !.alone = b])
    BY DEF Request, AloneOnly
  <2>2. [q EXCEPT !.n = served + 1] \in Request
    BY <1>1 DEF Request
  <2>3. /\ req' = [p \in Procs |-> IF p = t THEN req'[t] ELSE req'[p]]
        /\ req'[t] = [[q EXCEPT !.n = served + 1] EXCEPT !.alone = \A r \in Threads : ~Configures(r)]
        /\ \A p \in Procs : p # t => req'[p] = [req[p] EXCEPT !.alone = @ /\ ~Configures(p) /\ ~Compares(p)]
    BY <1>1, <1>3 DEF BeginConfig
  <2>4. req'[t] \in Request /\ AloneOnly([q EXCEPT !.n = served + 1], req'[t])
    BY <2>1, <2>2, <2>3
  <2>5. ASSUME NEW p \in Procs, p # t PROVE req'[p] \in Request /\ AloneOnly(req[p], req'[p])
    <3>1. req'[p] = [req[p] EXCEPT !.alone = (req[p].alone /\ ~Configures(p) /\ ~Compares(p))] /\ req[p] \in Request
      BY <1>1, <2>3, <2>5
    <3>2. (req[p].alone /\ ~Configures(p) /\ ~Compares(p)) \in BOOLEAN
      OBVIOUS
    <3> QED BY <2>1, <3>1, <3>2
  <2> QED BY <1>1, <1>3, <2>3, <2>4, <2>5 DEF Arrived, BeginConfig
<1> QED BY <1>2, <1>3

LEMMA SameBut ==
  ASSUME NEW q \in Request, NEW r \in Request, AloneOnly(q, r)
  PROVE  /\ r.n = q.n /\ r.key = q.key /\ r.scope = q.scope /\ r.content = q.content /\ r.kind = q.kind
         /\ r.rolls = q.rolls /\ r.before = q.before /\ r.after = q.after /\ r.was = q.was /\ r.copy = q.copy
BY DEF AloneOnly, Request

LEMMA ArriveFiles ==
  ASSUME FilesInv, NEW t \in Threads, NEW q \in Request, NEW plan \in Seq(Steps), Arrived(t, q, plan),
         Planned(plan), plan # <<>>, ~Comparing(plan),
         plan[1] \in {"read", "call", "send", "clear", "before", "forward"},
         Configuring(plan) => \/ Aimed(q) /\ (Saves(plan) => Len(plan) = 5)
                              \/ q.rolls /\ Saves(plan) /\ Len(plan) = 7
  PROVE  FilesInv'
<1>t. /\ t \in Procs /\ t \notin Pool /\ todo \in [Procs -> Seq(Steps)] /\ req \in [Procs -> Request]
      /\ MaxRequests \in Nat /\ served \in 0..MaxRequests
  BY PanelAssumption DEF FilesInv, TypeInv, Procs
<1>a. /\ todo[t] = <<>> /\ todo' = [todo EXCEPT ![t] = plan] /\ served < MaxRequests /\ served' = served + 1
      /\ file' = file /\ lock' = lock /\ config' = config /\ ideal' = ideal /\ stale' = stale /\ overlapped' = overlapped
      /\ req' \in [Procs -> Request]
  BY DEF Arrived, ghosts
<1>b. todo'[t] = plan /\ \A r \in Procs : r # t => todo'[r] = todo[r]
  BY <1>a, <1>t
<1>h. Head(plan) = plan[1] /\ Len(plan) \in Nat \ {0}
  BY TailIs
<1>s. served' \in 0..MaxRequests
  BY <1>a, <1>t
<1>r. \A r \in Procs : r # t => /\ req'[r].copy = req[r].copy /\ req'[r].rolls = req[r].rolls /\ req'[r].kind = req[r].kind
                               /\ req'[r].before = req[r].before /\ req'[r].after = req[r].after /\ (Aimed(req'[r]) <=> Aimed(req[r]))
  <2>1. \A r \in Procs : r # t => AloneOnly(req[r], req'[r]) /\ req[r] \in Request /\ req'[r] \in Request
    BY <1>t, <1>a DEF Arrived
  <2> QED BY <2>1, SameBut DEF Aimed
<1>q. req'[t].rolls = q.rolls /\ (Aimed(req'[t]) <=> Aimed(q))
  <2>1. [q EXCEPT !.n = served + 1] \in Request
    BY <1>s, <1>a DEF Request
  <2>2. AloneOnly([q EXCEPT !.n = served + 1], req'[t]) /\ req'[t] \in Request
    BY <1>a, <1>t DEF Arrived
  <2>3. /\ req'[t].rolls = [q EXCEPT !.n = served + 1].rolls /\ req'[t].scope = [q EXCEPT !.n = served + 1].scope
        /\ req'[t].content = [q EXCEPT !.n = served + 1].content
    BY <2>1, <2>2, SameBut
  <2> QED BY <2>3 DEF Aimed, Request
<1>c. \A r \in Procs : Compares(r)' <=> Compares(r)
  <2>1. ~Compares(t) /\ ~Compares(t)'
    BY <1>a, <1>b DEF Compares, Comparing
  <2> QED BY <2>1, <1>b DEF Compares
<1>1. TypeInv'
  <2>1. todo' \in [Procs -> Seq(Steps)]
    BY <1>a, <1>t
  <2> QED BY <1>a, <1>s, <2>1 DEF FilesInv, TypeInv
<1>2. PlanInv'
  <2>1. ~At(t, "job")'
    BY <1>b, <1>h DEF At
  <2> QED BY <1>b, <1>t, <2>1 DEF FilesInv, PlanInv, At, Procs
<1>3. AimInv'
  <2>1. ASSUME NEW r \in Procs, r # t
        PROVE  /\ Configures(r)' => \/ Aimed(req'[r])
                                    \/ Saves(todo'[r]) /\ req'[r].rolls /\ (Len(todo'[r]) < 6 => req'[r].kind = "model")
               /\ Saves(todo'[r]) => /\ Len(todo'[r]) > 5 => req'[r].rolls
                                     /\ Len(todo'[r]) < 5 => req'[r].before \in Config
                                     /\ Len(todo'[r]) < 4 => req'[r].kind = "persona"
                                     /\ Len(todo'[r]) < 3 => req'[r].after \in Config
    BY <1>b, <1>r, <2>1 DEF FilesInv, AimInv, Configures
  <2>2. /\ Configures(t)' => \/ Aimed(req'[t])
                             \/ Saves(todo'[t]) /\ req'[t].rolls /\ (Len(todo'[t]) < 6 => req'[t].kind = "model")
        /\ Saves(todo'[t]) => /\ Len(todo'[t]) > 5 => req'[t].rolls
                              /\ Len(todo'[t]) < 5 => req'[t].before \in Config
                              /\ Len(todo'[t]) < 4 => req'[t].kind = "persona"
                              /\ Len(todo'[t]) < 3 => req'[t].after \in Config
    <3>1. Configures(t)' <=> Configuring(plan)
      BY <1>b DEF Configures, Configuring
    <3>2. Saves(plan) => Configuring(plan)
      BY SavesConfigures
    <3>3. Saves(plan) => Len(plan) = 5 \/ (Len(plan) = 7 /\ q.rolls)
      BY <3>2
    <3>4. todo'[t] = plan
      BY <1>b
    <3>5. CASE Saves(plan)
      <4>1. ~(Len(plan) < 5) /\ ~(Len(plan) < 4) /\ ~(Len(plan) < 3) /\ (Len(plan) > 5 => q.rolls) /\ (Len(plan) < 6 => Aimed(q))
        <5>1. Len(plan) = 5 => Aimed(q)
          BY <3>2, <3>5
        <5>2. Len(plan) = 5 \/ (Len(plan) = 7 /\ q.rolls)
          BY <3>3, <3>5
        <5>3. CASE Len(plan) = 5
          <6>1. ~(Len(plan) < 5) /\ ~(Len(plan) < 4) /\ ~(Len(plan) < 3) /\ ~(Len(plan) > 5)
            BY <5>3
          <6> QED BY <5>1, <5>3, <6>1
        <5>4. CASE Len(plan) = 7 /\ q.rolls
          <6>1. ~(Len(plan) < 5) /\ ~(Len(plan) < 4) /\ ~(Len(plan) < 3) /\ ~(Len(plan) < 6)
            BY <5>4
          <6> QED BY <5>4, <6>1
        <5> QED BY <5>2, <5>3, <5>4
      <4>2. Aimed(q) \/ (q.rolls /\ ~(Len(plan) < 6))
        BY <3>2, <3>5, <4>1
      <4> QED BY <1>q, <3>4, <3>5, <4>1, <4>2
    <3>6. CASE ~Saves(plan)
      BY <1>q, <3>1, <3>4, <3>6
    <3> QED BY <3>5, <3>6
  <2> QED BY <2>1, <2>2 DEF AimInv
<1>4. CopyInv'
  <2>1. \A x : At(t, x)' => x = plan[1]
    BY <1>b, <1>h DEF At
  <2>2. ~At(t, "error") /\ ~At(t, "error")' /\ ~Using(t)'
    BY <1>a, <1>b, <1>h DEF At, Using, Uses, Writes
  <2>3. \A r \in Procs : r # t => /\ Using(r)' <=> Using(r)
                                  /\ StoreFor(r)' = StoreFor(r) /\ (At(r, "error")' <=> At(r, "error"))
    BY <1>b DEF Using, StoreFor, At
  <2> QED BY <1>a, <1>r, <2>2, <2>3 DEF FilesInv, CopyInv
<1>5. WaitInv'
  <2>1. \A r \in Procs : Compares(r) => (At(r, "join")' <=> At(r, "join"))
    BY <1>a, <1>b DEF Compares, At
  <2>2. \A p \in Pool : todo'[p] = todo[p]
    BY <1>b, <1>t DEF Procs
  <2> QED BY <1>c, <2>1, <2>2 DEF FilesInv, WaitInv
<1>6. OnlyOldCopiesLoseChanges'
  BY <1>a DEF FilesInv, OnlyOldCopiesLoseChanges
<1> QED BY <1>1, <1>2, <1>3, <1>4, <1>5, <1>6 DEF FilesInv

LEMMA ViewPlan ==
  Planned(View) /\ View # <<>> /\ View[1] = "join" /\ Comparing(View) /\ ~Configuring(View) /\ ~Saves(View)
<1>1. View \in Seq(Steps) /\ Len(View) = 3 /\ DOMAIN View = 1..3
  BY DEF View, Steps, Uses
<1>2. View[1] = "join" /\ View[2] = "read" /\ View[3] = "show"
  BY DEF View
<1>3. Views(View)
  BY <1>1 DEF Views
<1>4. Planned(View)
  BY <1>1, <1>2, <1>3 DEF Planned, Uses, Writes
<1>5. ~Saves(View)
  <2>1. Saves(View) => View[3] = Rollback[7]
    BY <1>1 DEF Saves
  <2> QED BY <2>1, <1>2 DEF Rollback
<1> QED BY <1>1, <1>2, <1>4, <1>5 DEF Comparing, Configuring, Last

LEMMA JobPlan ==
  /\ Planned(<<"job">>) /\ <<"job">> # <<>> /\ <<"job">>[1] = "job"
  /\ ~Comparing(<<"job">>) /\ ~Configuring(<<"job">>) /\ ~Saves(<<"job">>)
<1>1. <<"job">> \in Seq(Steps) /\ Len(<<"job">>) = 1 /\ <<"job">>[1] = "job" /\ DOMAIN <<"job">> = 1..1
  BY DEF Steps
<1>2. ~Saves(<<"job">>)
  <2>1. Saves(<<"job">>) => <<"job">>[1] = Rollback[7]
    BY <1>1 DEF Saves
  <2> QED BY <2>1, <1>1 DEF Rollback
<1> QED BY <1>1, <1>2 DEF Planned, Uses, Writes, Comparing, Configuring, Last

LEMMA OverviewFiles ==
  ASSUME FilesInv, NEW t \in Threads, Overview(t)
  PROVE  FilesInv'
<1>t. /\ t \in Procs /\ t \notin Pool /\ Pool \subseteq Procs /\ todo \in [Procs -> Seq(Steps)] /\ req \in [Procs -> Request]
      /\ MaxRequests \in Nat /\ served \in 0..MaxRequests
  BY PanelAssumption DEF FilesInv, TypeInv, Procs
<1>a. /\ todo[t] = <<>> /\ served < MaxRequests /\ served' = served + 1
      /\ file' = file /\ lock' = lock /\ config' = config /\ ideal' = ideal /\ stale' = stale /\ overlapped' = overlapped
  BY DEF Overview, ghosts
<1>b. /\ todo'[t] = View /\ \A p \in Pool : todo'[p] = <<"job">>
      /\ \A r \in Procs : r # t /\ r \notin Pool => todo'[r] = todo[r] /\ req'[r] = req[r]
      /\ todo' \in [Procs -> Seq(Steps)]
  <2>1. <<"job">> \in Seq(Steps) /\ View \in Seq(Steps)
    BY ViewPlan, JobPlan DEF Planned
  <2> QED BY <1>t, <2>1 DEF Overview, View
<1>s. served' \in 0..MaxRequests
  BY <1>a, <1>t
<1>r. req' \in [Procs -> Request]
  <2>1. \A b \in BOOLEAN : [Idle EXCEPT !.n = served + 1, !.alone = b] \in Request
    BY <1>a, <1>s, IdleRequest DEF Request
  <2> QED BY <1>t, <2>1 DEF Overview
<1>c. \A r \in Procs : ~Compares(r)
  <2>1. \A r \in Pool : ~Compares(r)
    BY <1>t, PanelAssumption DEF FilesInv, WaitInv
  <2> QED BY <2>1 DEF Overview, Procs
<1>d. \A p \in Pool : todo[p] = <<>>
  BY <1>c DEF FilesInv, WaitInv
<1>1. TypeInv'
  BY <1>a, <1>b, <1>s, <1>r DEF FilesInv, TypeInv
<1>2. PlanInv'
  <2>1. \A r \in Threads : ~At(r, "job")'
    <3>1. ~At(t, "job")'
      BY <1>b, ViewPlan, TailIs DEF At, Planned
    <3>2. \A r \in Threads : r # t => todo'[r] = todo[r]
      BY <1>b, <1>t, PanelAssumption DEF Procs
    <3> QED BY <3>1, <3>2 DEF FilesInv, PlanInv, At
  <2> QED BY <1>b, <1>t, <2>1, ViewPlan, JobPlan DEF FilesInv, PlanInv
<1>3. AimInv'
  <2>1. \A r \in Procs : r = t \/ r \in Pool => ~Configures(r)' /\ ~Saves(todo'[r])
    BY <1>b, ViewPlan, JobPlan DEF Configures, Configuring
  <2>2. \A r \in Procs : r # t /\ r \notin Pool => (Configures(r)' <=> Configures(r)) /\ todo'[r] = todo[r] /\ req'[r] = req[r]
    BY <1>b DEF Configures
  <2> QED BY <2>1, <2>2 DEF FilesInv, AimInv
<1>4. CopyInv'
  <2>1. \A r \in Procs : r = t \/ r \in Pool => ~Using(r)' /\ ~At(r, "error") /\ ~At(r, "error")'
    <3>1. Head(View) = "join" /\ Head(<<"job">>) = "job"
      BY DEF View
    <3> QED BY <1>a, <1>b, <1>d, <3>1 DEF Using, At, Uses, Writes
  <2>2. \A r \in Procs : r # t /\ r \notin Pool =>
           /\ Using(r)' <=> Using(r)
           /\ StoreFor(r)' = StoreFor(r) /\ (At(r, "error")' <=> At(r, "error")) /\ req'[r] = req[r]
    BY <1>b DEF Using, StoreFor, At
  <2> QED BY <1>a, <2>1, <2>2 DEF FilesInv, CopyInv
<1>5. WaitInv'
  <2>1. Compares(t)' /\ At(t, "join")'
    BY <1>b, ViewPlan, TailIs DEF Compares, Comparing, At, Planned
  <2>2. \A r \in Procs : r # t => ~Compares(r)'
    BY <1>b, <1>c, JobPlan DEF Compares, Comparing
  <2> QED BY <1>t, <2>1, <2>2 DEF WaitInv
<1>6. OnlyOldCopiesLoseChanges'
  BY <1>a DEF FilesInv, OnlyOldCopiesLoseChanges
<1> QED BY <1>1, <1>2, <1>3, <1>4, <1>5, <1>6 DEF FilesInv

LEMMA OutsideFiles ==
  ASSUME FilesInv, Outside
  PROVE  FilesInv'
<1>t. req \in [Procs -> Request] /\ MaxRequests \in Nat /\ served \in 0..MaxRequests
  BY PanelAssumption DEF FilesInv, TypeInv
<1>a. /\ todo' = todo /\ served < MaxRequests /\ served' = served + 1
      /\ file' = file /\ lock' = lock /\ ideal' = ideal /\ stale' = stale /\ overlapped' = overlapped
  BY DEF Outside
<1>s. served' \in 0..MaxRequests
  BY <1>a, <1>t
<1>r. /\ req' \in [Procs -> Request]
      /\ \A r \in Procs : /\ req'[r].copy = req[r].copy /\ req'[r].rolls = req[r].rolls /\ req'[r].kind = req[r].kind
                          /\ req'[r].before = req[r].before /\ req'[r].after = req[r].after /\ (Aimed(req'[r]) <=> Aimed(req[r]))
  BY <1>t DEF Outside, Request, Aimed
<1>c. config' \in Config
  <2>1. config \in Config
    BY DEF FilesInv, TypeInv
  <2> QED BY <2>1 DEF Outside, Config
<1>1. TypeInv'
  BY <1>a, <1>s, <1>r, <1>c DEF FilesInv, TypeInv
<1>2. PlanInv'
  BY <1>a DEF FilesInv, PlanInv, At
<1>3. AimInv'
  BY <1>a, <1>r DEF FilesInv, AimInv, Configures
<1>4. CopyInv'
  BY <1>a, <1>r DEF FilesInv, CopyInv, Using, StoreFor, At
<1>5. WaitInv'
  BY <1>a DEF FilesInv, WaitInv, Compares, At
<1>6. OnlyOldCopiesLoseChanges'
  BY <1>a DEF FilesInv, OnlyOldCopiesLoseChanges
<1> QED BY <1>1, <1>2, <1>3, <1>4, <1>5, <1>6 DEF FilesInv

\* Every step belongs to what its thread has to do next.
LEMMA Ats ==
  ASSUME NEW p \in Procs
  PROVE  /\ Read(p) => At(p, "read") /\ lock = "free"
         /\ ErrorRead(p) => At(p, "log") /\ lock = "free"
         /\ ErrorWrite(p) => At(p, "error")
         /\ \A step \in Writes : Write(p, step) => At(p, step) /\ lock = "free"
         /\ Call(p) => At(p, "call")
         /\ Send(p) => At(p, "send")
         /\ Job(p) => At(p, "job")
         /\ Find(p) => At(p, "find")
         /\ Before(p) => At(p, "before")
         /\ Set(p) => At(p, "set")
         /\ Forward(p) => At(p, "forward")
         /\ Clear(p) => At(p, "clear")
         /\ After(p) => At(p, "after")
         /\ Join(p) => At(p, "join")
         /\ Show(p) => At(p, "show")
         /\ \A x, y : At(p, x) /\ At(p, y) => x = y
<1>1. Read(p) => At(p, "read") /\ lock = "free"
  BY DEF Read
<1>2. ErrorRead(p) => At(p, "log") /\ lock = "free"
  BY DEF ErrorRead
<1>3. ErrorWrite(p) => At(p, "error")
  BY DEF ErrorWrite
<1>4. \A step \in Writes : Write(p, step) => At(p, step) /\ lock = "free"
  BY DEF Write
<1>5. (Call(p) => At(p, "call")) /\ (Send(p) => At(p, "send")) /\ (Job(p) => At(p, "job")) /\ (Find(p) => At(p, "find"))
  BY DEF Call, Send, Job, Find
<1>6. (Before(p) => At(p, "before")) /\ (Set(p) => At(p, "set")) /\ (Forward(p) => At(p, "forward")) /\ (Clear(p) => At(p, "clear"))
  BY DEF Before, Set, Forward, Clear
<1>7. (After(p) => At(p, "after")) /\ (Join(p) => At(p, "join")) /\ (Show(p) => At(p, "show"))
  BY DEF After, Join, Show
<1>8. \A x, y : At(p, x) /\ At(p, y) => x = y
  BY DEF At
<1> QED BY <1>1, <1>2, <1>3, <1>4, <1>5, <1>6, <1>7, <1>8

LEMMA Acts ==
  ASSUME NEW p \in Procs, Step(p)
  PROVE  /\ At(p, "find") => Find(p)
         /\ At(p, "before") => Before(p)
         /\ At(p, "set") => Set(p)
         /\ At(p, "forward") => Forward(p)
         /\ At(p, "after") => After(p)
         /\ At(p, "job") => Job(p)
         /\ At(p, "join") => Join(p)
         /\ At(p, "show") => Show(p)
         /\ At(p, "read") => Read(p)
         /\ At(p, "log") => ErrorRead(p)
         /\ At(p, "error") => ErrorWrite(p)
         /\ \A step \in Writes : At(p, step) => Write(p, step)
<1> DEFINE Acting(x, A) == At(p, x) /\ A
<1>1. \/ Acting("read", Read(p)) \/ Acting("log", ErrorRead(p)) \/ Acting("error", ErrorWrite(p)) \/ Acting("call", Call(p))
      \/ Acting("send", Send(p)) \/ Acting("job", Job(p)) \/ Acting("find", Find(p)) \/ Acting("before", Before(p))
      \/ Acting("set", Set(p)) \/ Acting("forward", Forward(p)) \/ Acting("clear", Clear(p)) \/ Acting("after", After(p))
      \/ Acting("join", Join(p)) \/ Acting("show", Show(p)) \/ \E step \in Writes : Acting(step, Write(p, step))
  BY Ats DEF Step, Writes
<1>2. \A x, y : At(p, x) /\ At(p, y) => x = y
  BY Ats
<1>3. CASE \E step \in Writes : Acting(step, Write(p, step))
  BY <1>2, <1>3 DEF Writes
<1>4. CASE ~\E step \in Writes : Acting(step, Write(p, step))
  <2>1. \E x \in {"read", "log", "error", "call", "send", "job", "find", "before", "set", "forward", "clear", "after", "join", "show"} : At(p, x)
    BY <1>1, <1>4
  <2>2. \A step \in Writes : ~At(p, step)
    BY <1>2, <2>1 DEF Writes
  <2> QED BY <1>1, <1>2, <1>4, <2>2
<1> QED BY <1>3, <1>4

\* The steps that touch no file.
Aside(p) == \/ Call(p) \/ Send(p) \/ Job(p) \/ Find(p) \/ Before(p) \/ Set(p) \/ Forward(p) \/ Clear(p) \/ After(p)
            \/ Join(p) \/ Show(p)

LEMMA AsideIs ==
  ASSUME NEW p \in Procs, Aside(p)
  PROVE  /\ UNCHANGED <<file, lock, ideal, stale, overlapped>>
         /\ ~At(p, "read") /\ ~At(p, "log") /\ ~At(p, "error") /\ \A step \in Writes : ~At(p, step)
<1>1. UNCHANGED <<file, lock, ideal, stale, overlapped>>
  BY DEF Aside, Call, Send, Job, Find, Before, Set, Forward, Clear, After, Join, Show, ghosts
<1>2. \E x \in {"call", "send", "job", "find", "before", "set", "forward", "clear", "after", "join", "show"} : At(p, x)
  BY Ats DEF Aside
<1> QED BY <1>1, <1>2, Ats DEF Writes

LEMMA StepAs ==
  ASSUME NEW p \in Procs, Step(p)
  PROVE  Read(p) \/ ErrorRead(p) \/ ErrorWrite(p) \/ (\E step \in Writes : Write(p, step)) \/ Aside(p)
BY DEF Step, Aside, Writes

\* What a handler compares or saves it has read from the state file.
LEMMA Found ==
  ASSUME FilesInv, NEW p \in Procs, At(p, "find") \/ At(p, "show") \/ At(p, "version") \/ At(p, "error")
  PROVE  /\ req[p].copy \in StateFile /\ Short(req[p].copy) /\ req[p].copy \in Copies("state")
         /\ p \notin stale => req[p].copy = ReadState(file["state"])
<1>1. Using(p) /\ StoreFor(p) = "state"
  BY DEF At, Using, StoreFor, StoreOf, Uses, Writes
<1>2. ReadFile("state", file["state"]) = ReadState(file["state"])
  BY DEF ReadFile
<1> QED BY <1>1, <1>2 DEF FilesInv, CopyInv, Copies

\* A version that is found can be set again, unless it is one of the model.
LEMMA FindIs ==
  ASSUME FilesInv, NEW p \in Procs, Find(p)
  PROVE  /\ req' \in [Procs -> Request]
         /\ todo' = [todo EXCEPT ![p] = <<>>] \/ Aimed(req'[p]) \/ req'[p].kind = "model"
<1>1. req \in [Procs -> Request] /\ req[p] \in Request
  BY DEF FilesInv, TypeInv
<1>2. CASE req' = [req EXCEPT ![p].copy = NoCopy] /\ Goes(p, <<>>)
  BY <1>1, <1>2 DEF Request, Goes
<1>3. ASSUME NEW i \in DOMAIN req[p].copy.versions, NEW v, v = req[p].copy.versions[i],
             req' = [req EXCEPT ![p] = [@ EXCEPT !.copy = NoCopy, !.kind = v.kind,
                          !.scope = IF v.kind = "model" THEN "none" ELSE v.scope,
                          !.content = IF v.kind = "model" THEN "none" ELSE v.before[v.scope]]]
      PROVE  req' \in [Procs -> Request] /\ (Aimed(req'[p]) \/ req'[p].kind = "model")
  <2> DEFINE scope == IF v.kind = "model" THEN "none" ELSE v.scope
             content == IF v.kind = "model" THEN "none" ELSE v.before[v.scope]
  <2>1. v \in Versions
    <3>1. req[p].copy.versions \in Seq(Versions)
      BY Found, Ats DEF StateFile
    <3> QED BY <1>3, <3>1
  <2>2. /\ v.kind \in {"persona", "model"} /\ scope \in Scoped /\ content \in Contents \cup {"none"}
        /\ v.kind = "model" \/ scope \in Scopes
    <3>1. CASE v = Legacy
      <4>1. v.kind = "model"
        BY <3>1 DEF Legacy
      <4> QED BY <4>1 DEF Scoped
    <3>2. CASE v \in Saved
      BY <3>2 DEF Saved, Scoped, Config
    <3> QED BY <2>1, <3>1, <3>2 DEF Versions
  <2> HIDE DEF scope, content
  <2>3. req' = [req EXCEPT ![p] = [@ EXCEPT !.copy = NoCopy, !.kind = v.kind, !.scope = scope, !.content = content]]
    BY <1>3 DEF scope, content
  <2>4. content \in Texts
    BY <2>2 DEF Texts
  <2>5. req'[p] \in Request /\ req' \in [Procs -> Request]
    BY <1>1, <2>2, <2>3, <2>4 DEF Request
  <2>6. req'[p].scope = scope /\ req'[p].content = content /\ req'[p].kind = v.kind
    BY <1>1, <2>3 DEF Request
  <2> QED BY <2>2, <2>5, <2>6 DEF Aimed
<1> QED BY <1>2, <1>3 DEF Find

\* A change of the configuration that is about to be made says what to set.
LEMMA SetIs ==
  ASSUME FilesInv, NEW p \in Procs, (Set(p) /\ req[p].kind # "model") \/ Forward(p)
  PROVE  Aimed(req[p])
<1> DEFINE s == todo[p]
<1>1. At(p, "set") \/ At(p, "forward")
  BY Ats
<1>2. s \in Seq(Steps) /\ s # <<>> /\ s[1] \in {"set", "forward"} /\ 1 \in DOMAIN s
  BY <1>1, TailIs DEF At, FilesInv, TypeInv
<1>3. Configures(p)
  BY <1>2 DEF Configures
<1>4. CASE Saves(s)
  <2>1. s[1] = "set" /\ Len(s) = 4
    BY <1>2, <1>4, SavesAt
  <2>2. At(p, "set") /\ ~At(p, "forward")
    BY <1>1, <1>2, <2>1, TailIs DEF At
  <2>3. req[p].kind # "model"
    <3>1. ~Forward(p)
      BY <2>2 DEF Forward
    <3> QED BY <3>1
  <2>4. ~(Len(s) < 6 => req[p].kind = "model")
    BY <2>1, <2>3
  <2> QED BY <1>3, <2>4 DEF FilesInv, AimInv
<1>5. CASE ~Saves(s)
  BY <1>3, <1>5 DEF FilesInv, AimInv
<1> QED BY <1>4, <1>5

LEMMA StepRequest ==
  ASSUME FilesInv, NEW p \in Procs, Step(p)
  PROVE  req' \in [Procs -> Request] /\ config' \in Config
<1>t. /\ req \in [Procs -> Request] /\ config \in Config /\ config \in Snapshots
      /\ \A s \in Stores : file[s] \in Copies(s)
  BY DEF FilesInv, TypeInv, Snapshots
<1>c. \A x \in {NoCopy} \cup Copies("state") \cup AuthFile : [req EXCEPT ![p].copy = x] \in [Procs -> Request]
  BY <1>t DEF Request
<1>1. CASE Read(p) \/ ErrorRead(p)
  <2>1. \A s \in Stores : ReadFile(s, file[s]) \in {NoCopy} \cup Copies("state") \cup AuthFile
    BY <1>t, ReadIs, CopyIs
  <2>2. CASE Read(p)
    <3>1. At(p, "read")
      BY <2>2, Ats
    <3>2. Planned(todo[p]) /\ todo[p] # <<>> /\ todo[p] \in Seq(Steps) /\ 1 \in 1..Len(todo[p]) /\ todo[p][1] = "read"
      BY <3>1, TailIs DEF At, FilesInv, PlanInv, Planned
    <3>3. 1 < Len(todo[p]) /\ todo[p][2] \in Uses
      BY <3>2 DEF Planned
    <3>4. Rest(p)[1] \in Uses
      BY <3>2, <3>3, TailIs DEF Rest
    <3>5. StoreOf(Rest(p)[1]) \in Stores
      BY <3>4, CopyIs
    <3> QED BY <1>c, <1>t, <2>1, <2>2, <3>5 DEF Read
  <2>3. CASE ErrorRead(p)
    <3>1. ReadState(file["state"]) \in {NoCopy} \cup Copies("state") \cup AuthFile
      BY <1>t, ReadIs, CopyIs DEF Stores
    <3> QED BY <1>c, <1>t, <2>3, <3>1 DEF ErrorRead
  <2> QED BY <1>1, <2>2, <2>3
<1>2. CASE ErrorWrite(p) \/ (\E step \in Writes : Write(p, step)) \/ Show(p)
  <2>1. req' = [req EXCEPT ![p].copy = NoCopy] /\ config' = config
    BY <1>2 DEF ErrorWrite, Write, Store, Show
  <2> QED BY <1>c, <1>t, <2>1
<1>3. CASE Call(p) \/ Send(p) \/ Clear(p) \/ Join(p)
  BY <1>t, <1>3 DEF Call, Send, Clear, Join
<1>4. CASE Job(p)
  <2>1. "failed" \in Texts
    BY DEF Texts
  <2> QED BY <1>t, <1>4, <2>1 DEF Job, Request
<1>5. CASE Find(p)
  BY <1>t, <1>5, FindIs DEF Find
<1>6. CASE Before(p) \/ After(p)
  <2>1. config' = config
    BY <1>6 DEF Before, After
  <2>2. req' = req \/ req' = [req EXCEPT ![p].before = config] \/ req' = [req EXCEPT ![p].after = config]
    BY <1>6 DEF Before, After
  <2> QED BY <1>t, <2>1, <2>2 DEF Request
<1>7. CASE Set(p) \/ Forward(p)
  <2>1. CASE Apply(p) /\ ((Set(p) /\ req[p].kind # "model") \/ Forward(p))
    <3>1. Aimed(req[p])
      BY <2>1, SetIs
    <3>2. config' \in Config
      BY <1>t, <2>1, <3>1 DEF Apply, Aimed, Config
    <3> QED BY <1>t, <2>1, <3>2 DEF Apply, Request
  <2>2. CASE UNCHANGED <<req, config>>
    BY <1>t, <2>2
  <2> QED BY <1>7, <2>1, <2>2 DEF Set, Forward
<1> QED BY <1>1, <1>2, <1>3, <1>4, <1>5, <1>6, <1>7 DEF Step, Writes

\* A version that is saved says what was there and what was set.
LEMMA VersionIs ==
  ASSUME FilesInv, NEW p \in Procs, At(p, "version")
  PROVE  /\ VersionOf(req[p]) \in Saved /\ VersionOf(req[p]) \in Versions
         /\ Saves(todo[p]) /\ Len(todo[p]) = 1 /\ Aimed(req[p])
<1> DEFINE s == todo[p]
<1>1. s \in Seq(Steps) /\ s # <<>> /\ s[1] = "version" /\ 1 \in 1..Len(s) /\ 1 \in DOMAIN s /\ Planned(s)
  BY TailIs DEF At, FilesInv, TypeInv, PlanInv
<1>2. Saves(s)
  BY <1>1 DEF Planned
<1>3. Len(s) = 1
  BY <1>1, <1>2, SavesAt
<1>4. Configures(p)
  BY <1>1 DEF Configures
<1>5. req[p].kind = "persona" /\ req[p].before \in Config /\ req[p].after \in Config
  <2>1. Len(s) < 3 /\ Len(s) < 4 /\ Len(s) < 5
    BY <1>3
  <2> QED BY <1>2, <2>1 DEF FilesInv, AimInv
<1>6. Aimed(req[p])
  <2>1. ~(Len(s) < 6 => req[p].kind = "model")
    BY <1>3, <1>5
  <2> QED BY <1>4, <2>1 DEF FilesInv, AimInv
<1>7. req[p].n \in Nat /\ req[p].was \in Snapshots /\ req[p].alone \in BOOLEAN
  BY PanelAssumption DEF FilesInv, TypeInv, Request
<1>8. VersionOf(req[p]) \in Saved
  BY <1>5, <1>6, <1>7 DEF VersionOf, Saved, Aimed
<1> QED BY <1>2, <1>3, <1>6, <1>8 DEF Versions

\* What a write to a file does.
LEMMA StoreIs ==
  ASSUME FilesInv, NEW p \in Procs, NEW step \in Writes \cup {"error"}, At(p, step), Store(p, step)
  PROVE  LET s == StoreOf(step)
         IN /\ s \in Stores /\ file' = [file EXCEPT ![s] = Change(step, req[p], req[p].copy)]
            /\ Using(p) /\ StoreFor(p) = s /\ req[p].copy \in Copies(s)
            /\ file'[s] = Change(step, req[p], req[p].copy) /\ file'[s] \in Copies(s)
            /\ file' \in [Stores -> Copies("state") \cup AuthFile] /\ \A r \in Stores : file'[r] \in Copies(r)
            /\ \A r \in Stores : r # s => file'[r] = file[r]
<1> DEFINE s == StoreOf(step)
<1>1. s \in Stores /\ Using(p) /\ StoreFor(p) = s
  BY CopyIs DEF At, Using, StoreFor, Uses
<1>2. req[p].copy \in Copies(s)
  BY <1>1 DEF FilesInv, CopyInv
<1>3. req[p] \in Request /\ file \in [Stores -> Copies("state") \cup AuthFile] /\ \A r \in Stores : file[r] \in Copies(r)
  BY DEF FilesInv, TypeInv
<1>4. Change(step, req[p], req[p].copy) \in Copies(s)
  <2>1. step = "version" => VersionOf(req[p]) \in Versions
    BY VersionIs
  <2> QED BY <1>2, <1>3, <2>1, ChangeIs
<1>5. file' = [file EXCEPT ![s] = Change(step, req[p], req[p].copy)]
  BY DEF Store
<1>6. Copies(s) \subseteq Copies("state") \cup AuthFile
  BY <1>1, CopyIs
<1> HIDE DEF s
<1>7. file'[s] = Change(step, req[p], req[p].copy) /\ \A r \in Stores : r # s => file'[r] = file[r]
  BY <1>1, <1>3, <1>5
<1>8. file' \in [Stores -> Copies("state") \cup AuthFile]
  BY <1>1, <1>3, <1>4, <1>5, <1>6
<1> QED BY <1>1, <1>2, <1>3, <1>4, <1>5, <1>7, <1>8 DEF s

\* What follows when one thread takes a step.
LEMMA Follows ==
  ASSUME FilesInv, NEW p \in Procs, Step(p)
  PROVE  /\ todo[p] # <<>> /\ todo[p] \in Seq(Steps) /\ Planned(todo[p]) /\ Head(todo[p]) = todo[p][1]
         /\ Len(todo[p]) \in Nat \ {0}
         /\ todo' \in [Procs -> Seq(Steps)] /\ req' \in [Procs -> Request] /\ served' = served
         /\ \A q \in Procs : q # p => todo'[q] = todo[q] /\ req'[q] = req[q]
         /\ Moves(todo[p], todo'[p]) /\ Planned(todo'[p])
         /\ Configures(p)' => Configures(p)
         /\ Compares(p)' => Compares(p)
         /\ Saves(todo'[p]) => /\ todo'[p] = Tail(todo[p]) /\ Saves(todo[p]) /\ Len(todo'[p]) = Len(todo[p]) - 1
                               /\ Len(todo[p]) \in 2..7
         /\ todo'[p] # <<>> /\ todo'[p][1] \in Uses =>
              (todo'[p] = Tail(todo[p]) /\ At(p, "read")) \/ (At(p, "log") /\ todo'[p][1] = "error")
         /\ req'[p].n = req[p].n /\ req'[p].alone = req[p].alone
<1>1. TypeInv /\ PlanInv /\ Planned(todo[p]) /\ todo \in [Procs -> Seq(Steps)] /\ req \in [Procs -> Request]
  BY DEF FilesInv, TypeInv, PlanInv
<1>2. todo[p] # <<>> /\ todo[p] \in Seq(Steps)
  BY <1>1, Stepped
<1>3. PICK r : MovesOn(p, r)
  BY <1>1, Stepped
<1>4. todo' = [todo EXCEPT ![p] = r] /\ r \in Seq(Steps) /\ Moves(todo[p], r) /\ req' = [req EXCEPT ![p] = req'[p]]
      /\ req'[p].n = req[p].n /\ req'[p].alone = req[p].alone /\ served' = served
  BY <1>3 DEF MovesOn
<1>5. /\ todo'[p] = r /\ todo' \in [Procs -> Seq(Steps)]
      /\ \A q \in Procs : q # p => todo'[q] = todo[q] /\ req'[q] = req[q]
  BY <1>1, <1>4
<1>6. /\ Planned(r)
      /\ Configuring(r) => Configuring(todo[p])
      /\ Comparing(r) => Comparing(todo[p])
      /\ Saves(r) => r = Tail(todo[p]) /\ Saves(todo[p]) /\ Len(r) = Len(todo[p]) - 1
      /\ r # <<>> /\ r[1] \in Uses => (r = Tail(todo[p]) /\ todo[p][1] = "read") \/ (todo[p][1] = "log" /\ r[1] = "error")
  BY <1>1, <1>2, <1>4, Moved
<1>7. Saves(r) => Len(todo[p]) \in 2..7
  <2>1. Saves(r) => Len(r) \in 1..7 /\ Len(todo[p]) \in 1..7
    BY <1>6 DEF Saves
  <2>2. \A m \in 1..7, n \in 1..7 : m = n - 1 => n \in 2..7
    OBVIOUS
  <2> QED BY <1>6, <2>1, <2>2
<1>8. Head(todo[p]) = todo[p][1] /\ Len(todo[p]) \in Nat \ {0}
  BY <1>2, TailIs
<1>9. (Configures(p)' => Configures(p)) /\ (Compares(p)' => Compares(p))
  BY <1>5, <1>6 DEF Configures, Configuring, Compares, Comparing
<1>10. r # <<>> /\ r[1] \in Uses => (r = Tail(todo[p]) /\ At(p, "read")) \/ (At(p, "log") /\ r[1] = "error")
  BY <1>2, <1>6, <1>8 DEF At
<1>11. req' \in [Procs -> Request]
  BY StepRequest
<1> QED BY <1>1, <1>2, <1>4, <1>5, <1>6, <1>7, <1>8, <1>9, <1>10, <1>11

LEMMA PoolMoves ==
  ASSUME NEW s \in {<<"job">>, <<"log">>, <<"error">>}, NEW r, Moves(s, r)
  PROVE  r \in {<<>>, <<"log">>, <<"error">>}
<1>1. Tail(s) = <<>>
  BY DEF Steps
<1>2. <<"log">> \o <<>> = <<"log">> /\ <<"error">> \o <<>> = <<"error">>
  <2>1. <<"log">> \in Seq(Steps) /\ <<"error">> \in Seq(Steps)
    BY DEF Steps, Uses
  <2> QED BY <2>1, ConcatEmptySeq
<1>3. s[1] \in {"job", "log", "error"}
  OBVIOUS
<1> QED BY <1>1, <1>2, <1>3 DEF Moves

LEMMA StepPlans ==
  ASSUME FilesInv, NEW p \in Procs, Step(p)
  PROVE  PlanInv'
<1>1. \A q \in Procs : Planned(todo'[q])
  BY Follows DEF FilesInv, PlanInv
<1>2. \A q \in Pool : todo'[q] \in {<<>>, <<"job">>, <<"log">>, <<"error">>}
  <2>1. ASSUME p \in Pool PROVE todo'[p] \in {<<>>, <<"job">>, <<"log">>, <<"error">>}
    <3>1. todo[p] \in {<<"job">>, <<"log">>, <<"error">>}
      BY <2>1, Follows DEF FilesInv, PlanInv
    <3>2. Moves(todo[p], todo'[p])
      BY Follows
    <3> QED BY <3>1, <3>2, PoolMoves
  <2> QED BY <2>1, Follows DEF FilesInv, PlanInv, Procs
<1>3. \A t \in Threads : ~At(t, "job")'
  <2>1. ASSUME p \in Threads, At(p, "job")' PROVE FALSE
    <3> DEFINE s == todo[p]
               r == todo'[p]
    <3>1. s \in Seq(Steps) /\ s # <<>> /\ Planned(s) /\ Planned(r) /\ r # <<>> /\ r \in Seq(Steps) /\ Moves(s, r)
      BY <2>1, Follows DEF At, Planned
    <3>2. r[1] = "job" /\ 1 \in 1..Len(r) /\ Len(r) = 1
      <4>1. r[1] = "job" /\ 1 \in 1..Len(r)
        BY <2>1, <3>1, TailIs DEF At
      <4> QED BY <3>1, <4>1 DEF Planned
    <3>3. CASE r = Tail(s)
      <4>1. Len(s) = 2 /\ s[2] = "job" /\ 2 \in 1..Len(s)
        BY <3>1, <3>2, <3>3, TailIs
      <4> QED BY <3>1, <4>1 DEF Planned
    <3>4. CASE r # Tail(s)
      <4>1. r[1] \in {"log", "error"}
        <5>1. \A x \in {"log", "error"} : (<<x>> \o Tail(s))[1] = x
          BY <3>1, SwapIs DEF Steps, Uses
        <5> QED BY <3>1, <3>4, <5>1 DEF Moves
      <4> QED BY <3>2, <4>1
    <3> QED BY <3>3, <3>4
  <2>2. \A t \in Threads : t # p => ~At(t, "job")'
    BY Follows DEF FilesInv, PlanInv, Procs, At
  <2> QED BY <2>1, <2>2
<1> QED BY <1>1, <1>2, <1>3 DEF PlanInv

LEMMA StepAims ==
  ASSUME FilesInv, NEW p \in Procs, Step(p)
  PROVE  AimInv'
<1> DEFINE s == todo[p]
           r == todo'[p]
           Aiming(q) == /\ Configures(q) => \/ Aimed(req[q])
                                            \/ Saves(todo[q]) /\ req[q].rolls /\ (Len(todo[q]) < 6 => req[q].kind = "model")
                        /\ Saves(todo[q]) => /\ Len(todo[q]) > 5 => req[q].rolls
                                             /\ Len(todo[q]) < 5 => req[q].before \in Config
                                             /\ Len(todo[q]) < 4 => req[q].kind = "persona"
                                             /\ Len(todo[q]) < 3 => req[q].after \in Config
<1>1. \A q \in Procs : Aiming(q)
  BY DEF FilesInv, AimInv
<1>2. \A q \in Procs : q # p => Aiming(q)'
  <2>1. \A q \in Procs : q # p => (Configures(q)' <=> Configures(q)) /\ todo'[q] = todo[q] /\ req'[q] = req[q]
    BY Follows DEF Configures
  <2> QED BY <1>1, <2>1
<1>t. /\ s # <<>> /\ s \in Seq(Steps) /\ Planned(s) /\ Head(s) = s[1] /\ Moves(s, r) /\ r \in Seq(Steps)
      /\ req[p] \in Request /\ req'[p] \in Request /\ config \in Config
      /\ Configures(p)' => Configures(p)
      /\ Saves(r) => r = Tail(s) /\ Saves(s) /\ Len(r) = Len(s) - 1 /\ Len(s) \in 2..7
  BY Follows DEF FilesInv, TypeInv
<1>k. Keeps(p)
  BY Kept DEF FilesInv
<1>h. \A x : At(p, x) <=> s[1] = x
  BY <1>t DEF At
<1>s. Saves(s) => /\ Len(s) \in 1..7
                  /\ s[1] = "find" <=> Len(s) = 6
                  /\ s[1] = "before" <=> Len(s) = 5
                  /\ s[1] = "set" <=> Len(s) = 4
                  /\ s[1] = "after" <=> Len(s) = 3
  BY <1>t, SavesAt
<1>f. s[1] = "find" => Saves(s) /\ Len(s) = 6 /\ req[p].rolls
  <2>1. s[1] = "find" => Saves(s)
    <3>1. 1 \in 1..Len(s)
      BY <1>t, TailIs
    <3> QED BY <3>1, <1>t DEF Planned
  <2>2. s[1] = "find" => Len(s) = 6
    BY <2>1, <1>s
  <2>3. Len(s) = 6 => Len(s) > 5
    OBVIOUS
  <2> QED BY <1>1, <2>1, <2>2, <2>3
<1> HIDE DEF s, r
\* It says what to set.
<1>3. ASSUME Configures(p)'
      PROVE  Aimed(req'[p]) \/ (Saves(r) /\ req'[p].rolls /\ (Len(r) < 6 => req'[p].kind = "model"))
  <2>1. ~At(p, "job")
    <3>1. ASSUME s[1] = "job" PROVE FALSE
      <4>1. Len(s) = 1 /\ DOMAIN s = 1..1
        <5>1. 1 \in 1..Len(s)
          BY <1>t, TailIs
        <5>2. Len(s) = 1
          BY <5>1, <3>1, <1>t DEF Planned
        <5> QED BY <1>t, <5>2
      <4>2. ~Configures(p)
        BY <4>1, <3>1 DEF Configures, s
      <4> QED BY <1>3, <1>t, <4>2
    <3> QED BY <3>1, <1>h
  <2>2. CASE At(p, "find")
    <3>1. r # <<>>
      BY <1>3 DEF Configures, r
    <3>2. Find(p)
      BY <2>2, Acts
    <3>3. Aimed(req'[p]) \/ req'[p].kind = "model"
      <4>1. todo' # [todo EXCEPT ![p] = <<>>]
        BY <3>1 DEF r, FilesInv, TypeInv
      <4> QED BY <3>2, <4>1, FindIs
    <3>4. r = Tail(s)
      BY <3>1, <3>2 DEF Find, Goes, Rest, r, s, FilesInv, TypeInv
    <3>5. Saves(r) /\ req'[p].rolls
      <4>1. Saves(s) /\ Len(s) = 6 /\ Len(s) # 1 /\ req[p].rolls
        BY <1>f, <1>h, <2>2
      <4> QED BY <1>k, <1>t, <3>4, <4>1, SavesTail DEF Keeps
    <3> QED BY <3>3, <3>5
  <2>3. CASE ~At(p, "find")
    <3>1. (Aimed(req'[p]) <=> Aimed(req[p])) /\ req'[p].rolls = req[p].rolls /\ req'[p].kind = req[p].kind
      BY <1>k, <2>1, <2>3 DEF Keeps, Aimed
    <3>2. CASE Aimed(req[p])
      BY <3>1, <3>2
    <3>3. CASE Saves(s) /\ req[p].rolls /\ (Len(s) < 6 => req[p].kind = "model")
      <4>1. Len(s) # 6
        BY <1>s, <1>h, <2>3, <3>3
      <4>2. r # <<>> /\ r # <<"log">> /\ r # <<"log", "log">> /\ s[1] \notin {"call", "job", "forward", "log"}
        <5>1. ~Configures(p)' => r # <<>>
          BY <1>3
        <5>2. r = <<>> \/ r = <<"log">> \/ r = <<"log", "log">> => ~Configures(p)'
          BY DEF Configures, r
        <5> QED BY <1>3, <1>t, <3>3, <5>2, SavesAt, SavesConfigures
      <4>3. ASSUME r # Tail(s) PROVE FALSE
        <5>1. s[1] = "before" /\ r = <<"log", "set">>
          BY <1>t, <4>2, <4>3 DEF Moves
        <5>2. Before(p)
          BY <1>h, <5>1, Acts
        <5>3. r = Tail(s) \/ r = <<"log">> \o <<>>
          BY <3>3, <5>2 DEF Before, Goes, Fails, Rest, r, s, FilesInv, TypeInv
        <5> QED BY <4>2, <4>3, <5>3, LogAnd
      <4>4. r = Tail(s)
        BY <4>3
      <4>5. Len(s) # 1
        BY <1>t, <4>2, <4>4, TailIs
      <4>6. Saves(r) /\ Len(r) = Len(s) - 1
        BY <1>t, <3>3, <4>4, <4>5, SavesTail
      <4>7. Len(r) < 6 => Len(s) < 6
        BY <1>s, <3>3, <4>1, <4>6
      <4> QED BY <3>1, <3>3, <4>6, <4>7
    <3> QED BY <1>1, <1>3, <1>t, <3>2, <3>3 DEF s
  <2> QED BY <2>2, <2>3
\* It has the snapshots.
<1>4. ASSUME Saves(r)
      PROVE  /\ Len(r) > 5 => req'[p].rolls
             /\ Len(r) < 5 => req'[p].before \in Config
             /\ Len(r) < 4 => req'[p].kind = "persona"
             /\ Len(r) < 3 => req'[p].after \in Config
  <2>1. r = Tail(s) /\ Saves(s) /\ Len(r) = Len(s) - 1 /\ Len(s) \in 2..7 /\ r # <<>> /\ r[1] # "log"
    BY <1>4, <1>t, SavesConfigures
  <2>2. \A q \in Seq(Steps) : (<<"log">> \o q)[1] = "log"
    <3>1. <<"log">> \in Seq(Steps) /\ Len(<<"log">>) = 1 /\ <<"log">>[1] = "log"
      BY DEF Steps
    <3> QED BY <3>1
  <2>3. Len(r) > 5 => req'[p].rolls
    <3>1. Len(r) > 5 => Len(s) > 5
      BY <2>1
    <3> QED BY <1>1, <1>k, <2>1, <3>1 DEF Keeps, s
  <2>4. Len(r) < 5 => req'[p].before \in Config
    <3>1. CASE Len(s) = 5
      <4>1. At(p, "before") /\ Before(p)
        BY <1>s, <1>h, <2>1, <3>1, Acts
      <4>2. ~Fails(p, IF req[p].rolls THEN <<>> ELSE <<"set">>)
        BY <2>1, LogAnd DEF Fails, Goes, r, FilesInv, TypeInv
      <4>3. req' = [req EXCEPT ![p].before = config]
        BY <4>1, <4>2 DEF Before
      <4> QED BY <1>t, <4>3 DEF Request, FilesInv, TypeInv
    <3>2. CASE Len(s) # 5
      <4>1. Len(r) < 5 => Len(s) < 5
        <5>1. \A n \in 2..7 : n # 5 /\ n - 1 < 5 => n < 5
          OBVIOUS
        <5> QED BY <2>1, <3>2, <5>1
      <4>2. ~At(p, "before")
        BY <1>s, <1>h, <2>1, <3>2
      <4> QED BY <1>1, <1>k, <2>1, <4>1, <4>2 DEF Keeps, s
    <3> QED BY <3>1, <3>2
  <2>5. Len(r) < 4 => req'[p].kind = "persona"
    <3>1. CASE Len(s) = 4
      <4>1. At(p, "set") /\ Set(p) /\ ~At(p, "find")
        BY <1>s, <1>h, <2>1, <3>1, Acts
      <4>2. ~Goes(p, <<>>)
        BY <2>1 DEF Goes, r, FilesInv, TypeInv
      <4>3. req[p].kind # "model"
        BY <4>1, <4>2 DEF Set
      <4> QED BY <1>k, <1>t, <4>1, <4>3 DEF Keeps, Request
    <3>2. CASE Len(s) # 4
      <4>1. Len(r) < 4 => Len(s) < 4 /\ Len(s) # 6
        <5>1. \A n \in 2..7 : n # 4 /\ n - 1 < 4 => n < 4 /\ n # 6
          OBVIOUS
        <5> QED BY <2>1, <3>2, <5>1
      <4>2. Len(s) # 6 => ~At(p, "find")
        BY <1>s, <1>h, <2>1
      <4> QED BY <1>1, <1>k, <2>1, <4>1, <4>2 DEF Keeps, s
    <3> QED BY <3>1, <3>2
  <2>6. Len(r) < 3 => req'[p].after \in Config
    <3>1. CASE Len(s) = 3
      <4>1. At(p, "after") /\ After(p)
        BY <1>s, <1>h, <2>1, <3>1, Acts
      <4>2. ~Fails(p, IF req[p].rolls THEN <<"log">> ELSE <<>>)
        <5>1. <<"log", "log">>[1] = "log" /\ <<"log">>[1] = "log"
          OBVIOUS
        <5> QED BY <2>1, <5>1, LogAnd DEF Fails, Goes, r, FilesInv, TypeInv
      <4>3. req' = [req EXCEPT ![p].after = config]
        BY <4>1, <4>2 DEF After
      <4> QED BY <1>t, <4>3 DEF Request, FilesInv, TypeInv
    <3>2. CASE Len(s) # 3
      <4>1. Len(r) < 3 => Len(s) < 3
        <5>1. \A n \in 2..7 : n # 3 /\ n - 1 < 3 => n < 3
          OBVIOUS
        <5> QED BY <2>1, <3>2, <5>1
      <4>2. ~At(p, "after") /\ ~At(p, "job")
        BY <1>s, <1>h, <1>t, <2>1, <3>2, SavesConfigures
      <4> QED BY <1>1, <1>k, <2>1, <4>1, <4>2 DEF Keeps, s
    <3> QED BY <3>1, <3>2
  <2> QED BY <2>3, <2>4, <2>5, <2>6
<1>5. Aiming(p)'
  BY <1>3, <1>4 DEF r
<1> QED BY <1>2, <1>5 DEF AimInv

LEMMA StepTypes ==
  ASSUME FilesInv, NEW p \in Procs, Step(p)
  PROVE  TypeInv'
<1>1. /\ todo' \in [Procs -> Seq(Steps)] /\ req' \in [Procs -> Request] /\ config' \in Config /\ served' = served
  BY Follows, StepRequest
<1>t. /\ file \in [Stores -> Copies("state") \cup AuthFile] /\ \A s \in Stores : file[s] \in Copies(s)
      /\ ideal = [s \in Stores |-> ideal[s]]
      /\ lock \in Procs \cup {"free"} /\ served \in 0..MaxRequests
      /\ stale \subseteq Procs /\ overlapped \subseteq Stores
  BY DEF FilesInv, TypeInv
<1>2. CASE Read(p) \/ ErrorRead(p)
  <2>1. /\ UNCHANGED <<file, ideal, overlapped>> /\ stale' \subseteq Procs /\ lock' \in Procs \cup {"free"}
    BY <1>t, <1>2 DEF Read, ErrorRead
  <2> QED BY <1>1, <1>t, <2>1 DEF TypeInv
<1>3. ASSUME NEW step \in Writes \cup {"error"}, At(p, step), Store(p, step), lock' \in Procs \cup {"free"} PROVE TypeInv'
  <2>1. StoreOf(step) \in Stores
    BY CopyIs DEF Uses
  <2>2. /\ ideal' = [s \in Stores |-> ideal'[s]] /\ stale' \subseteq Procs /\ overlapped' \subseteq Stores
    BY <1>t, <1>3, <2>1 DEF Store
  <2>3. file' \in [Stores -> Copies("state") \cup AuthFile] /\ \A r \in Stores : file'[r] \in Copies(r)
    BY <1>3, StoreIs
  <2> QED BY <1>1, <1>3, <1>t, <2>2, <2>3 DEF TypeInv
<1>4. CASE ErrorWrite(p)
  <2>1. At(p, "error") /\ Store(p, "error") /\ lock' \in Procs \cup {"free"}
    BY <1>4 DEF ErrorWrite
  <2> QED BY <1>3, <2>1
<1>5. ASSUME NEW step \in Writes, Write(p, step) PROVE TypeInv'
  <2>1. At(p, step) /\ lock' = lock
    BY <1>5 DEF Write
  <2>2. CASE Store(p, step)
    BY <1>3, <1>t, <2>1, <2>2
  <2>3. CASE UNCHANGED <<file, ideal, stale, overlapped>>
    BY <1>1, <1>t, <2>1, <2>3 DEF TypeInv
  <2> QED BY <1>5, <2>2, <2>3 DEF Write
<1>6. CASE Aside(p)
  BY <1>1, <1>6, <1>t, AsideIs DEF TypeInv
<1> QED BY <1>2, <1>4, <1>5, <1>6, StepAs

\* A thread that reads has then what the file holds, for what it will do with it.
LEMMA ReadingIs ==
  ASSUME FilesInv, NEW p \in Procs, Read(p)
  PROVE  /\ Using(p)' /\ todo'[p] = Tail(todo[p]) /\ todo'[p][1] # "error"
         /\ req' = [req EXCEPT ![p].copy = ReadFile(StoreFor(p)', file[StoreFor(p)'])]
         /\ req'[p].copy = ReadFile(StoreFor(p)', file[StoreFor(p)'])
         /\ StoreFor(p)' \in Stores
<1> DEFINE s == todo[p]
           r == Tail(s)
<1>1. At(p, "read") /\ Step(p)
  BY Ats DEF Step
<1>2. s \in Seq(Steps) /\ s # <<>> /\ Planned(s) /\ s[1] = "read" /\ 1 \in 1..Len(s)
  BY <1>1, TailIs, Follows DEF At
<1>3. 1 < Len(s) /\ s[2] \in Uses \ {"error"}
  BY <1>2 DEF Planned
<1>4. r # <<>> /\ r[1] \in Uses \ {"error"} /\ Head(r) = r[1]
  <2>1. r \in Seq(Steps) /\ Len(r) = Len(s) - 1 /\ r[1] = s[2]
    BY <1>2, <1>3, TailIs
  <2>2. Len(r) # 0
    BY <1>2, <1>3, <2>1
  <2>3. r # <<>>
    <3>1. \A q : Len(q) # 0 => q # <<>>
      OBVIOUS
    <3> QED BY <2>2, <3>1
  <2> QED BY <1>3, <2>1, <2>3, TailIs
<1>5. todo'[p] = r
  BY DEF Read, Goes, Rest, FilesInv, TypeInv
<1>6. Using(p)' /\ StoreFor(p)' = StoreOf(r[1]) /\ StoreOf(r[1]) \in Stores
  BY <1>4, <1>5, CopyIs DEF Using, StoreFor
<1>7. req' = [req EXCEPT ![p].copy = ReadFile(StoreOf(r[1]), file[StoreOf(r[1])])]
  BY DEF Read, Rest
<1>8. req'[p].copy = ReadFile(StoreOf(r[1]), file[StoreOf(r[1])])
  BY <1>7 DEF FilesInv, TypeInv, Request
<1> QED BY <1>4, <1>5, <1>6, <1>7, <1>8

LEMMA StepCopies ==
  ASSUME FilesInv, NEW p \in Procs, Step(p)
  PROVE  CopyInv'
<1> DEFINE Copied(q) == Using(q) => /\ req[q].copy \in Copies(StoreFor(q))
                                    /\ q \notin stale => req[q].copy = ReadFile(StoreFor(q), file[StoreFor(q)])
<1>1. /\ \A q \in Procs : Copied(q) /\ (At(q, "error") <=> lock = q) /\ (At(q, "error") => q \notin stale)
      /\ "free" \notin Procs /\ (\A s \in Stores : file[s] \in Copies(s)) /\ lock \in Procs \cup {"free"}
      /\ \A q \in Procs : Using(q) => StoreFor(q) \in Stores
  <2>1. "free" \notin Procs
    BY PanelAssumption DEF Procs
  <2>2. \A q \in Procs : Using(q) => StoreFor(q) \in Stores
    BY CopyIs DEF Using, StoreFor
  <2>3. \A q \in Procs : Copied(q)
    BY DEF FilesInv, CopyInv
  <2>4. \A q \in Procs : (At(q, "error") <=> lock = q) /\ (At(q, "error") => q \notin stale)
    BY DEF FilesInv, CopyInv
  <2>5. (\A s \in Stores : file[s] \in Copies(s)) /\ lock \in Procs \cup {"free"}
    BY DEF FilesInv, TypeInv
  <2> QED BY <2>1, <2>2, <2>3, <2>4, <2>5
<1>2. \A q \in Procs : q # p => /\ (Using(q)' <=> Using(q)) /\ StoreFor(q)' = StoreFor(q) /\ (At(q, "error")' <=> At(q, "error"))
                               /\ req'[q] = req[q]
  BY Follows DEF Using, StoreFor, At
<1>3. Using(p)' => At(p, "read") \/ (At(p, "log") /\ At(p, "error")')
  <2>1. todo'[p] # <<>> => Head(todo'[p]) = todo'[p][1]
    BY TailIs, Follows
  <2> QED BY <2>1, Follows DEF Using, At
<1>4. At(p, "error")' => Using(p)'
  BY DEF At, Using, Uses
<1>5. CASE Read(p)
  <2>1. /\ UNCHANGED <<file, lock>> /\ stale' = stale \ {p} /\ At(p, "read") /\ ~At(p, "error")
    BY <1>5, Ats DEF Read
  <2>2. Copied(p)'
    BY <1>1, <1>5, <2>1, ReadingIs, ReadIs
  <2>3. ~At(p, "error")'
    <3>1. todo'[p] \in Seq(Steps)
      BY Follows
    <3> QED BY <1>5, <3>1, ReadingIs, TailIs DEF At
  <2>4. \A q \in Procs : Copied(q)'
    BY <1>1, <1>2, <2>1, <2>2
  <2> HIDE DEF Copied
  <2>5. \A q \in Procs : (At(q, "error")' <=> lock' = q) /\ (At(q, "error")' => q \notin stale')
    BY <1>1, <1>2, <2>1, <2>3
  <2> QED BY <2>4, <2>5 DEF CopyInv, Copied
<1>6. CASE ErrorRead(p)
  <2>1. /\ file' = file /\ lock = "free" /\ lock' = p /\ stale' = stale \ {p} /\ At(p, "log")
        /\ req' = [req EXCEPT ![p].copy = ReadState(file["state"])]
    BY <1>6 DEF ErrorRead
  <2>2. At(p, "error")'
    <3>1. todo'[p] = <<"error">> \o Tail(todo[p])
      BY <1>6 DEF ErrorRead, Goes, Rest, FilesInv, TypeInv
    <3>2. todo[p] \in Seq(Steps) /\ todo[p] # <<>> /\ "error" \in Steps
      BY Follows DEF Steps, Uses
    <3>3. todo'[p] \in Seq(Steps) /\ Len(todo'[p]) = Len(todo[p]) /\ todo'[p][1] = "error" /\ Len(todo[p]) \in Nat \ {0}
      BY <3>1, <3>2, SwapIs, TailIs
    <3>4. todo'[p] # <<>>
      BY <3>3
    <3> QED BY <3>3, <3>4, TailIs DEF At
  <2>3. StoreFor(p)' = "state"
    BY <2>2 DEF At, StoreFor, StoreOf
  <2>4. req'[p].copy = ReadState(file["state"])
    BY <2>1 DEF FilesInv, TypeInv, Request
  <2>5. Copied(p)'
    <3>1. ReadFile("state", file["state"]) = ReadState(file["state"]) /\ "state" \in Stores
      BY DEF ReadFile, Stores
    <3>2. ReadState(file["state"]) \in Copies("state")
      BY <1>1, <3>1, ReadIs
    <3> QED BY <2>1, <2>3, <2>4, <3>1, <3>2
  <2>6. \A q \in Procs : Copied(q)'
    BY <1>1, <1>2, <2>1, <2>5
  <2> HIDE DEF Copied
  <2>7. \A q \in Procs : (At(q, "error")' <=> lock' = q) /\ (At(q, "error")' => q \notin stale')
    BY <1>1, <1>2, <2>1, <2>2
  <2> QED BY <2>6, <2>7 DEF CopyInv, Copied
<1>7. ASSUME NEW step \in Writes \cup {"error"}, At(p, step), Store(p, step) PROVE \A q \in Procs : Copied(q)'
  <2> DEFINE s == StoreOf(step)
  <2>1. \A r \in Stores : r # s => file'[r] = file[r]
    BY <1>7, StoreIs
  <2>2. stale' = (stale \cup {r \in Procs : Holds(r, s)}) \ {p}
    BY <1>7 DEF Store
  <2>3. ~Using(p)'
    <3>1. ~At(p, "read") /\ ~At(p, "log")
      BY <1>7, Ats DEF Writes
    <3> QED BY <1>3, <3>1
  <2>4. ASSUME NEW q \in Procs, q # p, Using(q), StoreFor(q) = s PROVE q \in stale'
    <3>1. req[q].copy \in Copies(s) /\ s \in Stores
      BY <1>1, <2>4
    <3>2. req[q].copy # NoCopy
      BY <3>1, CopyIs
    <3>3. Holds(q, s)
      BY <2>4, <3>2 DEF Holds, Using, StoreFor
    <3> QED BY <2>2, <2>4, <3>3
  <2>5. ASSUME NEW q \in Procs, q # p, Using(q) PROVE Copied(q)'
    <3>1. CASE StoreFor(q) = s
      BY <1>1, <1>2, <2>4, <2>5, <3>1
    <3>2. CASE StoreFor(q) # s
      <4>1. file'[StoreFor(q)] = file[StoreFor(q)]
        BY <1>1, <2>1, <2>5, <3>2
      <4>2. q \notin stale' => q \notin stale
        BY <2>2, <2>5
      <4> QED BY <1>1, <1>2, <2>5, <4>1, <4>2
    <3> QED BY <3>1, <3>2
  <2> HIDE DEF s
  <2>6. \A q \in Procs : Using(q)' => q # p /\ Using(q)
    BY <1>2, <2>3
  <2> QED BY <2>5, <2>6
<1>8. CASE ErrorWrite(p)
  <2>1. At(p, "error") /\ Store(p, "error") /\ lock' = "free"
    BY <1>8 DEF ErrorWrite
  <2>2. \A q \in Procs : Copied(q)'
    BY <1>7, <2>1
  <2>3. ~At(p, "error")'
    <3>1. ~At(p, "read") /\ ~At(p, "log")
      BY <2>1, Ats
    <3> QED BY <1>3, <1>4, <3>1
  <2> HIDE DEF Copied
  <2>4. \A q \in Procs : ~At(q, "error")'
    BY <1>1, <1>2, <2>1, <2>3
  <2> QED BY <1>1, <2>1, <2>2, <2>4 DEF CopyInv, Copied
<1>9. ASSUME NEW step \in Writes, Write(p, step) PROVE CopyInv'
  <2>1. At(p, step) /\ lock = "free" /\ lock' = lock
    BY <1>9 DEF Write
  <2>2. ~Using(p)' /\ ~At(p, "error")' /\ ~At(p, "error")
    <3>1. ~At(p, "read") /\ ~At(p, "log") /\ ~At(p, "error")
      BY <2>1, Ats DEF Writes
    <3> QED BY <1>3, <1>4, <3>1
  <2>3. \A q \in Procs : Copied(q)'
    <3>1. CASE Store(p, step)
      BY <1>7, <2>1, <3>1
    <3>2. CASE UNCHANGED <<file, ideal, stale, overlapped>>
      BY <1>1, <1>2, <2>2, <3>2
    <3> QED BY <1>9, <3>1, <3>2 DEF Write
  <2> HIDE DEF Copied
  <2>4. \A q \in Procs : ~At(q, "error") /\ ~At(q, "error")'
    BY <1>1, <1>2, <2>1, <2>2
  <2> QED BY <1>1, <2>1, <2>3, <2>4 DEF CopyInv, Copied
<1>10. CASE Aside(p)
  <2>1. UNCHANGED <<file, lock, stale>> /\ ~At(p, "read") /\ ~At(p, "log") /\ ~At(p, "error")
    BY <1>10, AsideIs
  <2>2. ~Using(p)' /\ ~At(p, "error")'
    BY <1>3, <1>4, <2>1
  <2>3. \A q \in Procs : Copied(q)'
    BY <1>1, <1>2, <2>1, <2>2
  <2> HIDE DEF Copied
  <2>4. \A q \in Procs : (At(q, "error")' <=> lock' = q) /\ (At(q, "error")' => q \notin stale')
    BY <1>1, <1>2, <2>1, <2>2
  <2> QED BY <2>3, <2>4 DEF CopyInv, Copied
<1> QED BY <1>5, <1>6, <1>8, <1>9, <1>10, StepAs

LEMMA StepWaits ==
  ASSUME FilesInv, NEW p \in Procs, Step(p)
  PROVE  WaitInv'
<1>1. \A q \in Procs : Compares(q)' => Compares(q)
  BY Follows DEF Compares
<1>2. \A q \in Procs : q # p => (At(q, "join")' <=> At(q, "join")) /\ todo'[q] = todo[q] /\ (Compares(q)' <=> Compares(q))
  BY Follows DEF At, Compares
<1>3. todo[p] # <<>>
  BY Follows
<1>4. Threads \cap Pool = {} /\ Pool \subseteq Procs
  BY PanelAssumption DEF Procs
<1>5. At(p, "join") => \A q \in Pool : todo[q] = <<>>
  BY Acts DEF Join
<1>6. ASSUME NEW t \in Procs, Compares(t)', ~At(t, "join")' PROVE \A q \in Pool : todo'[q] = <<>>
  <2>1. Compares(t) /\ t \in Threads /\ t \notin Pool
    BY <1>1, <1>4, <1>6 DEF FilesInv, WaitInv
  <2>2. \A q \in Pool : todo[q] = <<>>
    <3>1. CASE t = p
      BY <1>5, <2>1, <3>1 DEF FilesInv, WaitInv
    <3>2. CASE t # p
      BY <1>2, <1>6, <2>1, <3>2 DEF FilesInv, WaitInv
    <3> QED BY <3>1, <3>2
  <2> QED BY <1>2, <1>3, <1>4, <2>2
<1>7. ASSUME \A t \in Procs : ~Compares(t)' PROVE \A q \in Pool : todo'[q] = <<>>
  <2>1. \A q \in Pool : todo[q] = <<>>
    <3>1. CASE \A t \in Procs : ~Compares(t)
      BY <3>1 DEF FilesInv, WaitInv
    <3>2. ASSUME NEW t \in Procs, Compares(t) PROVE \A q \in Pool : todo[q] = <<>>
      <4>1. t = p
        BY <1>2, <1>7, <3>2
      <4> QED BY <1>5, <3>2, <4>1 DEF FilesInv, WaitInv
    <3> QED BY <3>1, <3>2
  <2> QED BY <1>2, <1>3, <1>4, <2>1
<1>8. \A t \in Procs : Compares(t)' => t \in Threads /\ \A r \in Procs : Compares(r)' => r = t
  BY <1>1 DEF FilesInv, WaitInv
<1> QED BY <1>6, <1>7, <1>8 DEF WaitInv

LEMMA StepLoses ==
  ASSUME FilesInv, NEW p \in Procs, Step(p)
  PROVE  OnlyOldCopiesLoseChanges'
<1>1. ideal = [s \in Stores |-> ideal[s]] /\ file \in [Stores -> Copies("state") \cup AuthFile] /\ OnlyOldCopiesLoseChanges
  BY DEF FilesInv, TypeInv
<1>2. ASSUME NEW step \in Writes \cup {"error"}, At(p, step), Store(p, step) PROVE OnlyOldCopiesLoseChanges'
  <2> DEFINE s == StoreOf(step)
  <2>1. /\ s \in Stores /\ file'[s] = Change(step, req[p], req[p].copy)
        /\ \A r \in Stores : r # s => file'[r] = file[r]
        /\ Using(p) /\ StoreFor(p) = s
    BY <1>2, StoreIs
  <2>2. /\ ideal' = [ideal EXCEPT ![s] = Change(step, req[p], ReadFile(s, ideal[s]))]
        /\ overlapped' = IF p \in stale /\ step # "error" THEN overlapped \cup {s} ELSE overlapped
    BY <1>2 DEF Store
  <2>3. step = "error" => p \notin stale
    BY <1>2 DEF FilesInv, CopyInv
  <2> HIDE DEF s
  <2>4. ASSUME NEW r \in Stores, r \notin overlapped' PROVE file'[r] = ideal'[r]
    <3>1. r \notin overlapped /\ file[r] = ideal[r]
      BY <1>1, <2>2, <2>4 DEF OnlyOldCopiesLoseChanges, Stores
    <3>2. CASE r = s
      <4>1. p \notin stale
        BY <2>2, <2>3, <2>4, <3>2
      <4>2. req[p].copy = ReadFile(s, file[s])
        BY <2>1, <4>1 DEF FilesInv, CopyInv
      <4>3. ideal'[s] = Change(step, req[p], ReadFile(s, ideal[s]))
        BY <1>1, <2>1, <2>2
      <4> QED BY <2>1, <3>1, <3>2, <4>2, <4>3
    <3>3. CASE r # s
      <4>1. ideal'[r] = ideal[r]
        BY <1>1, <2>2, <3>3
      <4> QED BY <2>1, <3>1, <3>3, <4>1
    <3> QED BY <3>2, <3>3
  <2> QED BY <2>4 DEF OnlyOldCopiesLoseChanges, Stores
<1>3. CASE UNCHANGED <<file, ideal, overlapped>>
  BY <1>1, <1>3 DEF OnlyOldCopiesLoseChanges
<1>4. CASE Read(p) \/ ErrorRead(p)
  BY <1>3, <1>4 DEF Read, ErrorRead
<1>5. CASE ErrorWrite(p)
  BY <1>2, <1>5 DEF ErrorWrite
<1>6. ASSUME NEW step \in Writes, Write(p, step) PROVE OnlyOldCopiesLoseChanges'
  BY <1>2, <1>3, <1>6 DEF Write
<1>7. CASE Aside(p)
  BY <1>3, <1>7, AsideIs
<1> QED BY <1>4, <1>5, <1>6, <1>7, StepAs

LEMMA NextFiles == FilesInv /\ [Next]_vars => FilesInv'
<1> SUFFICES ASSUME FilesInv, [Next]_vars PROVE FilesInv'
  OBVIOUS
<1>1. ASSUME NEW t \in Threads, Arrives(t) PROVE FilesInv'
  <2>1. CASE Plain(t)
    <3>1. PICK q \in Request, plan \in Seq(Steps) :
            /\ Begin(t, q, plan) /\ Planned(plan) /\ plan # <<>>
            /\ ~Configuring(plan) /\ ~Comparing(plan) /\ plan[1] \in {"read", "call", "send", "clear"}
      BY <2>1 DEF Plain
    <3>2. Arrived(t, q, plan)
      BY <3>1, BeginsAs DEF FilesInv
    <3> QED BY <3>1, <3>2, ArriveFiles
  <2>2. CASE Reconfigures(t)
    <3>1. PICK q \in Request, plan \in Seq(Steps) :
            /\ BeginConfig(t, q, plan) /\ Planned(plan) /\ plan # <<>>
            /\ Configuring(plan) /\ ~Comparing(plan) /\ plan[1] \in {"read", "before", "forward"}
            /\ \/ Aimed(q) /\ (Saves(plan) => Len(plan) = 5)
               \/ q.rolls /\ Saves(plan) /\ Len(plan) = 7
      BY <2>2 DEF Reconfigures
    <3>2. Arrived(t, q, plan)
      BY <3>1, BeginsAs DEF FilesInv
    <3> QED BY <3>1, <3>2, ArriveFiles
  <2> QED BY <1>1, <2>1, <2>2, ArrivesAs, OverviewFiles
<1>2. ASSUME NEW p \in Procs, Step(p) PROVE FilesInv'
  BY <1>2, StepTypes, StepPlans, StepAims, StepCopies, StepWaits, StepLoses DEF FilesInv
<1>3. CASE UNCHANGED vars
  BY <1>3 DEF vars, ghosts, FilesInv, TypeInv, PlanInv, AimInv, CopyInv, WaitInv, OnlyOldCopiesLoseChanges,
              Configures, Compares, Using, StoreFor, At
<1> QED BY <1>1, <1>2, <1>3, OutsideFiles DEF Next

\* The files lose a change only to a handler that wrote back a copy another one had
\* outdated, whatever the threads, the limits and the requests.
THEOREM Files == Spec => []OnlyOldCopiesLoseChanges
<1>1. FilesInv => OnlyOldCopiesLoseChanges
  BY DEF FilesInv
<1> QED BY <1>1, InitFiles, NextFiles, PTL DEF Spec

(***************************************************************************)
(* The versions, step by step.                                             *)
(***************************************************************************)

VersionInv == AloneInv /\ StageInv /\ TellInv /\ SyncInv /\ ViewInv /\ DriftHasACause

\* Who is alone after a request began.
Lonely(t, plan) ==
  /\ \A r \in Procs : r # t /\ req'[r].alone => req[r].alone
  /\ Configuring(plan) =>
       /\ \A r \in Procs : r # t /\ (Configures(r) \/ Compares(r)) => ~req'[r].alone
       /\ req'[t].alone => \A r \in Threads : ~Configures(r)

LEMMA ArrivesIs ==
  ASSUME FilesInv, NEW t \in Threads, Plain(t) \/ Reconfigures(t)
  PROVE  \E q \in Request, plan \in Seq(Steps) :
           /\ Arrived(t, q, plan) /\ Planned(plan) /\ plan # <<>> /\ ~Comparing(plan)
           /\ plan[1] \in {"read", "call", "send", "clear", "before", "forward"}
           /\ Configuring(plan) => \/ Aimed(q) /\ (Saves(plan) => Len(plan) = 5)
                                   \/ q.rolls /\ Saves(plan) /\ Len(plan) = 7
           /\ Lonely(t, plan)
<1>0. req \in [Procs -> Request] /\ t \in Procs
  BY DEF FilesInv, TypeInv, Procs
<1>1. CASE Plain(t)
  <2>1. PICK q \in Request, plan \in Seq(Steps) :
          /\ Begin(t, q, plan) /\ Planned(plan) /\ plan # <<>>
          /\ ~Configuring(plan) /\ ~Comparing(plan) /\ plan[1] \in {"read", "call", "send", "clear"}
    BY <1>1 DEF Plain
  <2>2. Arrived(t, q, plan)
    BY <2>1, BeginsAs DEF FilesInv
  <2>3. Lonely(t, plan)
    <3>1. \A r \in Procs : r # t => req'[r] = req[r]
      BY <1>0, <2>1 DEF Begin
    <3> QED BY <2>1, <3>1 DEF Lonely
  <2> QED BY <2>1, <2>2, <2>3
<1>2. CASE Reconfigures(t)
  <2>1. PICK q \in Request, plan \in Seq(Steps) :
          /\ BeginConfig(t, q, plan) /\ Planned(plan) /\ plan # <<>>
          /\ Configuring(plan) /\ ~Comparing(plan) /\ plan[1] \in {"read", "before", "forward"}
          /\ \/ Aimed(q) /\ (Saves(plan) => Len(plan) = 5)
             \/ q.rolls /\ Saves(plan) /\ Len(plan) = 7
    BY <1>2 DEF Reconfigures
  <2>2. Arrived(t, q, plan)
    BY <2>1, BeginsAs DEF FilesInv
  <2>3. Lonely(t, plan)
    <3>1. req'[t] = [q EXCEPT !.n = served + 1, !.alone = \A r \in Threads : ~Configures(r)]
      BY <1>0, <2>1 DEF BeginConfig
    <3>2. req'[t].alone = \A r \in Threads : ~Configures(r)
      BY <3>1 DEF Request
    <3>3. ASSUME NEW r \in Procs, r # t PROVE req'[r].alone = (req[r].alone /\ ~Configures(r) /\ ~Compares(r))
      <4>1. req'[r] = [req[r] EXCEPT !.alone = @ /\ ~Configures(r) /\ ~Compares(r)] /\ req[r] \in Request
        BY <1>0, <2>1, <3>3 DEF BeginConfig
      <4> QED BY <4>1 DEF Request
    <3> QED BY <3>2, <3>3 DEF Lonely
  <2> QED BY <2>1, <2>2, <2>3
<1> QED BY <1>1, <1>2

\* What is done stays done.
LEMMA Grows ==
  ASSUME NEW p \in Procs, Step(p)
  PROVE  /\ overlapped \subseteq overlapped'
         /\ ~At(p, "show") => shown' = shown
<1>1. CASE Read(p) \/ ErrorRead(p)
  BY <1>1 DEF Read, ErrorRead
<1>2. CASE ErrorWrite(p) \/ \E step \in Writes : Write(p, step)
  BY <1>2 DEF ErrorWrite, Write, Store
<1>3. CASE Aside(p)
  <2>1. overlapped' = overlapped
    BY <1>3, AsideIs
  <2>2. shown' = shown \/ Show(p)
    BY <1>3 DEF Aside, Call, Send, Job, Find, Before, Set, Forward, Clear, After, Join, ghosts
  <2> QED BY <2>1, <2>2, Ats
<1> QED BY <1>1, <1>2, <1>3, StepAs

LEMMA StillExplained ==
  ASSUME FilesInv, NEW p \in Procs, Step(p), Explained
  PROVE  Explained'
BY Grows, Kept DEF FilesInv, Keeps, Explained

\* Only a change of the configuration changes it, so what is alone sees none.
LEMMA Undisturbed ==
  ASSUME FilesInv, AloneInv, NEW p \in Procs, Step(p), NEW q \in Procs, q # p, req[q].alone, Configures(q) \/ Compares(q)
  PROVE  config' = config
<1>1. At(p, "set") \/ At(p, "forward") => Configures(p)
  <2>1. todo[p] # <<>> /\ todo[p] \in Seq(Steps) /\ Head(todo[p]) = todo[p][1] /\ 1 \in DOMAIN todo[p]
    BY Follows, TailIs
  <2> QED BY <2>1 DEF At, Configures
<1>2. ~Configures(p)
  BY DEF AloneInv
<1> QED BY <1>1, <1>2, Kept DEF FilesInv, Keeps

LEMMA StepAlones ==
  ASSUME FilesInv, AloneInv, NEW p \in Procs, Step(p)
  PROVE  AloneInv'
<1>1. \A q \in Procs : /\ Configures(q)' => Configures(q)
                       /\ Compares(q)' => Compares(q)
                       /\ req'[q].alone = req[q].alone
  BY Follows DEF Configures, Compares
<1> QED BY <1>1 DEF AloneInv

LEMMA StepStages ==
  ASSUME FilesInv, AloneInv, StageInv, NEW p \in Procs, Step(p)
  PROVE  StageInv'
<1> DEFINE Staged(q) == Saves(todo[q]) /\ req[q].alone =>
             /\ Len(todo[q]) = 4 => req[q].before = config
             /\ Len(todo[q]) < 4 => req[q].before = req[q].was /\ config = Changed(req[q])
             /\ Len(todo[q]) < 3 => req[q].after = config
<1>1. \A q \in Procs : Staged(q)
  BY DEF StageInv
<1>2. ASSUME NEW q \in Procs, q # p PROVE Staged(q)'
  <2>1. todo'[q] = todo[q] /\ req'[q] = req[q] /\ todo[q] \in Seq(Steps)
    BY <1>2, Follows DEF FilesInv, TypeInv
  <2>2. Saves(todo[q]) => Configures(q)
    BY <2>1, SavesConfigures DEF Configures, Configuring
  <2>3. Saves(todo[q]) /\ req[q].alone => config' = config
    BY <1>2, <2>2, Undisturbed
  <2>4. Changed(req[q])' = Changed(req[q])
    BY <2>1 DEF Changed
  <2> QED BY <1>1, <2>1, <2>3, <2>4
<1>3. ASSUME Saves(todo'[p]), req'[p].alone
      PROVE  /\ Len(todo'[p]) = 4 => req'[p].before = config'
             /\ Len(todo'[p]) < 4 => req'[p].before = req'[p].was /\ config' = Changed(req[p])'
             /\ Len(todo'[p]) < 3 => req'[p].after = config'
  <2> DEFINE s == todo[p]
             r == todo'[p]
  <2>1. /\ r = Tail(s) /\ Saves(s) /\ Len(r) = Len(s) - 1 /\ Len(s) \in 2..7 /\ s \in Seq(Steps) /\ req[p].alone
        /\ Head(s) = s[1] /\ s # <<>>
    BY <1>3, Follows
  <2>h. \A x : At(p, x) <=> s[1] = x
    BY <2>1 DEF At
  <2>s. /\ s[1] = "before" <=> Len(s) = 5
        /\ s[1] = "set" <=> Len(s) = 4
        /\ s[1] = "after" <=> Len(s) = 3
        /\ s[1] # "forward" /\ s[1] # "job"
        /\ s[1] = "find" <=> Len(s) = 6
    BY <2>1, SavesAt, SavesConfigures
  <2>l. r # <<>> /\ r[1] # "log" /\ r \in Seq(Steps)
    BY <1>3, Follows, SavesConfigures DEF FilesInv, TypeInv
  <2>k. Keeps(p)
    BY Kept DEF FilesInv
  <2>t. req \in [Procs -> Request] /\ todo \in [Procs -> Seq(Steps)] /\ req[p] \in Request
    BY DEF FilesInv, TypeInv
  <2>n. Len(r) = Len(s) - 1 /\ Len(s) \in 2..7
    BY <2>1
  <2> HIDE DEF s, r
  <2>2. CASE Len(s) = 5
    <3>1. Before(p)
      BY <2>2, <2>h, <2>s, Acts
    <3>2. ~Fails(p, IF req[p].rolls THEN <<>> ELSE <<"set">>)
      <4>1. <<"log", "set">>[1] = "log" /\ <<"log">>[1] = "log"
        OBVIOUS
      <4> QED BY <2>l, <4>1, LogAnd DEF Fails, Goes, r, FilesInv, TypeInv
    <3>3. req' = [req EXCEPT ![p].before = config] /\ config' = config
      BY <3>1, <3>2 DEF Before
    <3>4. req'[p].before = config'
      BY <2>t, <3>3 DEF Request
    <3>5. Len(r) = 4 /\ ~(Len(r) < 4) /\ ~(Len(r) < 3)
      BY <2>n, <2>2
    <3> QED BY <3>4, <3>5 DEF r
  <2>3. CASE Len(s) = 4
    <3>1. Set(p)
      BY <2>3, <2>h, <2>s, Acts
    <3>2. ~Goes(p, <<>>) /\ ~Fails(p, IF req[p].rolls THEN <<>> ELSE <<"log">>)
      <4>1. <<"log", "log">>[1] = "log" /\ <<"log">>[1] = "log"
        OBVIOUS
      <4> QED BY <2>l, <4>1, LogAnd DEF Fails, Goes, r, FilesInv, TypeInv
    <3>3. Apply(p)
      BY <3>1, <3>2 DEF Set
    <3>4. /\ req'[p].was = config /\ req'[p].scope = req[p].scope /\ req'[p].content = req[p].content
          /\ req'[p].before = req[p].before
      BY <2>t, <3>3 DEF Apply, Request
    <3>5. config' = Changed(req[p])'
      BY <3>3, <3>4 DEF Apply, Changed
    <3>6. req[p].before = config
      BY <1>1, <2>1, <2>3 DEF s
    <3>7. ~(Len(r) = 4) /\ ~(Len(r) < 3)
      <4>1. Len(r) = 3
        BY <2>n, <2>3
      <4> QED BY <4>1
    <3> QED BY <3>4, <3>5, <3>6, <3>7 DEF r
  <2>4. CASE Len(s) < 4
    <3>1. config' = config /\ req'[p].was = req[p].was /\ req'[p].before = req[p].before
          /\ req'[p].scope = req[p].scope /\ req'[p].content = req[p].content
      <4>1. Len(s) # 4 /\ Len(s) # 5 /\ Len(s) # 6
        BY <2>n, <2>4
      <4>2. ~At(p, "set") /\ ~At(p, "forward") /\ ~At(p, "before") /\ ~At(p, "find") /\ ~At(p, "job")
        BY <2>h, <2>s, <4>1
      <4> QED BY <2>k, <4>2 DEF Keeps
    <3>2. Changed(req[p])' = Changed(req[p])
      BY <3>1 DEF Changed
    <3>3. req[p].before = req[p].was /\ config = Changed(req[p])
      BY <1>1, <2>1, <2>4 DEF s
    <3>4. CASE Len(s) = 3
      <4>1. After(p)
        BY <2>h, <2>s, <3>4, Acts
      <4>2. ~Fails(p, IF req[p].rolls THEN <<"log">> ELSE <<>>)
        <5>1. <<"log", "log">>[1] = "log" /\ <<"log">>[1] = "log"
          OBVIOUS
        <5> QED BY <2>l, <5>1, LogAnd DEF Fails, Goes, r, FilesInv, TypeInv
      <4>3. req'[p].after = config'
        BY <2>t, <3>1, <4>1, <4>2 DEF After, Request
      <4>4. ~(Len(r) = 4)
        BY <2>n, <3>4
      <4> QED BY <3>1, <3>2, <3>3, <4>3, <4>4 DEF r
    <3>5. CASE Len(s) # 3
      <4>1. Len(s) < 3 /\ ~(Len(r) = 4)
        BY <2>n, <2>4, <3>5
      <4>2. req[p].after = config
        BY <1>1, <2>1, <4>1 DEF s
      <4>3. req'[p].after = req[p].after
        BY <2>h, <2>k, <2>s, <3>5 DEF Keeps
      <4> QED BY <3>1, <3>2, <3>3, <4>1, <4>2, <4>3 DEF r
    <3> QED BY <3>4, <3>5
  <2>5. CASE Len(s) > 5
    <3>1. ~(Len(r) = 4) /\ ~(Len(r) < 4) /\ ~(Len(r) < 3)
      <4>1. \A n \in 2..7 : \A m : m = n - 1 /\ n > 5 => ~(m = 4) /\ ~(m < 4) /\ ~(m < 3)
        OBVIOUS
      <4> QED BY <2>n, <2>5, <4>1
    <3> QED BY <3>1 DEF r
  <2>6. Len(s) = 5 \/ Len(s) = 4 \/ Len(s) < 4 \/ Len(s) > 5
    BY <2>n
  <2> QED BY <2>2, <2>3, <2>4, <2>5, <2>6
<1> QED BY <1>2, <1>3 DEF StageInv

\* The version a request saves when nothing overlapped it tells its change.
LEMMA AloneTells ==
  ASSUME FilesInv, StageInv, NEW p \in Procs, At(p, "version")
  PROVE  /\ Tells(VersionOf(req[p]))
         /\ req[p].alone => req[p].before = req[p].was /\ req[p].after = config
<1>1. Saves(todo[p]) /\ Len(todo[p]) < 4 /\ Len(todo[p]) < 3
  <2>1. Len(todo[p]) = 1 => Len(todo[p]) < 4 /\ Len(todo[p]) < 3
    OBVIOUS
  <2> QED BY <2>1, VersionIs
<1>2. req[p].alone => req[p].before = req[p].was /\ config = Changed(req[p]) /\ req[p].after = config
  BY <1>1 DEF StageInv
<1> QED BY <1>2 DEF Tells, VersionOf, Changed

\* What a step makes of the state file's versions.
LEMMA VersionsAre ==
  ASSUME FilesInv, NEW p \in Procs, Step(p)
  PROVE  \/ file'["state"].versions = file["state"].versions
         \/ Using(p) /\ StoreFor(p) = "state" /\ ~At(p, "version") /\ file'["state"].versions = req[p].copy.versions
         \/ /\ Write(p, "version") /\ At(p, "version") /\ Store(p, "version")
            /\ file'["state"].versions = LastOf(Append(req[p].copy.versions, VersionOf(req[p])), VersionLimit)
<1>1. CASE UNCHANGED file
  BY <1>1
<1>2. ASSUME NEW step \in Writes \cup {"error"}, At(p, step), Store(p, step)
      PROVE  \/ file'["state"].versions = file["state"].versions
             \/ Using(p) /\ StoreFor(p) = "state" /\ step # "version" /\ file'["state"].versions = req[p].copy.versions
             \/ /\ step = "version"
                /\ file'["state"].versions = LastOf(Append(req[p].copy.versions, VersionOf(req[p])), VersionLimit)
  <2>1. /\ Using(p) /\ StoreFor(p) = StoreOf(step) /\ req[p].copy \in Copies(StoreOf(step))
        /\ file'[StoreOf(step)] = Change(step, req[p], req[p].copy)
        /\ \A r \in Stores : r # StoreOf(step) => file'[r] = file[r]
    BY <1>2, StoreIs
  <2>2. CASE StoreOf(step) = "state"
    <3>1. req[p] \in Request /\ (step = "version" => VersionOf(req[p]) \in Versions)
      BY <1>2, VersionIs DEF FilesInv, TypeInv
    <3>2. /\ step # "version" => Change(step, req[p], req[p].copy).versions = req[p].copy.versions
          /\ step = "version" => Change(step, req[p], req[p].copy).versions = LastOf(Append(req[p].copy.versions, VersionOf(req[p])), VersionLimit)
      BY <2>1, <2>2, <3>1, ChangeIs
    <3> QED BY <2>1, <2>2, <3>2
  <2>3. CASE StoreOf(step) # "state"
    BY <2>1, <2>3 DEF Stores
  <2> QED BY <2>2, <2>3
<1>3. CASE Read(p) \/ ErrorRead(p)
  BY <1>1, <1>3 DEF Read, ErrorRead
<1>4. CASE ErrorWrite(p)
  <2>1. At(p, "error") /\ Store(p, "error") /\ ~At(p, "version")
    BY <1>4, Ats DEF ErrorWrite
  <2> QED BY <1>2, <2>1
<1>5. ASSUME NEW step \in Writes, Write(p, step), Store(p, step)
      PROVE  \/ file'["state"].versions = file["state"].versions
             \/ Using(p) /\ StoreFor(p) = "state" /\ ~At(p, "version") /\ file'["state"].versions = req[p].copy.versions
             \/ /\ Write(p, "version") /\ At(p, "version") /\ Store(p, "version")
                /\ file'["state"].versions = LastOf(Append(req[p].copy.versions, VersionOf(req[p])), VersionLimit)
  <2>1. At(p, step) /\ (step # "version" => ~At(p, "version"))
    BY <1>5, Ats
  <2> QED BY <1>2, <1>5, <2>1
<1>6. ASSUME NEW step \in Writes, Write(p, step) PROVE Store(p, step) \/ UNCHANGED file
  BY <1>6 DEF Write
<1>7. CASE Aside(p)
  BY <1>1, <1>7, AsideIs
<1> QED BY <1>1, <1>3, <1>4, <1>5, <1>6, <1>7, StepAs

LEMMA StepTells ==
  ASSUME FilesInv, StageInv, TellInv, NEW p \in Procs, Step(p)
  PROVE  TellInv'
<1> DEFINE All(versions) == \A i \in DOMAIN versions : Tells(versions[i])
<1>1. All(file["state"].versions) /\ \A q \in Procs : Using(q) /\ StoreFor(q) = "state" => All(req[q].copy.versions)
  BY DEF TellInv, VersionsTellTheChange
<1>2. All(file'["state"].versions)
  <2>1. CASE At(p, "version") /\ file'["state"].versions = LastOf(Append(req[p].copy.versions, VersionOf(req[p])), VersionLimit)
    <3> DEFINE old == req[p].copy.versions
               v == VersionOf(req[p])
               new == Append(old, v)
    <3>1. old \in Seq(Versions) /\ All(old)
      <4>1. Using(p) /\ StoreFor(p) = "state"
        BY <2>1 DEF At, Using, StoreFor, StoreOf, Uses, Writes
      <4> QED BY <1>1, <2>1, <4>1, Found DEF StateFile
    <3>2. Tells(v) /\ v \in Versions
      BY <2>1, AloneTells, VersionIs
    <3> HIDE DEF old, v
    <3>3. new \in Seq(Versions) /\ Len(new) = Len(old) + 1 /\ new[Len(old) + 1] = v /\ \A i \in 1..Len(old) : new[i] = old[i]
      <4>1. Len(old) \in Nat /\ old \in Seq(Versions) /\ v \in Versions
        BY <3>1, <3>2
      <4>2. new \in Seq(Versions) /\ Len(new) = Len(old) + 1
        BY <4>1
      <4>3. new[Len(old) + 1] = v
        BY <4>1
      <4>4. \A i \in 1..Len(old) : new[i] = old[i]
        BY <4>1
      <4> QED BY <4>2, <4>3, <4>4
    <3> HIDE DEF new
    <3>4. \A i \in 1..Len(new) : Tells(new[i])
      <4>1. DOMAIN old = 1..Len(old)
        BY <3>1
      <4>2. ASSUME NEW i \in 1..Len(new) PROVE Tells(new[i])
        <5>1. i \in 1..Len(old) \/ i = Len(old) + 1
          BY <3>1, <3>3
        <5> QED BY <3>1, <3>2, <3>3, <4>1, <5>1
      <4> QED BY <4>2
    <3>5. /\ LastOf(new, VersionLimit) \in Seq(Versions)
          /\ Len(new) <= VersionLimit => LastOf(new, VersionLimit) = new
          /\ Len(new) > VersionLimit => /\ Len(LastOf(new, VersionLimit)) = VersionLimit
                                        /\ \A i \in 1..VersionLimit : LastOf(new, VersionLimit)[i] = new[Len(new) - VersionLimit + i]
      <4>1. new \in Seq(Versions) /\ VersionLimit \in Nat \ {0}
        BY <3>3, PanelAssumption
      <4> QED BY ONLY <4>1, LastIs, Zenon
    <3>6. VersionLimit \in Nat \ {0} /\ Len(new) \in Nat
      BY <3>3, PanelAssumption
    <3>7. ASSUME NEW i \in DOMAIN LastOf(new, VersionLimit) PROVE Tells(LastOf(new, VersionLimit)[i])
      <4>1. i \in 1..Len(LastOf(new, VersionLimit))
        BY <3>5
      <4>2. CASE Len(new) > VersionLimit
        <5>1. i \in 1..VersionLimit /\ LastOf(new, VersionLimit)[i] = new[Len(new) - VersionLimit + i]
          BY <3>5, <4>1, <4>2
        <5>2. Len(new) - VersionLimit + i \in 1..Len(new)
          BY <3>6, <4>2, <5>1
        <5> QED BY <3>4, <5>1, <5>2
      <4>3. CASE ~(Len(new) > VersionLimit)
        BY <3>4, <3>5, <3>6, <4>1, <4>3
      <4> QED BY <4>2, <4>3
    <3> QED BY <2>1, <3>7 DEF new, old, v
  <2> HIDE DEF All
  <2> QED BY <1>1, <2>1, VersionsAre
<1>3. ASSUME NEW q \in Procs, Using(q)', StoreFor(q)' = "state" PROVE All(req'[q].copy.versions)
  <2>1. CASE q # p
    <3>1. Using(q) /\ StoreFor(q) = "state" /\ req'[q] = req[q]
      BY <1>3, <2>1, Follows DEF Using, StoreFor
    <3> QED BY <1>1, <3>1
  <2>2. CASE q = p
    <3>1. At(p, "read") \/ At(p, "log")
      <4>1. todo'[p] # <<>> => Head(todo'[p]) = todo'[p][1]
        BY TailIs, Follows
      <4> QED BY <1>3, <2>2, <4>1, Follows DEF Using, At
    <3>2. req'[p].copy = ReadState(file["state"])
      <4>1. CASE At(p, "read")
        <5>1. Read(p)
          BY <4>1, Acts
        <5>2. req'[p].copy = ReadFile("state", file["state"])
          BY <1>3, <2>2, <5>1, ReadingIs
        <5> QED BY <5>2 DEF ReadFile
      <4>2. CASE At(p, "log")
        <5>1. ErrorRead(p)
          BY <4>2, Acts
        <5>2. req' = [req EXCEPT ![p].copy = ReadState(file["state"])]
          BY <5>1 DEF ErrorRead
        <5> QED BY <5>2 DEF FilesInv, TypeInv, Request
      <4> QED BY <3>1, <4>1, <4>2
    <3>3. ReadState(file["state"]).versions = file["state"].versions
      BY ReadIs DEF FilesInv, TypeInv, Stores
    <3> QED BY <1>1, <2>2, <3>2, <3>3
  <2> QED BY <2>1, <2>2
<1> QED BY <1>2, <1>3 DEF TellInv, VersionsTellTheChange

\* A write of the state file that explains nothing wrote what the file held.
LEMMA FreshWrite ==
  ASSUME FilesInv, NEW p \in Procs, Step(p), ~Explained', Using(p), StoreFor(p) = "state",
         file'["state"].versions # file["state"].versions
  PROVE  req[p].copy.versions = file["state"].versions
<1>1. ASSUME p \notin stale PROVE req[p].copy.versions = file["state"].versions
  <2>1. req[p].copy = ReadState(file["state"])
    BY <1>1 DEF FilesInv, CopyInv, ReadFile
  <2> QED BY <2>1, ReadIs DEF FilesInv, TypeInv, Stores
<1>2. ASSUME p \in stale PROVE FALSE
  <2>1. ~At(p, "error")
    BY <1>2 DEF FilesInv, CopyInv
  <2>2. PICK step \in Writes : Write(p, step)
    <3>1. ~(Read(p) \/ ErrorRead(p) \/ Aside(p))
      BY AsideIs DEF Read, ErrorRead
    <3> QED BY <2>1, <3>1, Ats, StepAs
  <2>3. Store(p, step) /\ StoreOf(step) = "state" /\ step # "error"
    <3>1. Store(p, step)
      BY <2>2 DEF Write
    <3>2. At(p, step) /\ step # "error"
      BY <2>2 DEF Write, Writes
    <3> QED BY <3>1, <3>2 DEF At, StoreFor
  <2>4. "state" \in overlapped'
    BY <1>2, <2>3 DEF Store
  <2> QED BY <2>4 DEF Explained
<1> QED BY <1>1, <1>2

\* A change of the configuration no version will be saved for is a cause.
LEMMA Reconfigured ==
  ASSUME FilesInv, NEW p \in Procs, Step(p), ~Explained'
  PROVE  \/ config' = config /\ req'[p].was = req[p].was
         \/ /\ Saves(todo[p]) /\ Len(todo[p]) = 4 /\ Saves(todo'[p]) /\ Len(todo'[p]) = 3
            /\ req'[p].was = config
<1>1. CASE ~At(p, "set") /\ ~At(p, "forward")
  BY <1>1, Kept DEF FilesInv, Keeps
<1>2. CASE At(p, "forward")
  <2>1. Forward(p) /\ ~NoVersion
    BY <1>2, Acts DEF NoVersion, Explained
  <2> QED BY <2>1 DEF Forward
<1>3. CASE At(p, "set")
  <2>1. Set(p) /\ ~NoVersion
    BY <1>3, Acts DEF NoVersion, Explained
  <2>2. (UNCHANGED <<req, config>>) \/ (Apply(p) /\ Goes(p, Rest(p)) /\ Rest(p) # <<>>)
    BY <2>1 DEF Set
  <2>3. ASSUME Apply(p), Goes(p, Rest(p)), Rest(p) # <<>>
        PROVE  Saves(todo[p]) /\ Len(todo[p]) = 4 /\ Saves(todo'[p]) /\ Len(todo'[p]) = 3 /\ req'[p].was = config
    <3> DEFINE s == todo[p]
    <3>1. s \in Seq(Steps) /\ s # <<>> /\ Planned(s) /\ s[1] = "set" /\ Len(s) \in Nat \ {0}
      BY <1>3, Follows DEF At
    <3>2. Len(s) # 1
      <4>1. Len(Tail(s)) = Len(s) - 1 /\ Tail(s) \in Seq(Steps)
        BY <3>1, TailIs
      <4>2. Tail(s) # <<>>
        BY <2>3 DEF Rest
      <4>3. Len(Tail(s)) # 0
        <5>1. \A q \in Seq(Steps) : Len(q) = 0 => q = <<>>
          OBVIOUS
        <5> QED BY <4>1, <4>2, <5>1
      <4> QED BY <3>1, <4>1, <4>3
    <3>3. Saves(s)
      <4>1. 1 \in 1..Len(s)
        BY <3>1
      <4> QED BY <3>1, <3>2, <4>1 DEF Planned
    <3>4. Len(s) = 4
      BY <3>1, <3>3, SavesAt
    <3>5. todo'[p] = Tail(s)
      BY <2>3 DEF Goes, Rest, FilesInv, TypeInv
    <3>6. Saves(Tail(s)) /\ Len(Tail(s)) = 3
      <4>1. Saves(Tail(s))
        BY <3>1, <3>2, <3>3, SavesTail
      <4>2. Len(Tail(s)) = Len(s) - 1
        BY <3>1, TailIs
      <4> QED BY <3>4, <4>1, <4>2
    <3>7. req'[p].was = config
      BY <2>3 DEF Apply, FilesInv, TypeInv, Request
    <3> QED BY <3>3, <3>4, <3>5, <3>6, <3>7
  <2> QED BY <2>2, <2>3
<1> QED BY <1>1, <1>2, <1>3

LEMMA AgreesWithNew ==
  ASSUME NEW s \in Seq(Versions), NEW v \in Versions, NEW c, v.after = c, NEW n \in Nat \ {0}
  PROVE  Agrees(c, LastOf(Append(s, v), n))
<1> DEFINE new == Append(s, v)
           kept == LastOf(new, n)
<1>1. new \in Seq(Versions) /\ Len(new) = Len(s) + 1 /\ Len(s) \in Nat
  OBVIOUS
<1>2. new[Len(new)] = v
  BY <1>1
<1> HIDE DEF new
<1>3. /\ kept \in Seq(Versions)
      /\ Len(new) <= n => kept = new
      /\ Len(new) > n => Len(kept) = n /\ \A i \in 1..n : kept[i] = new[Len(new) - n + i]
  <2>1. new \in Seq(Versions) /\ n \in Nat \ {0}
    BY <1>1
  <2> QED BY ONLY <2>1, LastIs, Zenon
<1> HIDE DEF kept
<1>4. kept[Len(kept)] = v
  <2>1. CASE Len(new) > n
    <3>1. Len(kept) = n /\ n \in 1..n /\ Len(new) - n + n = Len(new)
      BY <1>1, <1>3, <2>1
    <3>2. kept[n] = new[Len(new) - n + n]
      BY <1>3, <2>1, <3>1
    <3> QED BY <1>2, <3>1, <3>2
  <2>2. CASE ~(Len(new) > n)
    <3>1. Len(new) <= n
      BY <1>1, <2>2
    <3> QED BY <1>2, <1>3, <3>1
  <2> QED BY <2>1, <2>2
<1>5. Agrees(c, kept)
  BY <1>4 DEF Agrees, InSync, Last
<1> QED BY <1>5 DEF kept, new

LEMMA StepSyncs ==
  ASSUME FilesInv, AloneInv, StageInv, SyncInv, NEW p \in Procs, Step(p)
  PROVE  SyncInv'
<1> SUFFICES ASSUME ~Explained'
             PROVE  \/ Agrees(config', file'["state"].versions)
                    \/ \E q \in Procs : Applied(q)' /\ (req'[q].alone => Agrees(req'[q].was, file'["state"].versions))
  BY DEF SyncInv, Agrees, InSync
<1> DEFINE old == file["state"].versions
           new == file'["state"].versions
<1>1. Agrees(config, old) \/ \E q \in Procs : Applied(q) /\ (req[q].alone => Agrees(req[q].was, old))
  BY StillExplained DEF SyncInv
<1>2. \A q \in Procs : Applied(q) => Configures(q) /\ todo[q] \in Seq(Steps)
  BY SavesConfigures DEF Applied, Configures, Configuring, FilesInv, TypeInv
<1>3. \A q \in Procs : q # p => (Applied(q)' <=> Applied(q)) /\ req'[q] = req[q]
  BY Follows DEF Applied
<1>4. todo[p] \in Seq(Steps) /\ todo'[p] \in Seq(Steps) /\ req'[p].alone = req[p].alone
  BY Follows DEF FilesInv, TypeInv
\* The versions stay.
<1>5. CASE new = old
  <2>1. CASE /\ Saves(todo[p]) /\ Len(todo[p]) = 4 /\ Saves(todo'[p]) /\ Len(todo'[p]) = 3
             /\ req'[p].was = config
    <3>1. Applied(p)' /\ ~Applied(p) /\ Configures(p)
      <4>1. 3 < 4 /\ ~(4 < 4)
        OBVIOUS
      <4> QED BY <1>4, <2>1, <4>1, SavesConfigures DEF Applied, Configures, Configuring
    <3>2. req[p].alone => Agrees(config, old)
      BY <1>1, <1>2, <3>1 DEF AloneInv
    <3> QED BY <1>4, <1>5, <2>1, <3>1, <3>2
  <2>2. CASE config' = config /\ req'[p].was = req[p].was
    <3>1. CASE Agrees(config, old)
      BY <1>5, <2>2, <3>1
    <3>2. ASSUME NEW q \in Procs, Applied(q), req[q].alone => Agrees(req[q].was, old)
          PROVE  Agrees(config', new) \/ \E r \in Procs : Applied(r)' /\ (req'[r].alone => Agrees(req'[r].was, new))
      <4>1. CASE q # p
        BY <1>3, <1>5, <3>2, <4>1
      <4>2. CASE q = p /\ Applied(p)'
        BY <1>4, <1>5, <2>2, <3>2, <4>2
      <4>3. CASE q = p /\ ~Applied(p)'
        <5> DEFINE s == todo[p]
        <5>1. /\ s \in Seq(Steps) /\ Saves(s) /\ Len(s) < 4 /\ Len(s) \in 1..7 /\ s # <<>> /\ Head(s) = s[1]
              /\ s[1] = "after" <=> Len(s) = 3
              /\ s[1] = "read" <=> Len(s) \in {2, 7}
              /\ s[1] = "version" <=> Len(s) = 1
          BY <3>2, <4>3, <1>4, SavesAt DEF Applied
        <5>2. ASSUME todo'[p] = Tail(s), Len(s) # 1 PROVE FALSE
          <6>1. Saves(todo'[p]) /\ Len(todo'[p]) = Len(s) - 1
            BY <5>1, <5>2, SavesTail, TailIs
          <6>2. Len(todo'[p]) < 4
            BY <5>1, <6>1
          <6> QED BY <4>3, <6>1, <6>2 DEF Applied
        <5>3. CASE Len(s) = 3
          <6>1. After(p) /\ ~NoVersion
            BY <5>1, <5>3, Acts DEF At, NoVersion, Explained
          <6>2. todo'[p] = Tail(s)
            BY <6>1 DEF After, Goes, Rest, FilesInv, TypeInv
          <6> QED BY <5>2, <5>3, <6>2
        <5>4. CASE Len(s) = 2
          <6>1. Read(p)
            BY <5>1, <5>4, Acts DEF At
          <6>2. todo'[p] = Tail(s)
            BY <6>1 DEF Read, Goes, Rest, FilesInv, TypeInv
          <6> QED BY <5>2, <5>4, <6>2
        <5>5. CASE Len(s) = 1
          <6>1. At(p, "version") /\ Write(p, "version")
            BY <5>1, <5>5, Acts DEF At, Writes
          <6>2. req[p].alone
            BY <6>1 DEF Write, Explained
          <6>3. Agrees(req[p].was, old) /\ req[p].before = req[p].was /\ req[p].after = config
            BY <3>2, <4>3, <6>1, <6>2, AloneTells
          <6>4. CASE req[p].before = req[p].after
            BY <1>5, <2>2, <6>3, <6>4
          <6>5. CASE req[p].before # req[p].after
            <7>1. Store(p, "version")
              BY <6>1, <6>5 DEF Write, Refused
            <7>2. new = LastOf(Append(req[p].copy.versions, VersionOf(req[p])), VersionLimit)
              <8>1. new = Change("version", req[p], req[p].copy).versions
                BY <6>1, <7>1, StoreIs DEF Writes, StoreOf
              <8>2. req[p] \in Request /\ req[p].copy \in Copies("state") /\ VersionOf(req[p]) \in Versions
                BY <6>1, Found, VersionIs DEF FilesInv, TypeInv
              <8> QED BY <8>1, <8>2, ChangeIs DEF Writes, StoreOf
            <7>3. Agrees(config, new)
              <8>1. req[p].copy.versions \in Seq(Versions) /\ VersionOf(req[p]) \in Versions /\ VersionOf(req[p]).after = config
                BY <6>1, <6>3, Found, VersionIs DEF StateFile, VersionOf
              <8> QED BY <7>2, <8>1, AgreesWithNew, PanelAssumption
            <7> QED BY <2>2, <7>3
          <6> QED BY <6>4, <6>5
        <5>6. Len(s) = 1 \/ Len(s) = 2 \/ Len(s) = 3
          <6>1. \A n \in 1..7 : n < 4 => n = 1 \/ n = 2 \/ n = 3
            OBVIOUS
          <6> QED BY <5>1, <6>1
        <5> QED BY <5>3, <5>4, <5>5, <5>6
      <4> QED BY <4>1, <4>2, <4>3
    <3> QED BY <1>1, <3>1, <3>2
  <2> QED BY <2>1, <2>2, Reconfigured
\* A version is saved, or a copy of the versions is written back.
<1>6. CASE new # old
  <2>1. CASE Using(p) /\ StoreFor(p) = "state" /\ ~At(p, "version") /\ new = req[p].copy.versions
    BY <1>6, <2>1, FreshWrite
  <2>2. CASE /\ Write(p, "version") /\ At(p, "version")
             /\ new = LastOf(Append(req[p].copy.versions, VersionOf(req[p])), VersionLimit)
    <3>1. req[p].alone /\ config' = config
      BY <2>2 DEF Write, Explained
    <3>2. req[p].after = config
      BY <2>2, <3>1, AloneTells
    <3>3. req[p].copy.versions \in Seq(Versions) /\ VersionOf(req[p]) \in Versions /\ VersionOf(req[p]).after = config
      BY <2>2, <3>2, Found, VersionIs DEF StateFile, VersionOf
    <3> QED BY <2>2, <3>1, <3>3, AgreesWithNew, PanelAssumption
  <2> QED BY <1>6, <2>1, <2>2, VersionsAre
<1> QED BY <1>5, <1>6

LEMMA StepViews ==
  ASSUME FilesInv, AloneInv, SyncInv, ViewInv, NEW p \in Procs, Step(p)
  PROVE  ViewInv'
<1> SUFFICES ASSUME NEW t \in Procs, Compares(t)'
             PROVE  /\ \A q \in Pool : At(q, "job")' => req'[q].content # "failed"
                    /\ req'[t].alone => \A q \in Pool : ~At(q, "job")' => req'[q].content = "failed" \/ req'[q].after = config'
                    /\ At(t, "show")' => Explained' \/ ~req'[t].alone \/ Agrees(config', req'[t].copy.versions)
  BY DEF ViewInv, Agrees, InSync
<1>1. /\ Compares(t) /\ t \in Threads /\ t \notin Pool /\ Pool \subseteq Procs
      /\ \A q \in Procs : Compares(q) => q = t
  BY Follows, PanelAssumption DEF FilesInv, WaitInv, Compares, Procs
<1>2. /\ \A q \in Pool : At(q, "job") => req[q].content # "failed"
      /\ req[t].alone => \A q \in Pool : ~At(q, "job") => req[q].content = "failed" \/ req[q].after = config
      /\ At(t, "show") => Explained \/ ~req[t].alone \/ Agrees(config, req[t].copy.versions)
  BY <1>1 DEF ViewInv
<1>3. /\ \A q \in Procs : q # p => req'[q] = req[q] /\ todo'[q] = todo[q] /\ \A x : At(q, x)' <=> At(q, x)
      /\ req'[p].alone = req[p].alone
  BY Follows DEF At
<1>4. req[t].alone => config' = config
  <2>1. CASE t = p
    <3>1. req[t].alone => ~At(p, "set") /\ ~At(p, "forward")
      <4>1. At(p, "set") \/ At(p, "forward") => Configures(p)
        <5>1. todo[p] # <<>> /\ todo[p] \in Seq(Steps) /\ Head(todo[p]) = todo[p][1] /\ 1 \in DOMAIN todo[p]
          BY Follows, TailIs
        <5> QED BY <5>1 DEF At, Configures
      <4> QED BY <1>1, <2>1, <4>1 DEF AloneInv
    <3> QED BY <3>1, Kept DEF FilesInv, Keeps
  <2>2. CASE t # p
    BY <1>1, <2>2, Undisturbed
  <2> QED BY <2>1, <2>2
<1>5. p \in Pool => ~At(p, "job")'
  <2>1. ASSUME p \in Pool PROVE todo'[p] \in {<<>>, <<"log">>, <<"error">>}
    <3>1. todo[p] \in {<<"job">>, <<"log">>, <<"error">>} /\ Moves(todo[p], todo'[p])
      BY <2>1, Follows DEF FilesInv, PlanInv
    <3> QED BY <3>1, PoolMoves
  <2>2. Head(<<"log">>) = "log" /\ Head(<<"error">>) = "error"
    OBVIOUS
  <2> QED BY <2>1, <2>2 DEF At
<1>6. \A q \in Pool : At(q, "job")' => req'[q].content # "failed"
  BY <1>1, <1>2, <1>3, <1>5
<1>7. ASSUME req'[t].alone, NEW q \in Pool, ~At(q, "job")' PROVE req'[q].content = "failed" \/ req'[q].after = config'
  <2>1. req[t].alone /\ config' = config
    BY <1>3, <1>4, <1>7
  <2>2. CASE q # p
    BY <1>1, <1>2, <1>3, <1>7, <2>1, <2>2
  <2>3. CASE q = p /\ At(p, "job")
    <3>1. Job(p)
      BY <2>3, Acts
    <3> QED BY <2>1, <2>3, <3>1 DEF Job, FilesInv, TypeInv, Request
  <2>4. CASE q = p /\ ~At(p, "job")
    <3>1. ~At(p, "find") /\ ~At(p, "after")
      <4>1. todo[p] \in {<<>>, <<"job">>, <<"log">>, <<"error">>}
        BY <1>7, <2>4 DEF FilesInv, PlanInv
      <4>2. Head(<<"log">>) = "log" /\ Head(<<"error">>) = "error" /\ Head(<<"job">>) = "job"
        OBVIOUS
      <4> QED BY <4>1, <4>2 DEF At
    <3>2. req'[p].content = req[p].content /\ req'[p].after = req[p].after
      BY <2>4, <3>1, Kept DEF FilesInv, Keeps
    <3> QED BY <1>2, <1>7, <2>1, <2>4, <3>2
  <2> QED BY <2>2, <2>3, <2>4
<1>8. ASSUME At(t, "show")', ~Explained', req'[t].alone PROVE Agrees(config', req'[t].copy.versions)
  <2>1. req[t].alone /\ config' = config /\ ~Explained
    BY <1>3, <1>4, <1>8, StillExplained
  <2>2. CASE t # p
    BY <1>2, <1>3, <1>8, <2>1, <2>2
  <2>3. CASE t = p
    <3>1. Using(p)' /\ StoreFor(p)' = "state" /\ todo'[p][1] = "show" /\ todo'[p] # <<>>
      <4>1. todo'[p] # <<>> => Head(todo'[p]) = todo'[p][1]
        BY TailIs, Follows
      <4> QED BY <1>8, <2>3, <4>1 DEF Using, StoreFor, StoreOf, At, Uses
    <3>2. Read(p)
      <4>1. At(p, "read")
        BY <3>1, Follows DEF Uses
      <4> QED BY <4>1, Acts
    <3>3. req'[p].copy = ReadState(file["state"])
      BY <3>1, <3>2, ReadingIs DEF ReadFile
    <3>4. req'[p].copy.versions = file["state"].versions
      BY <3>3, ReadIs DEF FilesInv, TypeInv, Stores
    <3>5. \A q \in Procs : ~Applied(q)
      <4>1. \A q \in Procs : Applied(q) => Configures(q)
        BY SavesConfigures DEF Applied, Configures, Configuring, FilesInv, TypeInv
      <4> QED BY <1>1, <2>1, <4>1 DEF AloneInv
    <3>6. Agrees(config, file["state"].versions)
      BY <2>1, <3>5 DEF SyncInv
    <3> QED BY <2>1, <2>3, <3>4, <3>6
  <2> QED BY <2>2, <2>3
<1> QED BY <1>6, <1>7, <1>8

\* A thread about to show is the one that compares, and has waited.
LEMMA Shows ==
  ASSUME FilesInv, NEW p \in Procs, At(p, "show")
  PROVE  Compares(p) /\ ~At(p, "join")
<1>1. todo[p] \in Seq(Steps) /\ todo[p] # <<>> /\ todo[p][1] = "show" /\ Planned(todo[p]) /\ 1 \in 1..Len(todo[p])
  BY TailIs DEF At, FilesInv, TypeInv, PlanInv
<1>2. Views(todo[p])
  BY <1>1 DEF Planned
<1>3. Len(todo[p]) \in 1..3 /\ Len(todo[p]) \in 1..Len(todo[p]) /\ 3 - Len(todo[p]) + Len(todo[p]) = 3
  <2>1. \A n \in 1..3 : n \in 1..n /\ 3 - n + n = 3
    OBVIOUS
  <2>2. Len(todo[p]) \in 1..3
    BY <1>2 DEF Views
  <2> QED BY ONLY <2>1, <2>2, Zenon
<1>4. todo[p][Len(todo[p])] = View[3]
  BY <1>2, <1>3 DEF Views
<1>5. todo[p][Len(todo[p])] = "show"
  BY <1>4 DEF View
<1>6. Compares(p)
  BY <1>1, <1>5 DEF Compares, Last
<1>7. ~At(p, "join")
  BY DEF At
<1> QED BY <1>6, <1>7

LEMMA StepDrifts ==
  ASSUME FilesInv, ViewInv, DriftHasACause, NEW p \in Procs, Step(p)
  PROVE  DriftHasACause'
<1>1. CASE ~At(p, "show")
  <2>1. shown' = shown
    BY <1>1, Grows
  <2>2. causes # {} \/ "state" \in overlapped => causes' # {} \/ "state" \in overlapped'
    BY StillExplained DEF Explained
  <2> QED BY <2>1, <2>2 DEF DriftHasACause
<1>2. CASE At(p, "show")
  <2> DEFINE versions == req[p].copy.versions
             answered == {q \in Pool : req[q].content # "failed"}
             applied == \A q \in answered : InSync(req[q].after, versions)
             legacy == versions # <<>> /\ Last(versions).kind = "model"
             failed == Cardinality(Pool \ answered)
  <2>s. /\ shown' = [kind |-> "overview", number |-> req[p].n, alone |-> req[p].alone, applied |-> applied,
                     legacy |-> legacy, failed |-> failed, errors |-> req[p].copy.errors]
        /\ causes' = causes /\ overlapped' = overlapped
    BY <1>2, Acts DEF Show, ghosts
  <2> HIDE DEF applied, legacy, failed
  <2>r. shown'.alone = req[p].alone /\ shown'.applied = applied /\ shown'.legacy = legacy
    BY <2>s
  <2>1. /\ causes' = causes /\ overlapped' = overlapped /\ shown'.alone = req[p].alone
        /\ shown'.applied = \A q \in answered : InSync(req[q].after, versions)
        /\ shown'.legacy = (versions # <<>> /\ Last(versions).kind = "model")
    BY <2>r, <2>s DEF applied, legacy
  <2>2. Compares(p) /\ ~At(p, "join")
    BY <1>2, Shows
  <2>3. \A q \in Pool : todo[q] = <<>> /\ ~At(q, "job")
    BY <2>2 DEF FilesInv, WaitInv, At
  <2>4. req[p].alone => \A q \in Pool : req[q].content = "failed" \/ req[q].after = config
    BY <2>2, <2>3 DEF ViewInv
  <2>5. Explained \/ ~req[p].alone \/ Agrees(config, versions)
    BY <1>2, <2>2 DEF ViewInv
  <2>6. ASSUME ~shown'.applied, ~Explained, req[p].alone PROVE shown'.legacy
    <3>1. PICK q \in answered : ~InSync(req[q].after, versions)
      BY <2>1, <2>6
    <3>2. req[q].after = config
      BY <2>4, <2>6, <3>1
    <3>3. ~InSync(config, versions)
      BY <3>1, <3>2
    <3>4. versions # <<>> /\ Last(versions).kind = "model"
      BY <2>5, <2>6, <3>3 DEF Agrees, InSync
    <3> QED BY <2>1, <3>4
  <2> QED BY <2>1, <2>6 DEF DriftHasACause, Explained
<1> QED BY <1>1, <1>2

LEMMA InitVersions == Init => VersionInv
<1> SUFFICES ASSUME Init PROVE VersionInv
  OBVIOUS
<1>1. \A p \in Procs : todo[p] = <<>> /\ req[p] = Idle
  BY DEF Init
<1>2. \A p \in Procs : (\A x : ~At(p, x)) /\ ~Compares(p) /\ ~Using(p) /\ ~Configures(p) /\ ~Saves(todo[p])
  <2>1. Len(<<>>) = 0 /\ DOMAIN <<>> = {}
    OBVIOUS
  <2>2. ~Saves(<<>>)
    BY <2>1 DEF Saves
  <2> QED BY <1>1, <2>1, <2>2 DEF At, Compares, Using, Configures
<1>3. file["state"].versions = <<>> \/ file["state"].versions = <<Legacy>>
  BY DEF Init
<1>4. AloneInv /\ StageInv /\ ViewInv
  BY <1>2 DEF AloneInv, StageInv, ViewInv
<1>5. TellInv
  <2>1. Tells(Legacy)
    BY DEF Tells, Legacy
  <2>2. DOMAIN <<>> = {} /\ DOMAIN <<Legacy>> = {1} /\ <<Legacy>>[1] = Legacy
    OBVIOUS
  <2> QED BY <1>2, <1>3, <2>1, <2>2 DEF TellInv, VersionsTellTheChange
<1>6. SyncInv
  <2>1. Last(<<Legacy>>) = Legacy /\ Legacy.kind = "model"
    <3>1. Len(<<Legacy>>) = 1 /\ <<Legacy>>[1] = Legacy
      OBVIOUS
    <3> QED BY <3>1 DEF Last, Legacy
  <2> QED BY <1>3, <2>1 DEF SyncInv, Agrees, InSync
<1>7. DriftHasACause
  BY DEF DriftHasACause, Init
<1> QED BY <1>4, <1>5, <1>6, <1>7 DEF VersionInv

\* A request that begins finds the versions and the configuration as they are.
LEMMA ArriveVersions ==
  ASSUME FilesInv, VersionInv, NEW t \in Threads, NEW q \in Request, NEW plan \in Seq(Steps), Arrived(t, q, plan),
         Planned(plan), plan # <<>>, ~Comparing(plan),
         plan[1] \in {"read", "call", "send", "clear", "before", "forward"},
         Configuring(plan) => \/ Aimed(q) /\ (Saves(plan) => Len(plan) = 5)
                              \/ q.rolls /\ Saves(plan) /\ Len(plan) = 7,
         Lonely(t, plan)
  PROVE  VersionInv'
<1>t. /\ t \in Procs /\ t \notin Pool /\ Pool \subseteq Procs /\ todo \in [Procs -> Seq(Steps)] /\ req \in [Procs -> Request]
      /\ Threads \subseteq Procs
  BY PanelAssumption DEF FilesInv, TypeInv, Procs
<1>a. /\ todo[t] = <<>> /\ todo' = [todo EXCEPT ![t] = plan] /\ shown'.kind = "none"
      /\ file' = file /\ config' = config /\ causes' = causes /\ overlapped' = overlapped
      /\ req' \in [Procs -> Request]
  BY DEF Arrived, ghosts
<1>b. todo'[t] = plan /\ \A r \in Procs : r # t => todo'[r] = todo[r]
  BY <1>a, <1>t
<1>h. Head(plan) = plan[1]
  BY TailIs
<1>r. \A r \in Procs : r # t => /\ req'[r].copy = req[r].copy /\ req'[r].scope = req[r].scope /\ req'[r].content = req[r].content
                               /\ req'[r].before = req[r].before /\ req'[r].after = req[r].after /\ req'[r].was = req[r].was
                               /\ (req'[r].alone => req[r].alone)
  <2>1. \A r \in Procs : r # t => AloneOnly(req[r], req'[r]) /\ req[r] \in Request /\ req'[r] \in Request
    BY <1>t, <1>a DEF Arrived
  <2>2. \A r \in Procs : r # t /\ req'[r].alone => req[r].alone
    BY DEF Lonely
  <2> QED BY <2>1, <2>2, SameBut
<1>c. /\ ~Compares(t)' /\ ~Compares(t) /\ ~Configures(t) /\ (Configures(t)' <=> Configuring(plan))
      /\ \A r \in Procs : r # t => (Compares(r)' <=> Compares(r)) /\ (Configures(r)' <=> Configures(r))
                                   /\ \A x : At(r, x)' <=> At(r, x)
  <2>1. ~Compares(t) /\ ~Configures(t)
    <3>1. DOMAIN <<>> = {}
      OBVIOUS
    <3> QED BY <1>a, <3>1 DEF Compares, Configures
  <2>2. ~Compares(t)' /\ (Configures(t)' <=> Configuring(plan))
    BY <1>b DEF Compares, Comparing, Configures, Configuring
  <2> QED BY <1>b, <2>1, <2>2 DEF Compares, Configures, At
<1>p. \A r \in Procs : r \notin Threads => ~Configures(r)
  <2>1. ASSUME NEW r \in Pool PROVE ~Configures(r)
    <3>1. todo[r] \in {<<>>, <<"job">>, <<"log">>, <<"error">>}
      BY DEF FilesInv, PlanInv
    <3>2. \A x \in {"job", "log", "error"} : DOMAIN <<x>> = {1} /\ <<x>>[1] = x
      OBVIOUS
    <3>3. DOMAIN <<>> = {}
      OBVIOUS
    <3> QED BY <3>1, <3>2, <3>3 DEF Configures
  <2> QED BY <2>1 DEF Procs
<1>e. Explained' <=> Explained
  BY <1>a DEF Explained
<1>1. AloneInv'
  <2>1. ASSUME NEW r \in Procs, NEW s \in Procs, r # s, Configures(r)', Configures(s)' PROVE ~req'[r].alone
    <3>1. CASE r = t
      BY <1>c, <1>p, <2>1, <3>1 DEF Lonely
    <3>2. CASE r # t /\ s = t
      BY <1>c, <2>1, <3>2 DEF Lonely
    <3>3. CASE r # t /\ s # t
      BY <1>c, <1>r, <2>1, <3>3 DEF VersionInv, AloneInv
    <3> QED BY <3>1, <3>2, <3>3
  <2>2. ASSUME NEW r \in Procs, NEW s \in Procs, Compares(r)', Configures(s)' PROVE ~req'[r].alone
    <3>1. r # t
      BY <1>c, <2>2
    <3>2. CASE s = t
      BY <1>c, <2>2, <3>1, <3>2 DEF Lonely
    <3>3. CASE s # t
      BY <1>c, <1>r, <2>2, <3>1, <3>3 DEF VersionInv, AloneInv
    <3> QED BY <3>2, <3>3
  <2> QED BY <2>1, <2>2 DEF AloneInv
<1>2. StageInv'
  <2> DEFINE Staged(r) == Saves(todo[r]) /\ req[r].alone =>
             /\ Len(todo[r]) = 4 => req[r].before = config
             /\ Len(todo[r]) < 4 => req[r].before = req[r].was /\ config = Changed(req[r])
             /\ Len(todo[r]) < 3 => req[r].after = config
  <2>1. \A r \in Procs : Staged(r)
    BY DEF VersionInv, StageInv
  <2>2. ASSUME NEW r \in Procs, r # t PROVE Staged(r)'
    <3>1. Changed(req[r])' = Changed(req[r])
      BY <1>r, <2>2 DEF Changed
    <3> QED BY <1>a, <1>b, <1>r, <2>1, <2>2, <3>1
  <2>3. Staged(t)'
    <3>1. Saves(plan) => Len(plan) = 5 \/ Len(plan) = 7
      BY SavesConfigures
    <3>2. Len(plan) = 5 \/ Len(plan) = 7 => ~(Len(plan) = 4) /\ ~(Len(plan) < 4) /\ ~(Len(plan) < 3)
      <4>1. \A n : n = 5 \/ n = 7 => ~(n = 4) /\ ~(n < 4) /\ ~(n < 3)
        OBVIOUS
      <4> QED BY ONLY <4>1, Zenon
    <3> QED BY <1>b, <3>1, <3>2
  <2> QED BY <2>2, <2>3 DEF StageInv
<1>3. TellInv'
  <2>1. ~Using(t)'
    BY <1>b, <1>h DEF Using, Uses, Writes
  <2>2. \A r \in Procs : r # t => (Using(r)' <=> Using(r)) /\ StoreFor(r)' = StoreFor(r)
    BY <1>b DEF Using, StoreFor
  <2> QED BY <1>a, <1>r, <2>1, <2>2 DEF VersionInv, TellInv, VersionsTellTheChange
<1>4. SyncInv'
  <2>1. CASE Explained \/ Agrees(config, file["state"].versions)
    BY <1>a, <1>e, <2>1 DEF SyncInv
  <2>2. ASSUME NEW r \in Procs, Applied(r), req[r].alone => Agrees(req[r].was, file["state"].versions)
        PROVE  SyncInv'
    <3>1. r # t
      <4>1. ~Saves(<<>>)
        BY DEF Saves
      <4> QED BY <1>a, <2>2, <4>1 DEF Applied
    <3>2. Applied(r)' /\ (req'[r].alone => Agrees(req'[r].was, file'["state"].versions))
      BY <1>a, <1>b, <1>r, <2>2, <3>1 DEF Applied
    <3> QED BY <3>2 DEF SyncInv, Agrees, InSync
  <2> QED BY <2>1, <2>2 DEF VersionInv, SyncInv
<1>5. ViewInv'
  <2>1. ASSUME NEW r \in Procs, Compares(r)'
        PROVE  /\ \A p \in Pool : At(p, "job")' => req'[p].content # "failed"
               /\ req'[r].alone => \A p \in Pool : ~At(p, "job")' => req'[p].content = "failed" \/ req'[p].after = config'
               /\ At(r, "show")' => Explained' \/ ~req'[r].alone \/ Agrees(config', req'[r].copy.versions)
    <3>1. r # t /\ Compares(r)
      BY <1>c, <2>1
    <3>2. \A p \in Pool : p # t /\ p \in Procs
      BY <1>t
    <3>3. /\ \A p \in Pool : At(p, "job") => req[p].content # "failed"
          /\ req[r].alone => \A p \in Pool : ~At(p, "job") => req[p].content = "failed" \/ req[p].after = config
          /\ At(r, "show") => Explained \/ ~req[r].alone \/ Agrees(config, req[r].copy.versions)
      BY <3>1 DEF VersionInv, ViewInv
    <3> QED BY <1>a, <1>c, <1>e, <1>r, <3>1, <3>2, <3>3
  <2> QED BY <2>1 DEF ViewInv, Agrees, InSync
<1>6. DriftHasACause'
  BY <1>a DEF DriftHasACause
<1> QED BY <1>1, <1>2, <1>3, <1>4, <1>5, <1>6 DEF VersionInv

LEMMA OverviewVersions ==
  ASSUME FilesInv, VersionInv, NEW t \in Threads, Overview(t)
  PROVE  VersionInv'
<1>t. /\ t \in Procs /\ t \notin Pool /\ Pool \subseteq Procs /\ Procs = Threads \cup Pool
      /\ todo \in [Procs -> Seq(Steps)] /\ req \in [Procs -> Request]
  BY PanelAssumption DEF FilesInv, TypeInv, Procs
<1>a. /\ todo[t] = <<>> /\ shown'.kind = "none"
      /\ file' = file /\ config' = config /\ causes' = causes /\ overlapped' = overlapped
  BY DEF Overview, ghosts
<1>b. /\ todo'[t] = View /\ \A p \in Pool : todo'[p] = <<"job">>
      /\ \A r \in Procs : r # t /\ r \notin Pool => todo'[r] = todo[r] /\ req'[r] = req[r]
  BY <1>t DEF Overview, View
<1>i. /\ \A p \in Pool : req'[p].content = "none"
      /\ req'[t].alone = \A r \in Threads : ~Configures(r)
  BY <1>t DEF Overview, Idle
<1>d. (\A p \in Pool : todo[p] = <<>>) /\ \A r \in Procs : ~Compares(r)
  <2>1. \A r \in Procs : ~Compares(r)
    BY <1>t, PanelAssumption DEF Overview, FilesInv, WaitInv
  <2> QED BY <2>1 DEF FilesInv, WaitInv
<1>c. /\ \A r \in Procs : r = t \/ r \in Pool => ~Configures(r)' /\ ~Saves(todo'[r]) /\ ~Using(r)' /\ ~Saves(todo[r])
      /\ \A r \in Procs : r # t => ~Compares(r)'
      /\ \A r \in Procs : r # t /\ r \notin Pool => (Configures(r)' <=> Configures(r)) /\ (Using(r)' <=> Using(r)) /\ StoreFor(r)' = StoreFor(r)
      /\ At(t, "join")' /\ \A p \in Pool : At(p, "job")'
  <2>1. Head(View) = "join" /\ Head(<<"job">>) = "job" /\ ~Saves(<<>>)
    BY DEF View, Saves
  <2>2. \A r \in Procs : r # t => ~Compares(r)'
    BY <1>b, <1>d, JobPlan DEF Compares, Comparing
  <2>3. \A r \in Procs : r = t \/ r \in Pool => ~Configures(r)' /\ ~Saves(todo'[r]) /\ ~Using(r)' /\ ~Saves(todo[r])
    BY <1>a, <1>b, <1>d, <2>1, ViewPlan, JobPlan DEF Configures, Configuring, Using, Uses, Writes
  <2>4. At(t, "join")' /\ \A p \in Pool : At(p, "job")'
    BY <1>b, <2>1, ViewPlan, JobPlan DEF At
  <2>5. \A r \in Procs : r # t /\ r \notin Pool => (Configures(r)' <=> Configures(r)) /\ (Using(r)' <=> Using(r)) /\ StoreFor(r)' = StoreFor(r)
    BY <1>b DEF Configures, Using, StoreFor
  <2> QED BY <2>2, <2>3, <2>4, <2>5
<1>1. AloneInv'
  <2>1. ASSUME NEW r \in Procs, NEW s \in Procs, r # s, Configures(r)', Configures(s)' PROVE ~req'[r].alone
    BY <1>b, <1>c, <2>1 DEF VersionInv, AloneInv
  <2>2. ASSUME NEW r \in Procs, NEW s \in Procs, Compares(r)', Configures(s)' PROVE ~req'[r].alone
    <3>1. r = t /\ s # t /\ s \notin Pool /\ Configures(s) /\ s \in Threads
      BY <1>c, <1>t, <2>2
    <3> QED BY <1>i, <3>1
  <2> QED BY <2>1, <2>2 DEF AloneInv
<1>2. StageInv'
  BY <1>a, <1>b, <1>c DEF VersionInv, StageInv, Changed
<1>3. TellInv'
  BY <1>a, <1>b, <1>c DEF VersionInv, TellInv, VersionsTellTheChange
<1>4. SyncInv'
  BY <1>a, <1>b, <1>c DEF VersionInv, SyncInv, Explained, Applied, Agrees, InSync
<1>5. ViewInv'
  <2>1. ~At(t, "show")'
    BY <1>c DEF At
  <2> QED BY <1>c, <1>i, <2>1 DEF ViewInv
<1>6. DriftHasACause'
  BY <1>a DEF DriftHasACause
<1> QED BY <1>1, <1>2, <1>3, <1>4, <1>5, <1>6 DEF VersionInv

LEMMA OutsideVersions ==
  ASSUME FilesInv, VersionInv, Outside
  PROVE  VersionInv'
<1>a. /\ todo' = todo /\ shown'.kind = "none" /\ file' = file /\ causes' # {}
  BY DEF Outside
<1>r. \A r \in Procs : /\ req'[r].copy = req[r].copy /\ req'[r].content = req[r].content /\ ~req'[r].alone
  BY DEF Outside, FilesInv, TypeInv, Request
<1>1. AloneInv' /\ StageInv'
  BY <1>r DEF AloneInv, StageInv
<1>3. TellInv'
  BY <1>a, <1>r DEF VersionInv, TellInv, VersionsTellTheChange, Using, StoreFor
<1>4. SyncInv'
  BY <1>a DEF SyncInv, Explained
<1>5. ViewInv'
  <2>1. Pool \subseteq Procs
    BY DEF Procs
  <2> QED BY <1>a, <1>r, <2>1 DEF VersionInv, ViewInv, Compares, At
<1>6. DriftHasACause'
  BY <1>a DEF DriftHasACause
<1> QED BY <1>1, <1>3, <1>4, <1>5, <1>6 DEF VersionInv

LEMMA NextVersions == FilesInv /\ VersionInv /\ [Next]_vars => VersionInv'
<1> SUFFICES ASSUME FilesInv, VersionInv, [Next]_vars PROVE VersionInv'
  OBVIOUS
<1>1. ASSUME NEW t \in Threads, Arrives(t) PROVE VersionInv'
  <2>1. CASE Plain(t) \/ Reconfigures(t)
    BY <2>1, ArrivesIs, ArriveVersions
  <2> QED BY <1>1, <2>1, ArrivesAs, OverviewVersions
<1>2. ASSUME NEW p \in Procs, Step(p) PROVE VersionInv'
  BY <1>2, StepAlones, StepStages, StepTells, StepSyncs, StepViews, StepDrifts DEF VersionInv
<1>3. CASE UNCHANGED vars
  BY <1>3 DEF vars, ghosts, VersionInv, AloneInv, StageInv, TellInv, SyncInv, ViewInv, DriftHasACause, VersionsTellTheChange,
              Configures, Compares, Using, StoreFor, At, Changed, Explained, Agrees, InSync, Applied
<1> QED BY <1>1, <1>2, <1>3, OutsideVersions DEF Next

\* A version tells what a change that nothing overlapped did, and configuration the
\* overview reports as not applied has a cause.
THEOREM Versioned == Spec => []VersionsExplainTheBot
<1>1. FilesInv => TypeOK
  <2> SUFFICES ASSUME FilesInv PROVE TypeOK
    OBVIOUS
  <2>1. \A p \in Procs : Len(todo[p]) <= 7 /\ req[p].n \in 0..MaxRequests
    BY DEF FilesInv, TypeInv, PlanInv, Planned, Request
  <2>2. file["state"] \in StateFile /\ Short(file["state"]) /\ file["auth"] \in AuthFile
    BY DEF FilesInv, TypeInv, Stores, Copies
  <2>3. /\ file["state"].items \in [Keys -> 0..MaxRequests] /\ file["auth"].tokens \in [1..MaxRequests -> {"none", "on", "off"}]
        /\ Len(file["state"].errors) <= ErrorLimit /\ Len(file["state"].versions) <= VersionLimit
    BY <2>2 DEF StateFile, AuthFile, Items, Tokens, Short
  <2> QED BY <2>1, <2>3 DEF TypeOK, FilesInv, TypeInv, Config, Stores
<1>2. FilesInv /\ VersionInv => VersionsExplainTheBot
  BY <1>1 DEF VersionsExplainTheBot, VersionInv, TellInv
<1>3. Init => FilesInv /\ VersionInv
  BY InitFiles, InitVersions
<1>4. FilesInv /\ VersionInv /\ [Next]_vars => (FilesInv /\ VersionInv)'
  BY NextFiles, NextVersions
<1> QED BY <1>2, <1>3, <1>4, PTL DEF Spec

(***************************************************************************)
(* The errors, step by step.                                               *)
(***************************************************************************)

OutageInv == NumberInv /\ ErrorsInv /\ OutagesAreShown

\* The entries of one number, when the list gets another entry.
LEMMA EntriesAre ==
  ASSUME NEW E \in Seq(Nat), Len(E) <= ErrorLimit, NEW m \in Nat, NEW n \in Nat
  PROVE  LET F == LastOf(Append(E, m), ErrorLimit)
         IN /\ IsFiniteSet(Entries(E, n))
            /\ Full(E) => Full(F)
            /\ ~Full(E) /\ m = n => Cardinality(Entries(F, n)) = Cardinality(Entries(E, n)) + 1
            /\ ~Full(E) /\ m # n => Entries(F, n) = Entries(E, n)
            /\ \A k : (\A i \in DOMAIN E : E[i] <= k) /\ m <= k => \A i \in DOMAIN F : F[i] <= k
<1> DEFINE G == Append(E, m)
           F == LastOf(G, ErrorLimit)
<1>1. ErrorLimit \in Nat \ {0}
  BY PanelAssumption
<1>2. /\ G \in Seq(Nat) /\ Len(G) = Len(E) + 1 /\ DOMAIN G = 1..(Len(E) + 1) /\ DOMAIN E = 1..Len(E) /\ Len(E) \in Nat
      /\ G[Len(E) + 1] = m /\ \A i \in 1..Len(E) : G[i] = E[i]
  OBVIOUS
<1> HIDE DEF G
<1>3. /\ F \in Seq(Nat) /\ Len(F) <= ErrorLimit /\ (Len(G) <= ErrorLimit => F = G)
      /\ Len(G) > ErrorLimit => /\ Len(F) = ErrorLimit
                                /\ \A i \in 1..ErrorLimit : F[i] = G[Len(G) - ErrorLimit + i]
  <2>1. G \in Seq(Nat)
    BY <1>2
  <2> QED BY ONLY <1>1, <2>1, LastIs, Zenon
<1> HIDE DEF F
<1>4. IsFiniteSet(Entries(E, n))
  <2>1. IsFiniteSet(1..Len(E))
    BY <1>2, FS_Interval
  <2>2. Entries(E, n) \subseteq 1..Len(E)
    BY <1>2 DEF Entries
  <2> QED BY <2>1, <2>2, FS_Subset
<1>5. Full(E) => Full(F)
  <2>1. Len(E) = ErrorLimit => Len(G) > ErrorLimit
    BY <1>1, <1>2
  <2> QED BY <1>3, <2>1 DEF Full
<1>6. ~Full(E) => F = G
  <2>1. Len(E) # ErrorLimit => Len(G) <= ErrorLimit
    <3>1. \A a, b \in Nat : a <= b /\ a # b => a + 1 <= b
      OBVIOUS
    <3> QED BY <1>1, <1>2, <3>1
  <2> QED BY <1>3, <2>1 DEF Full
<1>7. ASSUME m = n PROVE Cardinality(Entries(G, n)) = Cardinality(Entries(E, n)) + 1
  <2>1. Entries(G, n) = Entries(E, n) \cup {Len(E) + 1}
    BY <1>2, <1>7 DEF Entries
  <2>2. Len(E) + 1 \notin Entries(E, n)
    BY <1>2 DEF Entries
  <2> QED BY <1>4, <2>1, <2>2, FS_AddElement
<1>8. ASSUME m # n PROVE Entries(G, n) = Entries(E, n)
  BY <1>2, <1>8 DEF Entries
<1>9. ASSUME NEW k, \A i \in DOMAIN E : E[i] <= k, m <= k PROVE \A i \in DOMAIN F : F[i] <= k
  <2>1. \A i \in 1..(Len(E) + 1) : G[i] <= k
    BY <1>2, <1>9
  <2>2. CASE Len(G) <= ErrorLimit
    BY <1>2, <1>3, <2>1, <2>2
  <2>3. CASE Len(G) > ErrorLimit
    <3>1. DOMAIN F = 1..ErrorLimit
      BY <1>3, <2>3
    <3>2. \A i \in 1..ErrorLimit : Len(G) - ErrorLimit + i \in 1..(Len(E) + 1)
      BY <1>1, <1>2, <2>3
    <3> QED BY <1>3, <2>1, <2>3, <3>1, <3>2
  <2> QED BY <1>1, <1>2, <2>2, <2>3
<1> QED BY <1>4, <1>5, <1>6, <1>7, <1>8, <1>9 DEF F, G

\* The errors of the files and of what a thread read of them.
LEMMA ErrorsAre ==
  ASSUME FilesInv
  PROVE  /\ file["state"].errors \in Seq(Nat) /\ Len(file["state"].errors) <= ErrorLimit
         /\ \A p \in Procs : Using(p) /\ StoreFor(p) = "state" =>
              /\ req[p].copy.errors \in Seq(Nat) /\ Len(req[p].copy.errors) <= ErrorLimit
              /\ p \notin stale => req[p].copy.errors = file["state"].errors
         /\ ReadState(file["state"]).errors = file["state"].errors
         /\ \A p \in Procs : req[p].n \in Nat
         /\ served \in Nat
<1>1. file["state"] \in Copies("state")
  BY DEF FilesInv, TypeInv, Stores
<1>2. \A f \in Copies("state") : f.errors \in Seq(Nat) /\ Len(f.errors) <= ErrorLimit /\ ReadState(f).errors = f.errors
  BY ReadIs DEF Copies, StateFile, Short
<1>3. \A p \in Procs : Using(p) /\ StoreFor(p) = "state" =>
        req[p].copy \in Copies("state") /\ (p \notin stale => req[p].copy = ReadState(file["state"]))
  BY DEF FilesInv, CopyInv, ReadFile
<1>4. \A p \in Procs : req[p].n \in 0..MaxRequests
  BY DEF FilesInv, TypeInv, Request
<1>5. MaxRequests \in Nat /\ served \in 0..MaxRequests
  BY PanelAssumption DEF FilesInv, TypeInv
<1>6. \A p \in Procs : req[p].n \in Nat
  BY <1>4, <1>5
<1> QED BY <1>1, <1>2, <1>3, <1>5, <1>6

\* What every step writes to the errors.
LEMMA WritesAre ==
  ASSUME FilesInv, NEW p \in Procs, Step(p)
  PROVE  \/ ~At(p, "error") /\ file'["state"].errors = file["state"].errors
         \/ /\ At(p, "error") /\ file'["state"].errors = LastOf(Append(file["state"].errors, req[p].n), ErrorLimit)
         \/ /\ ~At(p, "error") /\ "state" \in overlapped' /\ Using(p) /\ StoreFor(p) = "state"
            /\ file'["state"].errors = req[p].copy.errors
<1>1. ASSUME NEW step \in Writes \cup {"error"}, At(p, step), Store(p, step), StoreOf(step) = "state"
      PROVE  /\ file'["state"] = Change(step, req[p], req[p].copy) /\ req[p].copy \in Copies("state") /\ req[p] \in Request
             /\ Using(p) /\ StoreFor(p) = "state" /\ (step = "version" => VersionOf(req[p]) \in Versions)
  BY <1>1, StoreIs, VersionIs DEF FilesInv, TypeInv
<1>2. CASE ErrorWrite(p)
  <2>1. At(p, "error") /\ Store(p, "error") /\ StoreOf("error") = "state"
    BY <1>2 DEF ErrorWrite, StoreOf
  <2>2. file'["state"].errors = LastOf(Append(req[p].copy.errors, req[p].n), ErrorLimit)
    BY <1>1, <2>1, ChangeIs
  <2>3. req[p].copy.errors = file["state"].errors
    BY <1>1, <2>1, ErrorsAre DEF FilesInv, CopyInv
  <2> QED BY <2>1, <2>2, <2>3
<1>3. ASSUME NEW step \in Writes, Write(p, step)
      PROVE  \/ ~At(p, "error") /\ file'["state"].errors = file["state"].errors
             \/ /\ ~At(p, "error") /\ "state" \in overlapped' /\ Using(p) /\ StoreFor(p) = "state"
                /\ file'["state"].errors = req[p].copy.errors
  <2>1. At(p, step) /\ step # "error" /\ ~At(p, "error")
    BY <1>3, Ats DEF Writes
  <2>2. CASE Store(p, step) /\ StoreOf(step) = "state"
    <3>1. file'["state"].errors = req[p].copy.errors /\ Using(p) /\ StoreFor(p) = "state"
      BY <1>1, <2>1, <2>2, ChangeIs
    <3>2. p \in stale => "state" \in overlapped'
      BY <2>1, <2>2 DEF Store
    <3> QED BY <2>1, <3>1, <3>2, ErrorsAre
  <2>3. CASE Store(p, step) /\ StoreOf(step) # "state"
    BY <2>1, <2>3, StoreIs DEF Stores
  <2>4. Store(p, step) \/ file' = file
    BY <1>3 DEF Write
  <2> QED BY <2>1, <2>2, <2>3, <2>4
<1>4. CASE Read(p) \/ ErrorRead(p) \/ Aside(p)
  <2>1. ~At(p, "error")
    BY <1>4, AsideIs, Ats
  <2> QED BY <1>4, <2>1, AsideIs DEF Read, ErrorRead
<1> QED BY <1>2, <1>3, <1>4, StepAs

LEMMA StepNumbers ==
  ASSUME FilesInv, NumberInv, NEW p \in Procs, Step(p)
  PROVE  NumberInv'
<1>1. /\ \A q \in Procs : req'[q].n = req[q].n /\ (todo'[q] # <<>> => todo[q] # <<>>) /\ (Compares(q)' => Compares(q))
      /\ served' = served /\ Threads \subseteq Procs /\ Pool \subseteq Procs
      /\ \A q \in Procs : q # p => todo'[q] = todo[q] /\ req'[q] = req[q]
  BY Follows DEF Procs, Compares
<1>2. Numbered(file'["state"].errors)
  <2>1. CASE At(p, "error") /\ file'["state"].errors = LastOf(Append(file["state"].errors, req[p].n), ErrorLimit)
    <3>1. req[p].n <= served /\ \A i \in DOMAIN file["state"].errors : file["state"].errors[i] <= served
      BY DEF NumberInv, Numbered
    <3> QED BY <2>1, <3>1, EntriesAre, ErrorsAre DEF Numbered
  <2>2. Numbered(file["state"].errors) /\ (Using(p) /\ StoreFor(p) = "state" => Numbered(req[p].copy.errors))
    BY DEF NumberInv
  <2> QED BY <2>1, <2>2, WritesAre DEF Numbered
<1>3. ASSUME NEW q \in Procs, Using(q)', StoreFor(q)' = "state" PROVE Numbered(req'[q].copy.errors)
  <2>1. CASE q # p
    <3>1. Using(q) /\ StoreFor(q) = "state"
      BY <1>1, <1>3, <2>1 DEF Using, StoreFor
    <3> QED BY <1>1, <2>1, <3>1 DEF NumberInv
  <2>2. CASE q = p
    <3>1. req'[p].copy.errors = file["state"].errors
      <4>1. todo'[p] # <<>> /\ todo'[p][1] \in Uses
        BY <1>3, <2>2, Follows, TailIs DEF Using
      <4>2. CASE At(p, "read")
        BY <1>3, <2>2, <4>2, Acts, ReadingIs, ErrorsAre DEF ReadFile
      <4>3. CASE At(p, "log")
        <5>1. req' = [req EXCEPT ![p].copy = ReadState(file["state"])]
          BY <4>3, Acts DEF ErrorRead
        <5>2. req'[p].copy = ReadState(file["state"])
          BY <5>1 DEF FilesInv, TypeInv, Request
        <5> QED BY <5>2, ErrorsAre
      <4> QED BY <4>1, <4>2, <4>3, Follows
    <3> QED BY <2>2, <3>1 DEF NumberInv
  <2> QED BY <2>1, <2>2
<1>4. \A q \in Procs : req'[q].n <= served'
  BY <1>1 DEF NumberInv
<1>5. \A t, r \in Threads : t # r /\ todo'[t] # <<>> /\ todo'[r] # <<>> => req'[t].n # req'[r].n
  BY <1>1 DEF NumberInv
<1>6. \A t \in Procs, q \in Pool : Compares(t)' => req'[q].n = req'[t].n
  BY <1>1 DEF NumberInv
<1> QED BY <1>1, <1>2, <1>3, <1>4, <1>5, <1>6 DEF NumberInv, Numbered

\* An overview waits, reads or shows.
LEMMA Looks ==
  ASSUME FilesInv, NEW p \in Procs, Compares(p)
  PROVE  ~At(p, "log") /\ ~At(p, "error")
<1> DEFINE s == todo[p]
<1>1. s \in Seq(Steps) /\ s # <<>> /\ Planned(s) /\ Len(s) \in 1..Len(s) /\ s[Len(s)] = "show" /\ Head(s) = s[1]
  BY TailIs DEF Compares, Last, FilesInv, TypeInv, PlanInv
<1>2. Views(s)
  BY <1>1 DEF Planned
<1>3. Len(s) \in 1..3 /\ s[1] = View[3 - Len(s) + 1]
  <2>1. \A n \in 1..3 : 1 \in 1..n
    OBVIOUS
  <2>2. Len(s) \in 1..3 /\ \A i \in 1..Len(s) : s[i] = View[3 - Len(s) + i]
    BY <1>2 DEF Views
  <2> HIDE DEF s
  <2> QED BY ONLY <2>1, <2>2
<1>4. \A n \in 1..3 : View[3 - n + 1] \in {"join", "read", "show"}
  BY DEF View
<1> QED BY <1>1, <1>3, <1>4 DEF At

LEMMA TailOfOne == \A s \in {<<"job">>, <<"log">>, <<"error">>} : Tail(s) = <<>>
<1>1. ASSUME NEW s \in {<<"job">>, <<"log">>, <<"error">>} PROVE Tail(s) = <<>>
  <2>1. s \in Seq(Steps) /\ Len(s) = 1
    BY DEF Steps, Uses
  <2>2. Tail(s) \in Seq(Steps) /\ Len(Tail(s)) = 0
    BY <2>1, TailIs
  <2> QED BY ONLY <2>2, EmptySeq, Zenon
<1> QED BY <1>1

\* A job fails once, then records it.
LEMMA PoolSteps ==
  ASSUME FilesInv, NEW p \in Pool, Step(p)
  PROVE  /\ At(p, "error") => todo'[p] = <<>> /\ req'[p].content = req[p].content
         /\ At(p, "log") => todo'[p] = <<"error">> /\ req'[p].content = req[p].content
         /\ At(p, "job") => \/ todo'[p] = <<>> /\ req'[p].content = req[p].content
                            \/ todo'[p] = <<"log">> /\ req'[p].content = "failed"
         /\ At(p, "error") \/ At(p, "log") \/ At(p, "job")
<1>t. p \in Procs /\ todo \in [Procs -> Seq(Steps)] /\ req \in [Procs -> Request]
  BY DEF Procs, FilesInv, TypeInv
<1>1. todo[p] \in {<<"job">>, <<"log">>, <<"error">>}
  BY <1>t, Follows DEF FilesInv, PlanInv
<1>2. Tail(todo[p]) = <<>>
  BY ONLY <1>1, TailOfOne
<1>3. <<"log">> \o <<>> = <<"log">> /\ <<"error">> \o <<>> = <<"error">>
  <2>1. <<"log">> \in Seq(Steps) /\ <<"error">> \in Seq(Steps)
    BY DEF Steps, Uses
  <2> QED BY <2>1, ConcatEmptySeq
<1>4. At(p, "error") \/ At(p, "log") \/ At(p, "job")
  BY <1>1 DEF At
<1>5. ~At(p, "find") /\ (At(p, "error") \/ At(p, "log") => ~At(p, "job"))
  BY <1>1 DEF At
<1>6. At(p, "error") \/ At(p, "log") => req'[p].content = req[p].content
  BY <1>t, <1>5, Kept DEF FilesInv, Keeps
<1>7. At(p, "error") => todo'[p] = <<>>
  BY <1>t, <1>2, Acts DEF ErrorWrite, Goes, Rest
<1>8. At(p, "log") => todo'[p] = <<"error">>
  BY <1>t, <1>2, <1>3, Acts DEF ErrorRead, Goes, Rest
<1>9. ASSUME At(p, "job")
      PROVE  \/ todo'[p] = <<>> /\ req'[p].content = req[p].content
             \/ todo'[p] = <<"log">> /\ req'[p].content = "failed"
  <2>1. Job(p) /\ req[p] \in Request
    BY <1>t, <1>9, Acts
  <2>2. CASE Goes(p, Rest(p)) /\ req' = [req EXCEPT ![p].after = config]
    BY <1>t, <1>2, <2>1, <2>2 DEF Goes, Rest, Request
  <2>3. CASE Fails(p, Rest(p)) /\ req' = [req EXCEPT ![p].content = "failed"]
    BY <1>t, <1>2, <1>3, <2>1, <2>3 DEF Fails, Goes, Rest, Request
  <2> QED BY <2>1, <2>2, <2>3 DEF Job
<1> QED BY <1>4, <1>6, <1>7, <1>8, <1>9

LEMMA StepErrors ==
  ASSUME FilesInv, ViewInv, NumberInv, ErrorsInv, NEW p \in Procs, Step(p)
  PROVE  ErrorsInv'
<1>1. /\ \A q \in Procs : q # p => req'[q] = req[q] /\ todo'[q] = todo[q] /\ \A x : At(q, x)' <=> At(q, x)
      /\ req'[p].n = req[p].n /\ Pool \subseteq Procs /\ todo[p] # <<>>
  BY Follows DEF At, Procs
<1>2. ASSUME NEW q \in Pool, At(q, "log")' \/ At(q, "error")' PROVE req'[q].content = "failed"
  <2>1. CASE q # p
    BY <1>1, <1>2, <2>1 DEF ErrorsInv
  <2>2. CASE q = p
    <3>1. todo'[q] # <<>>
      BY <1>2 DEF At
    <3> QED BY <2>2, <3>1, PoolSteps DEF ErrorsInv
  <2> QED BY <2>1, <2>2
<1>3. ASSUME NEW t \in Procs, Compares(t)', "state" \notin overlapped'
      PROVE  /\ Full(file["state"].errors)' \/ Cardinality(Entries(file["state"].errors, req[t].n))' = Cardinality(Logged)'
             /\ At(t, "show")' => Full(req[t].copy.errors)' \/ Cardinality(Entries(req[t].copy.errors, req[t].n))' = Cardinality(Failed)'
  <2> DEFINE E == file["state"].errors
             n == req[t].n
  <2>1. /\ Compares(t) /\ t \in Threads /\ t \notin Pool /\ "state" \notin overlapped /\ req'[t].n = n
        /\ todo[t] # <<>> /\ ~At(t, "error")
    BY <1>1, <1>3, Follows, Grows, Looks, PanelAssumption DEF FilesInv, WaitInv, Compares
  <2>2. Full(E) \/ Cardinality(Entries(E, n)) = Cardinality(Logged)
    BY <2>1 DEF ErrorsInv
  <2>3. \/ ~At(p, "error") /\ E' = E
        \/ At(p, "error") /\ E' = LastOf(Append(E, req[p].n), ErrorLimit)
    BY <1>3, WritesAre
  <2>4. E \in Seq(Nat) /\ Len(E) <= ErrorLimit /\ n \in Nat /\ req[p].n \in Nat
    BY ErrorsAre
  <2>f. IsFiniteSet(Logged)
    BY PanelAssumption, FS_Subset DEF Logged, Failed
  <2>5. ~At(p, "error") \/ p \notin Pool => Logged' = Logged
    <3>1. ASSUME p \in Pool, ~At(p, "error") PROVE ~(req'[p].content = "failed" /\ todo'[p] = <<>>)
      <4>1. At(p, "job") => req[p].content # "failed"
        BY <2>1, <3>1 DEF ViewInv
      <4>2. <<"log">> # <<>> /\ <<"error">> # <<>>
        OBVIOUS
      <4> QED BY <3>1, <4>1, <4>2, PoolSteps
    <3> QED BY <1>1, <3>1 DEF Logged, Failed
  <2>6. ASSUME At(p, "error") PROVE Full(E') \/ Cardinality(Entries(E', n)) = Cardinality(Logged')
    <3>1. CASE p \in Pool
      <4>1. req[p].n = n /\ req[p].content = "failed"
        BY <2>1, <2>6, <3>1 DEF NumberInv, ErrorsInv
      <4>2. Logged' = Logged \cup {p} /\ p \notin Logged
        <5>1. todo'[p] = <<>> /\ req'[p].content = "failed"
          BY <2>6, <3>1, <4>1, PoolSteps
        <5> QED BY <1>1, <3>1, <5>1 DEF Logged, Failed
      <4>3. Cardinality(Logged') = Cardinality(Logged) + 1
        BY <2>f, <4>2, FS_AddElement
      <4> QED BY <2>2, <2>3, <2>4, <2>6, <4>1, <4>3, EntriesAre
    <3>2. CASE p \notin Pool
      <4>1. p \in Threads /\ p # t
        BY <2>1, <2>6, <3>2 DEF Procs
      <4>2. req[p].n # n
        BY <1>1, <2>1, <4>1 DEF NumberInv
      <4> QED BY <2>2, <2>3, <2>4, <2>5, <2>6, <3>2, <4>2, EntriesAre
    <3> QED BY <3>1, <3>2
  <2>7. Full(E)' \/ Cardinality(Entries(E, n))' = Cardinality(Logged)'
    BY <2>1, <2>2, <2>3, <2>5, <2>6 DEF Full
  <2>8. ASSUME At(t, "show")' PROVE Full(req[t].copy.errors)' \/ Cardinality(Entries(req[t].copy.errors, n))' = Cardinality(Failed)'
    <3>1. ~At(t, "join") => Logged = Failed /\ p \notin Pool
      <4>1. ~At(t, "join") => \A q \in Pool : todo[q] = <<>>
        BY <2>1 DEF FilesInv, WaitInv
      <4> QED BY <1>1, <4>1 DEF Logged, Failed
    <3>2. p \notin Pool => Failed' = Failed
      BY <1>1 DEF Failed
    <3>3. CASE t # p
      <4>1. At(t, "show") /\ ~At(t, "join")
        BY <1>1, <2>8, <3>3, Shows
      <4>2. Full(req[t].copy.errors) \/ Cardinality(Entries(req[t].copy.errors, n)) = Cardinality(Failed)
        BY <2>1, <4>1 DEF ErrorsInv
      <4> QED BY <1>1, <3>1, <3>2, <3>3, <4>1, <4>2 DEF Full
    <3>4. CASE t = p
      <4>1. Using(p)' /\ StoreFor(p)' = "state" /\ todo'[p][1] = "show" /\ todo'[p] # <<>>
        <5>1. todo'[p] # <<>> => Head(todo'[p]) = todo'[p][1]
          BY TailIs, Follows
        <5> QED BY <2>8, <3>4, <5>1 DEF Using, StoreFor, StoreOf, At, Uses
      <4>2. At(p, "read")
        BY <4>1, Follows DEF Uses
      <4>3. req'[p].copy.errors = E
        BY <4>1, <4>2, Acts, ReadingIs, ErrorsAre DEF ReadFile
      <4>4. Logged = Failed /\ Failed' = Failed
        <5>1. ~At(t, "join")
          BY <3>4, <4>2, Ats
        <5> QED BY <3>1, <3>2, <5>1
      <4> QED BY <2>1, <2>2, <3>4, <4>3, <4>4 DEF Full
    <3> QED BY <3>3, <3>4
  <2> QED BY <2>7, <2>8
<1> QED BY <1>2, <1>3 DEF ErrorsInv

LEMMA StepOutages ==
  ASSUME FilesInv, ErrorsInv, OutagesAreShown, NEW p \in Procs, Step(p)
  PROVE  OutagesAreShown'
<1>1. CASE ~At(p, "show")
  BY <1>1, Grows DEF OutagesAreShown, Entries
<1>2. CASE At(p, "show")
  <2> DEFINE answered == {q \in Pool : req[q].content # "failed"}
             versions == req[p].copy.versions
             applied == \A q \in answered : InSync(req[q].after, versions)
             legacy == versions # <<>> /\ Last(versions).kind = "model"
             failed == Cardinality(Pool \ answered)
  <2>s. /\ shown' = [kind |-> "overview", number |-> req[p].n, alone |-> req[p].alone, applied |-> applied,
                     legacy |-> legacy, failed |-> failed, errors |-> req[p].copy.errors]
        /\ overlapped' = overlapped
    BY <1>2, Acts DEF Show, ghosts
  <2>1. failed = Cardinality(Failed)
    <3>1. Pool \ answered = Failed
      BY DEF Failed
    <3> QED BY <3>1
  <2> HIDE DEF applied, legacy, failed
  <2>2. shown'.number = req[p].n /\ shown'.errors = req[p].copy.errors /\ shown'.failed = failed
    BY <2>s
  <2>3. Compares(p)
    BY <1>2, Shows
  <2>4. "state" \notin overlapped => Full(req[p].copy.errors) \/ Cardinality(Entries(req[p].copy.errors, req[p].n)) = failed
    BY <1>2, <2>1, <2>3 DEF ErrorsInv
  <2>5. "state" \notin overlapped' => Full(shown'.errors) \/ Cardinality(Entries(shown'.errors, shown'.number)) = shown'.failed
    BY <2>s, <2>2, <2>4
  <2> QED BY <2>5 DEF OutagesAreShown, Full, Entries
<1> QED BY <1>1, <1>2

LEMMA InitOutages == Init => OutageInv
<1> SUFFICES ASSUME Init PROVE OutageInv
  OBVIOUS
<1>1. /\ todo = [p \in Procs |-> <<>>] /\ req = [p \in Procs |-> Idle] /\ served = 0 /\ shown.kind = "none"
      /\ file["state"].errors = <<>> /\ Pool \subseteq Procs
  BY DEF Init, Procs
<1>2. \A p \in Procs : todo[p] = <<>> /\ req[p].n = 0
  BY <1>1 DEF Idle
<1>3. Numbered(file["state"].errors)
  BY <1>1 DEF Numbered
<1>4. NumberInv
  BY <1>1, <1>2, <1>3 DEF NumberInv, Using, Compares, Procs
<1>5. ErrorsInv
  BY <1>1, <1>2 DEF ErrorsInv, Compares, At
<1>6. OutagesAreShown
  BY <1>1 DEF OutagesAreShown
<1> QED BY <1>4, <1>5, <1>6 DEF OutageInv

\* A request that begins has a number of its own and leaves the errors alone.
LEMMA ArriveOutages ==
  ASSUME FilesInv, OutageInv, NEW t \in Threads, NEW q \in Request, NEW plan \in Seq(Steps), Arrived(t, q, plan),
         plan # <<>>, ~Comparing(plan), plan[1] \in {"read", "call", "send", "clear", "before", "forward"}
  PROVE  OutageInv'
<1>t. /\ t \in Procs /\ t \notin Pool /\ Pool \subseteq Procs /\ todo \in [Procs -> Seq(Steps)] /\ req \in [Procs -> Request]
      /\ Threads \subseteq Procs
  BY PanelAssumption DEF FilesInv, TypeInv, Procs
<1>a. /\ todo' = [todo EXCEPT ![t] = plan] /\ shown'.kind = "none" /\ served' = served + 1
      /\ file' = file /\ overlapped' = overlapped /\ req' \in [Procs -> Request]
  BY DEF Arrived, ghosts
<1>b. todo'[t] = plan /\ \A r \in Procs : r # t => todo'[r] = todo[r]
  BY <1>a, <1>t
<1>r. \A r \in Procs : r # t => req'[r].copy = req[r].copy /\ req'[r].content = req[r].content /\ req'[r].n = req[r].n
  <2>1. \A r \in Procs : r # t => AloneOnly(req[r], req'[r]) /\ req[r] \in Request /\ req'[r] \in Request
    BY <1>t, <1>a DEF Arrived
  <2> QED BY <2>1, SameBut
<1>n. req'[t].n = served + 1
  <2>1. AloneOnly([q EXCEPT !.n = served + 1], req'[t]) /\ req'[t] \in Request
    BY <1>a, <1>t DEF Arrived
  <2> QED BY <2>1 DEF AloneOnly, Request
<1>c. /\ ~Compares(t)' /\ ~Using(t)' /\ \A r \in Procs : r # t => (Compares(r)' <=> Compares(r)) /\ \A x : At(r, x)' <=> At(r, x)
      /\ \A r \in Procs : r # t => (Using(r)' <=> Using(r)) /\ StoreFor(r)' = StoreFor(r)
  <2>1. Head(plan) = plan[1]
    BY TailIs
  <2> QED BY <1>b, <2>1 DEF Compares, Comparing, At, Using, StoreFor, Uses, Writes
<1>s. served \in Nat /\ (\A r \in Procs : req[r].n \in Nat /\ req[r].n <= served) /\ Numbered(file["state"].errors)
  BY ErrorsAre DEF OutageInv, NumberInv
<1>e. \A E \in Seq(Nat) : Numbered(E) => \A i \in DOMAIN E : E[i] <= served + 1
  BY <1>s DEF Numbered
<1>1. NumberInv'
  <2>1. \A r \in Procs : req'[r].n <= served'
    BY <1>a, <1>n, <1>r, <1>s
  <2>2. \A r, u \in Threads : r # u /\ todo'[r] # <<>> /\ todo'[u] # <<>> => req'[r].n # req'[u].n
    <3>1. \A r \in Procs : req[r].n # served + 1
      BY <1>s
    <3> QED BY <1>b, <1>n, <1>r, <1>t, <3>1 DEF OutageInv, NumberInv
  <2>3. \A r \in Procs, p \in Pool : Compares(r)' => req'[p].n = req'[r].n
    BY <1>c, <1>r, <1>t DEF OutageInv, NumberInv
  <2>4. Numbered(file["state"].errors)'
    BY <1>a, <1>e, <1>s, ErrorsAre DEF Numbered
  <2>5. \A r \in Procs : Using(r)' /\ StoreFor(r)' = "state" => Numbered(req[r].copy.errors)'
    <3>1. ASSUME NEW r \in Procs, Using(r)', StoreFor(r)' = "state" PROVE Numbered(req[r].copy.errors)'
      <4>1. r # t /\ Using(r) /\ StoreFor(r) = "state" /\ req'[r].copy = req[r].copy
        BY <1>c, <1>r, <3>1
      <4>2. req[r].copy.errors \in Seq(Nat) /\ Numbered(req[r].copy.errors)
        BY <4>1, ErrorsAre DEF OutageInv, NumberInv
      <4> QED BY <1>a, <1>e, <4>1, <4>2 DEF Numbered
    <3> QED BY <3>1
  <2> QED BY <2>1, <2>2, <2>3, <2>4, <2>5 DEF NumberInv
<1>2. ErrorsInv'
  <2>1. Failed' = Failed /\ Logged' = Logged
    BY <1>b, <1>r, <1>t DEF Failed, Logged
  <2>2. \A p \in Pool : At(p, "log")' \/ At(p, "error")' => req'[p].content = "failed"
    BY <1>c, <1>r, <1>t DEF OutageInv, ErrorsInv
  <2>3. ASSUME NEW r \in Procs, Compares(r)', "state" \notin overlapped'
        PROVE  /\ Full(file["state"].errors)' \/ Cardinality(Entries(file["state"].errors, req[r].n))' = Cardinality(Logged)'
               /\ At(r, "show")' => Full(req[r].copy.errors)' \/ Cardinality(Entries(req[r].copy.errors, req[r].n))' = Cardinality(Failed)'
    <3>1. r # t /\ Compares(r) /\ "state" \notin overlapped /\ (At(r, "show")' <=> At(r, "show"))
      BY <1>a, <1>c, <2>3
    <3>2. /\ Full(file["state"].errors) \/ Cardinality(Entries(file["state"].errors, req[r].n)) = Cardinality(Logged)
          /\ At(r, "show") => Full(req[r].copy.errors) \/ Cardinality(Entries(req[r].copy.errors, req[r].n)) = Cardinality(Failed)
      BY <3>1 DEF OutageInv, ErrorsInv
    <3>3. req'[r].n = req[r].n /\ req'[r].copy = req[r].copy /\ file' = file
      BY <1>a, <1>r, <3>1
    <3> QED BY ONLY <2>1, <3>1, <3>2, <3>3 DEF Full
  <2> QED BY <2>2, <2>3 DEF ErrorsInv
<1>3. OutagesAreShown'
  BY <1>a DEF OutagesAreShown
<1> QED BY <1>1, <1>2, <1>3 DEF OutageInv

LEMMA OverviewOutages ==
  ASSUME FilesInv, OutageInv, NEW t \in Threads, Overview(t)
  PROVE  OutageInv'
<1>t. /\ t \in Procs /\ t \notin Pool /\ Pool \subseteq Procs /\ Procs = Threads \cup Pool /\ Threads \subseteq Procs
      /\ Threads \cap Pool = {} /\ todo \in [Procs -> Seq(Steps)] /\ req \in [Procs -> Request]
  BY PanelAssumption DEF FilesInv, TypeInv, Procs
<1>a. /\ shown'.kind = "none" /\ served' = served + 1 /\ file' = file /\ overlapped' = overlapped
  BY DEF Overview, ghosts
<1>b. /\ todo'[t] = View /\ \A p \in Pool : todo'[p] = <<"job">>
      /\ \A r \in Procs : r # t /\ r \notin Pool => todo'[r] = todo[r] /\ req'[r] = req[r]
  BY <1>t DEF Overview, View
<1>i. /\ req'[t].n = served + 1 /\ \A p \in Pool : req'[p].n = served + 1 /\ req'[p].content = "none"
  BY <1>t DEF Overview, Idle
<1>d. \A r \in Procs : ~Compares(r)
  BY <1>t DEF Overview, FilesInv, WaitInv
<1>c. /\ \A r \in Procs : r # t => ~Compares(r)'
      /\ \A r \in Procs : r = t \/ r \in Pool => ~Using(r)'
      /\ \A r \in Procs : r # t /\ r \notin Pool => (Using(r)' <=> Using(r)) /\ StoreFor(r)' = StoreFor(r)
      /\ ~At(t, "show")' /\ \A p \in Pool : ~At(p, "log")' /\ ~At(p, "error")'
  <2>1. Head(View) = "join" /\ Head(<<"job">>) = "job"
    BY DEF View
  <2>2. \A r \in Procs : r # t => ~Compares(r)'
    BY <1>b, <1>d, JobPlan DEF Compares, Comparing
  <2>3. \A r \in Procs : r = t \/ r \in Pool => ~Using(r)'
    BY <1>b, <2>1 DEF Using, Uses, Writes
  <2>4. \A r \in Procs : r # t /\ r \notin Pool => (Using(r)' <=> Using(r)) /\ StoreFor(r)' = StoreFor(r)
    BY <1>b DEF Using, StoreFor
  <2>5. ~At(t, "show")' /\ \A p \in Pool : ~At(p, "log")' /\ ~At(p, "error")'
    BY <1>b, <2>1 DEF At
  <2> QED BY <2>2, <2>3, <2>4, <2>5
<1>s. served \in Nat /\ (\A r \in Procs : req[r].n \in Nat /\ req[r].n <= served) /\ Numbered(file["state"].errors)
  BY ErrorsAre DEF OutageInv, NumberInv
<1>e. \A E \in Seq(Nat) : Numbered(E) => \A i \in DOMAIN E : E[i] <= served + 1 /\ E[i] # served + 1
  BY <1>s DEF Numbered
<1>1. NumberInv'
  <2>1. \A r \in Procs : req'[r].n <= served'
    BY <1>a, <1>b, <1>i, <1>s
  <2>2. \A r, u \in Threads : r # u /\ todo'[r] # <<>> /\ todo'[u] # <<>> => req'[r].n # req'[u].n
    <3>1. \A r \in Procs : req[r].n # served + 1
      BY <1>s
    <3>2. \A r \in Threads : r \in Procs /\ r \notin Pool
      BY <1>t
    <3> QED BY <1>b, <1>i, <3>1, <3>2 DEF OutageInv, NumberInv
  <2>3. \A r \in Procs, p \in Pool : Compares(r)' => req'[p].n = req'[r].n
    BY <1>c, <1>i
  <2>4. Numbered(file["state"].errors)'
    BY <1>a, <1>e, <1>s, ErrorsAre DEF Numbered
  <2>5. \A r \in Procs : Using(r)' /\ StoreFor(r)' = "state" => Numbered(req[r].copy.errors)'
    <3>1. ASSUME NEW r \in Procs, Using(r)', StoreFor(r)' = "state" PROVE Numbered(req[r].copy.errors)'
      <4>1. Using(r) /\ StoreFor(r) = "state" /\ req'[r] = req[r]
        BY <1>b, <1>c, <3>1
      <4>2. req[r].copy.errors \in Seq(Nat) /\ Numbered(req[r].copy.errors)
        BY <4>1, ErrorsAre DEF OutageInv, NumberInv
      <4> QED BY <1>a, <1>e, <4>1, <4>2 DEF Numbered
    <3> QED BY <3>1
  <2> QED BY <2>1, <2>2, <2>3, <2>4, <2>5 DEF NumberInv
<1>2. ErrorsInv'
  <2>1. Failed' = {} /\ Logged' = {}
    BY <1>i DEF Failed, Logged
  <2>2. Entries(file["state"].errors, served + 1) = {}
    BY <1>e, <1>s, ErrorsAre DEF Entries
  <2>3. (Cardinality(Entries(file["state"].errors, req[t].n)) = Cardinality(Logged))'
    BY <1>a, <1>i, <2>1, <2>2
  <2> QED BY <1>c, <2>3 DEF ErrorsInv
<1>3. OutagesAreShown'
  BY <1>a DEF OutagesAreShown
<1> QED BY <1>1, <1>2, <1>3 DEF OutageInv

LEMMA OutsideOutages ==
  ASSUME FilesInv, OutageInv, Outside
  PROVE  OutageInv'
<1>a. /\ todo' = todo /\ shown'.kind = "none" /\ file' = file /\ overlapped' = overlapped /\ served' = served + 1
  BY DEF Outside
<1>r. \A r \in Procs : req'[r].copy = req[r].copy /\ req'[r].content = req[r].content /\ req'[r].n = req[r].n
  BY DEF Outside, FilesInv, TypeInv, Request
<1>p. Pool \subseteq Procs /\ Threads \subseteq Procs
  BY DEF Procs
<1>s. served \in Nat /\ (\A r \in Procs : req[r].n \in Nat /\ req[r].n <= served) /\ Numbered(file["state"].errors)
  BY ErrorsAre DEF OutageInv, NumberInv
<1>e. \A E \in Seq(Nat) : Numbered(E) => \A i \in DOMAIN E : E[i] <= served + 1
  BY <1>s DEF Numbered
<1>1. NumberInv'
  <2>1. \A r \in Procs : req'[r].n <= served'
    BY <1>a, <1>r, <1>s
  <2>2. \A r, u \in Threads : r # u /\ todo'[r] # <<>> /\ todo'[u] # <<>> => req'[r].n # req'[u].n
    BY <1>a, <1>p, <1>r DEF OutageInv, NumberInv
  <2>3. \A r \in Procs, p \in Pool : Compares(r)' => req'[p].n = req'[r].n
    BY <1>a, <1>p, <1>r DEF OutageInv, NumberInv, Compares
  <2>4. Numbered(file["state"].errors)'
    BY <1>a, <1>e, <1>s, ErrorsAre DEF Numbered
  <2>5. ASSUME NEW r \in Procs, Using(r)', StoreFor(r)' = "state" PROVE Numbered(req[r].copy.errors)'
    <3>1. Using(r) /\ StoreFor(r) = "state" /\ req'[r].copy = req[r].copy
      BY <1>a, <1>r, <2>5 DEF Using, StoreFor
    <3>2. req[r].copy.errors \in Seq(Nat) /\ Numbered(req[r].copy.errors)
      BY <3>1, ErrorsAre DEF OutageInv, NumberInv
    <3> QED BY <1>a, <1>e, <3>1, <3>2 DEF Numbered
  <2> QED BY <2>1, <2>2, <2>3, <2>4, <2>5 DEF NumberInv
<1>2. ErrorsInv'
  <2>1. Failed' = Failed /\ Logged' = Logged
    BY <1>a, <1>p, <1>r DEF Failed, Logged
  <2>2. \A p \in Pool : At(p, "log")' \/ At(p, "error")' => req'[p].content = "failed"
    BY <1>a, <1>p, <1>r DEF OutageInv, ErrorsInv, At
  <2>3. ASSUME NEW r \in Procs, Compares(r)', "state" \notin overlapped'
        PROVE  /\ Full(file["state"].errors)' \/ Cardinality(Entries(file["state"].errors, req[r].n))' = Cardinality(Logged)'
               /\ At(r, "show")' => Full(req[r].copy.errors)' \/ Cardinality(Entries(req[r].copy.errors, req[r].n))' = Cardinality(Failed)'
    <3>1. Compares(r) /\ "state" \notin overlapped /\ (At(r, "show")' <=> At(r, "show"))
      BY <1>a, <2>3 DEF Compares, At
    <3>2. /\ Full(file["state"].errors) \/ Cardinality(Entries(file["state"].errors, req[r].n)) = Cardinality(Logged)
          /\ At(r, "show") => Full(req[r].copy.errors) \/ Cardinality(Entries(req[r].copy.errors, req[r].n)) = Cardinality(Failed)
      BY <3>1 DEF OutageInv, ErrorsInv
    <3>3. req'[r].n = req[r].n /\ req'[r].copy = req[r].copy /\ file' = file
      BY <1>a, <1>r
    <3> QED BY ONLY <2>1, <3>1, <3>2, <3>3 DEF Full
  <2> QED BY <2>2, <2>3 DEF ErrorsInv
<1>3. OutagesAreShown'
  BY <1>a DEF OutagesAreShown
<1> QED BY <1>1, <1>2, <1>3 DEF OutageInv

LEMMA NextOutages == FilesInv /\ VersionInv /\ OutageInv /\ [Next]_vars => OutageInv'
<1> SUFFICES ASSUME FilesInv, VersionInv, OutageInv, [Next]_vars PROVE OutageInv'
  OBVIOUS
<1>1. ASSUME NEW t \in Threads, Arrives(t) PROVE OutageInv'
  <2>1. CASE Plain(t) \/ Reconfigures(t)
    BY <2>1, ArrivesIs, ArriveOutages
  <2> QED BY <1>1, <2>1, ArrivesAs, OverviewOutages
<1>2. ASSUME NEW p \in Procs, Step(p) PROVE OutageInv'
  BY <1>2, StepNumbers, StepErrors, StepOutages DEF VersionInv, OutageInv
<1>3. CASE UNCHANGED vars
  <2>1. UNCHANGED <<todo, req, file, served, shown, overlapped>>
    BY <1>3 DEF vars, ghosts
  <2> QED BY <2>1 DEF OutageInv, NumberInv, ErrorsInv, OutagesAreShown, Numbered, Failed, Logged, Full, Entries, Compares,
                      Using, StoreFor, At
<1> QED BY <1>1, <1>2, <1>3, OutsideOutages DEF Next

\* The errors an overview shows hold one for every job of it that failed, unless newer
\* ones filled the list, whatever else was recorded meanwhile.
THEOREM Outages == Spec => []OutagesAreShown
<1>1. OutageInv => OutagesAreShown
  BY DEF OutageInv
<1>2. Init => FilesInv /\ VersionInv /\ OutageInv
  BY InitFiles, InitVersions, InitOutages
<1>3. FilesInv /\ VersionInv /\ OutageInv /\ [Next]_vars => (FilesInv /\ VersionInv /\ OutageInv)'
  BY NextFiles, NextVersions, NextOutages
<1> QED BY <1>1, <1>2, <1>3, PTL DEF Spec
(***************************************************************************)
(* The life of the process: the replies owed after a restart, and the      *)
(* reason of its end.                                                      *)
(***************************************************************************)

\* Rows that wait for their reply are in the table, each under a key of its own; a
\* reply is out only while the others wait.
RowsInv ==
  /\ \A q, r \in Restarts : actions[q] # None /\ actions[q] = actions[r] => q = r
  /\ \A r \in Restarts : actions[r] # None => asked[r] # "no"
  /\ \A r \in owed : actions[r] # None
  /\ phase # "replying" => owed = {} /\ replied = None
  /\ replied # None => replied \in owed

\* The reason that the waiter sees, has in its hands, or has handed on, is the first.
ReasonInv ==
  /\ waiter = "waiting" => exitRequest = first /\ result = None
  /\ waiter \in Process!Reasons => waiter = first
  /\ waiter = "done" => result = first /\ result # None
  /\ done = "waiter" => waiter = "done"

RepliesInv == Process!TypeOK /\ RowsInv /\ Process!AnsweredOnce /\ ReasonInv

LEMMA InitReplies == Process!Init => RepliesInv
<1> SUFFICES ASSUME Process!Init PROVE RepliesInv
  OBVIOUS
<1> USE OperationAssumption DEF Process!LifecycleAssumption
<1>1. Process!TypeOK
  BY DEF Process!Init, Process!Fresh, Process!TypeOK
<1>2. RowsInv
  BY DEF Process!Init, RowsInv
<1>3. Process!AnsweredOnce
  BY DEF Process!Init, Process!AnsweredOnce
<1>4. ReasonInv
  BY DEF Process!Init, Process!Fresh, ReasonInv, Process!Reasons
<1> QED BY <1>1, <1>2, <1>3, <1>4 DEF RepliesInv

(***************************************************************************)
(* The replies that are owed.                                              *)
(***************************************************************************)

\* The other rows keep their keys when one is deleted.
LEMMA ForgottenIsOne ==
  ASSUME Process!TypeOK, RowsInv, NEW q \in Restarts, actions[q] # None
  PROVE  Process!Forgotten(actions[q]) = [actions EXCEPT ![q] = None]
BY DEF Process!TypeOK, RowsInv, Process!Forgotten

LEMMA NextRows == RepliesInv /\ [Process!Next]_Process!vars => RowsInv' /\ Process!AnsweredOnce'
<1> SUFFICES ASSUME RepliesInv, [Process!Next]_Process!vars PROVE RowsInv' /\ Process!AnsweredOnce'
  OBVIOUS
<1> USE OperationAssumption DEF Process!LifecycleAssumption, RepliesInv, Process!TypeOK, RowsInv, Process!AnsweredOnce
<1>1. CASE Process!Load
  BY <1>1 DEF Process!Load
<1>2. ASSUME NEW r \in Restarts, Process!Reply(r) PROVE RowsInv' /\ Process!AnsweredOnce'
  <2>1. /\ phase = "replying" /\ replied = None /\ r \in owed /\ replied' = r
        /\ UNCHANGED <<phase, asked, actions, owed>>
    BY <1>2 DEF Process!Reply
  <2>2. RowsInv'
    BY <2>1
  <2>3. Process!AnsweredOnce'
    <3>1. CASE answers' = [answers EXCEPT ![r] = @ + 1] /\ UNCHANGED excused
      BY <2>1, <3>1
    <3>2. CASE excused' = excused \cup {r} /\ UNCHANGED answers
      BY <2>1, <3>2
    <3> QED BY <1>2, <3>1, <3>2 DEF Process!Reply
  <2> QED BY <2>2, <2>3
<1>3. CASE Process!Delete
  <2>1. /\ phase = "replying" /\ replied # None /\ replied \in Restarts /\ actions[replied] # None
        /\ owed' = owed \ {replied} /\ replied' = None /\ UNCHANGED <<phase, asked, answers>>
    BY <1>3 DEF Process!Delete
  <2>2. CASE actions' = [actions EXCEPT ![replied] = None] /\ UNCHANGED excused
    <3>1. RowsInv'
      BY <2>1, <2>2
    <3>2. Process!AnsweredOnce'
      BY <2>1, <2>2
    <3> QED BY <3>1, <3>2
  <2>3. CASE excused' = excused \cup {replied} /\ UNCHANGED actions
    BY <2>1, <2>3
  <2>4. Process!Forgotten(actions[replied]) = [actions EXCEPT ![replied] = None]
    BY <2>1, ForgottenIsOne
  <2> QED BY <1>3, <2>2, <2>3, <2>4 DEF Process!Delete
<1>4. CASE Process!Run
  <2>1. /\ phase = "replying" /\ owed = {} /\ UNCHANGED <<actions, owed, replied, answers, excused>>
        /\ asked' = [r \in Restarts |-> IF asked[r] = "stored" THEN "put" ELSE asked[r]]
    BY <1>4 DEF Process!Run, Process!rows
  <2>2. \A r \in Restarts : asked'[r] = "no" <=> asked[r] = "no"
    BY <2>1
  <2> QED BY <2>1, <2>2
<1>5. ASSUME NEW r \in Restarts, Process!StoreReply(r) PROVE RowsInv' /\ Process!AnsweredOnce'
  <2>1. /\ phase # "replying" /\ asked[r] = "no" /\ actions[r] = None
        /\ UNCHANGED <<phase, owed, replied, answers, excused>>
    BY <1>5 DEF Process!StoreReply, Process!Racing
  <2>2. CASE UNCHANGED <<actions, asked>>
    BY <2>1, <2>2
  <2>3. ASSUME NEW k \in Uniques, \A q \in Restarts : actions[q] # k,
               actions' = [actions EXCEPT ![r] = k], asked' = [asked EXCEPT ![r] = "stored"]
        PROVE  RowsInv' /\ Process!AnsweredOnce'
    <3>1. RowsInv'
      BY <2>1, <2>3
    <3>2. Process!AnsweredOnce'
      BY <2>1, <2>3
    <3> QED BY <3>1, <3>2
  <2> QED BY <1>5, <2>2, <2>3 DEF Process!StoreReply
<1>6. ASSUME NEW r \in Restarts, Process!AskRestart(r) PROVE RowsInv' /\ Process!AnsweredOnce'
  BY <1>6 DEF Process!AskRestart, Process!rows
<1>7. CASE Process!Crash
  <2>1. /\ phase' = "down" /\ owed' = {} /\ replied' = None /\ UNCHANGED <<asked, actions, answers>>
        /\ excused' = excused \cup (IF replied = None THEN {} ELSE {replied})
    BY <1>7 DEF Process!Crash, Process!Lost
  <2> QED BY <2>1
<1>8. CASE Process!Leave
  BY <1>8 DEF Process!Leave, Process!Over, Process!rows
<1>9. CASE Process!Start
  BY <1>9 DEF Process!Start, Process!rows
<1>10. CASE Process!Decide
  BY <1>10 DEF Process!Decide, Process!rows
<1>11. CASE Process!Signal \/ Process!Take \/ Process!PutResult \/ Process!InnerEnds \/ Process!CancelInner \/ Process!CancelWaiter
  BY <1>11 DEF Process!Signal, Process!Take, Process!PutResult, Process!InnerEnds, Process!CancelInner, Process!CancelWaiter, Process!rows
<1>12. CASE UNCHANGED Process!vars
  BY <1>12 DEF Process!vars, Process!rows
<1> QED BY <1>1, <1>2, <1>3, <1>4, <1>5, <1>6, <1>7, <1>8, <1>9, <1>10, <1>11, <1>12 DEF Process!Next

(***************************************************************************)
(* The reason of the end.                                                  *)
(***************************************************************************)

LEMMA NextReason == RepliesInv /\ [Process!Next]_Process!vars => ReasonInv'
<1> SUFFICES ASSUME RepliesInv, [Process!Next]_Process!vars PROVE ReasonInv'
  OBVIOUS
<1> USE OperationAssumption DEF Process!LifecycleAssumption, RepliesInv, Process!TypeOK, ReasonInv, Process!Reasons
\* Whoever puts a reason puts the first one, or changes nothing.
<1>1. ASSUME NEW reason \in Process!Reasons, Process!Put(reason), UNCHANGED <<result, waiter, done>> PROVE ReasonInv'
  BY <1>1 DEF Process!Put, Process!TryPut
<1>2. CASE Process!Signal
  BY <1>1, <1>2 DEF Process!Signal
<1>3. ASSUME NEW r \in Restarts, Process!AskRestart(r) PROVE ReasonInv'
  BY <1>1, <1>3 DEF Process!AskRestart
<1>4. CASE Process!Take
  BY <1>4 DEF Process!Take
<1>5. CASE Process!PutResult
  BY <1>5 DEF Process!PutResult
<1>6. CASE Process!InnerEnds
  BY <1>6 DEF Process!InnerEnds
<1>7. CASE Process!CancelWaiter
  BY <1>7 DEF Process!CancelWaiter
<1>8. CASE Process!Run
  BY <1>8 DEF Process!Run, Process!Fresh
<1>9. ASSUME NEW r \in Restarts, Process!StoreReply(r) PROVE ReasonInv'
  <2>1. UNCHANGED <<exitRequest, result, waiter, first>> /\ (done' = "waiter" => done = "waiter")
    BY <1>9 DEF Process!StoreReply
  <2> QED BY <2>1
<1>10. CASE Process!CancelInner
  BY <1>10 DEF Process!CancelInner
<1>11. CASE Process!Load \/ Process!Delete \/ Process!Decide \/ Process!Leave \/ Process!Crash \/ Process!Start \/ UNCHANGED Process!vars
  BY <1>11 DEF Process!Load, Process!Delete, Process!Decide, Process!Leave, Process!Crash, Process!Start, Process!vars, Process!mvars
<1>12. ASSUME NEW r \in Restarts, Process!Reply(r) PROVE ReasonInv'
  BY <1>12 DEF Process!Reply, Process!mvars
<1> QED BY <1>2, <1>3, <1>4, <1>5, <1>6, <1>7, <1>8, <1>9, <1>10, <1>11, <1>12 DEF Process!Next

(***************************************************************************)
(* Types, and the theorem.                                                 *)
(***************************************************************************)

LEMMA NextProcess == RepliesInv /\ [Process!Next]_Process!vars => Process!TypeOK'
<1> SUFFICES ASSUME RepliesInv, [Process!Next]_Process!vars PROVE Process!TypeOK'
  OBVIOUS
<1> USE OperationAssumption DEF Process!LifecycleAssumption, RepliesInv, Process!TypeOK, Process!Reasons, Process!mvars, Process!rows, Process!bounds, Process!Fault, Process!NoFault
<1>1. CASE Process!Load
  BY <1>1 DEF Process!Load
<1>2. ASSUME NEW r \in Restarts, Process!Reply(r) PROVE Process!TypeOK'
  BY <1>2 DEF Process!Reply
<1>3. CASE Process!Delete
  BY <1>3 DEF Process!Delete, Process!Forgotten
<1>4. CASE Process!Run
  BY <1>4 DEF Process!Run, Process!Fresh
<1>5. ASSUME NEW r \in Restarts, Process!StoreReply(r) PROVE Process!TypeOK'
  BY <1>5 DEF Process!StoreReply
<1>6. ASSUME NEW r \in Restarts, Process!AskRestart(r) PROVE Process!TypeOK'
  BY <1>6 DEF Process!AskRestart, Process!Put, Process!TryPut
<1>7. CASE Process!Signal
  BY <1>7 DEF Process!Signal, Process!Put, Process!TryPut
<1>8. CASE Process!Take
  BY <1>8 DEF Process!Take
<1>9. CASE Process!PutResult
  BY <1>9 DEF Process!PutResult
<1>10. CASE Process!InnerEnds
  BY <1>10 DEF Process!InnerEnds
<1>11. CASE Process!Decide \/ Process!CancelInner \/ Process!CancelWaiter \/ Process!Leave
  BY <1>11 DEF Process!Decide, Process!CancelInner, Process!CancelWaiter, Process!Leave
<1>12. CASE Process!Crash
  BY <1>12 DEF Process!Crash, Process!Lost, RowsInv
<1>13. CASE Process!Start
  BY <1>13 DEF Process!Start
<1>14. CASE UNCHANGED Process!vars
  BY <1>14 DEF Process!vars
<1> QED BY <1>1, <1>2, <1>3, <1>4, <1>5, <1>6, <1>7, <1>8, <1>9, <1>10, <1>11, <1>12, <1>13, <1>14 DEF Process!Next

LEMMA NextReplies == RepliesInv /\ [Process!Next]_Process!vars => RepliesInv'
BY NextProcess, NextRows, NextReason DEF RepliesInv

\* Every restart that was asked for is answered once, and the first request decides
\* how the program ends (queueRestart, runStartupActions, runUntilExit).
THEOREM Faithful == Process!Spec => []RepliesAreGivenOnce
<1>1. RepliesInv => RepliesAreGivenOnce
  BY DEF RepliesInv, RepliesAreGivenOnce, Process!RepliesAreGivenOnce, ReasonInv, Process!FirstRequestDecides, Process!Reason
<1> QED BY <1>1, InitReplies, NextReplies, PTL DEF Process!Spec
=============================================================================
