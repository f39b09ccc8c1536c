------------------------------ MODULE AdminPanel ------------------------------
(***************************************************************************)
(* The control center, src/admin/app.py: a threading HTTP server whose     *)
(* handlers share two JSON files (the panel's state and its accounts) and  *)
(* change the running bot's configuration over RPC.  read_state, write_-   *)
(* state and their counterparts for the accounts take LOCK for one file    *)
(* access; only record_error holds it over a read and the write that       *)
(* follows, so every other handler works on a copy that may be old when    *)
(* it writes it back.  A handler is the list of steps it still has to do;  *)
(* its entries are told apart by the number of the request.                *)
(***************************************************************************)
EXTENDS Integers, Sequences, FiniteSets, SequencesExt

CONSTANTS
  Threads, Pool,      \* request threads, and threads of an overview's executor
  Keys,               \* ids of the draft collections
  Scopes, Contents,   \* persona scopes of the bot, and what one may hold
  AuditLimit, VersionLimit, ErrorLimit,  \* entries the state file keeps
  MaxRequests         \* bound: requests served

ASSUME PanelAssumption ==
  /\ Threads \cap Pool = {} /\ "free" \notin Threads \cup Pool /\ IsFiniteSet(Pool) /\ MaxRequests \in Nat
  /\ {AuditLimit, VersionLimit, ErrorLimit} \subseteq Nat \ {0}

Procs == Threads \cup Pool

VARIABLES
  todo,     \* steps each thread still has to do
  req,      \* the request it serves: its number, arguments, snapshots, copy
  file,     \* the state and the accounts file
  lock,     \* the thread inside record_error, or "free"
  config,   \* the running bot's personas
  served,   \* requests begun
  shown,    \* what an overview has just answered
  \* history: the files had no copy been old, threads whose copy is old, files
  \* a handler wrote an old copy to, why the configuration may have drifted
  ideal, stale, overlapped, causes
ghosts == <<ideal, stale, overlapped, causes>>
vars == <<todo, req, file, lock, config, served, shown, ghosts>>

(* A version of a release whose panel could still switch models.           *)
Legacy == [n |-> 0, kind |-> "model", clean |-> FALSE, after |-> <<>>]
NoCopy == <<>>
Idle == [n |-> 0, key |-> 0, scope |-> "none", content |-> "none", kind |-> "persona", rolls |-> FALSE,
         before |-> <<>>, after |-> <<>>, was |-> <<>>, alone |-> TRUE, copy |-> NoCopy]

Init ==
  /\ todo = [p \in Procs |-> <<>>] /\ req = [p \in Procs |-> Idle]
  /\ config \in [Scopes -> {"none"}] /\ lock = "free" /\ served = 0
  /\ \E versions \in {<<>>, <<Legacy>>} :
       file = [state |-> [items |-> [k \in Keys |-> 0], audit |-> <<>>, versions |-> versions, errors |-> <<>>],
               auth |-> [tokens |-> [i \in 1..MaxRequests |-> "none"], password |-> 0]]
  /\ ideal = file /\ stale = {} /\ overlapped = {} /\ causes = {} /\ shown = [kind |-> "none"]

LastOf(s, n) == IF Len(s) > n THEN SubSeq(s, Len(s) - n + 1, Len(s)) ELSE s
ReadState(s) == [s EXCEPT !.audit = LastOf(@, AuditLimit), !.errors = LastOf(@, ErrorLimit),
                          !.versions = LastOf(@, VersionLimit)]
ReadFile(store, f) == IF store = "state" THEN ReadState(f) ELSE f

StoreOf(step) == IF step \in {"token", "revoke", "password"} THEN "auth" ELSE "state"
\* Mutant: before and after are swapped.
MutVersionOf(q) == [n |-> q.n, kind |-> q.kind, scope |-> q.scope, before |-> q.after, after |-> q.before,
                    content |-> q.content, was |-> q.was, clean |-> q.alone]
(* "content", "was" and "clean" are history: what was set, over what, and  *)
(* whether nothing else changed the configuration meanwhile.               *)
VersionOf(q) == [n |-> q.n, kind |-> q.kind, scope |-> q.scope, before |-> q.before, after |-> q.after,
                 content |-> q.content, was |-> q.was, clean |-> q.alone]
(* What each read-modify-write puts into its copy.                         *)
Change(step, q, f) ==
  CASE step = "item"     -> [f EXCEPT !.items[q.key] = q.n]
    [] step = "remove"   -> [f EXCEPT !.items[q.key] = 0]
    [] step = "audit"    -> [f EXCEPT !.audit = Append(@, q.n)]
    [] step = "version"  -> [f EXCEPT !.versions = LastOf(Append(@, VersionOf(q)), VersionLimit)]
    [] step = "error"    -> [f EXCEPT !.errors = LastOf(Append(@, q.n), ErrorLimit)]
    [] step = "token"    -> [f EXCEPT !.tokens[q.n] = "on"]
    [] step = "revoke"   -> [f EXCEPT !.tokens[q.key] = "off"]
    [] step = "password" -> [f EXCEPT !.password = q.n]
(* A handler that finds its copy without what it needs answers 404 or 409. *)
Refused(step, q) ==
  CASE step = "item"   -> IF q.content = "replace" THEN q.copy.items[q.key] = 0 ELSE q.copy.items[q.key] # 0
    [] step = "remove" -> q.copy.items[q.key] = 0
    [] step = "revoke" -> q.copy.tokens[q.key] = "none"
    [] OTHER           -> FALSE
-----------------------------------------------------------------------------
(* The handlers.                                                           *)
Begin(t, q, steps) ==
  /\ todo[t] = <<>> /\ served < MaxRequests /\ served' = served + 1 /\ shown' = [kind |-> "none"]
  /\ todo' = [todo EXCEPT ![t] = steps]
  /\ req' = [req EXCEPT ![t] = [q EXCEPT !.n = served + 1]]
  /\ UNCHANGED <<file, lock, config, ghosts>>
Audit == <<"read", "audit">>
Audited(step) == <<"read", step, "read", "audit">>

CollectionWrite(t) ==
  \E k \in Keys, how \in {"replace", "create"} :
    Begin(t, [Idle EXCEPT !.key = k, !.content = how], Audited("item"))
CollectionDelete(t) ==
  \E k \in Keys : Begin(t, [Idle EXCEPT !.key = k], Audited("remove"))
TokenCreate(t) == Begin(t, Idle, Audited("token"))
TokenRevoke(t) ==
  \E id \in {i \in 1..MaxRequests : file["auth"].tokens[i] # "none"} : Begin(t, [Idle EXCEPT !.key = id], Audited("revoke"))
PasswordChange(t) == Begin(t, Idle, Audited("password"))
(* A method or an action outside the lists is audited and refused; one     *)
(* inside is forwarded and audited, whatever the bot answers.              *)
RpcProxy(t) == \E blocked \in BOOLEAN : Begin(t, Idle, IF blocked THEN Audit ELSE <<"call", "read", "audit">>)
(* A message that could not be sent is not audited.                        *)
SendMessage(t) == Begin(t, Idle, <<"send", "read", "audit">>)

(* Requests that change the configuration, or compare it with a version,   *)
(* each "alone" while no other of them runs.                               *)
Configures(p) == \E i \in DOMAIN todo[p] : todo[p][i] \in {"set", "version", "forward"}
Compares(p) == todo[p] # <<>> /\ Last(todo[p]) = "show"
BeginConfig(t, q, steps) ==
  /\ todo[t] = <<>> /\ served < MaxRequests /\ served' = served + 1 /\ shown' = [kind |-> "none"]
  /\ todo' = [todo EXCEPT ![t] = steps]
  /\ req' = [p \in Procs |->
               CASE p = t -> [q EXCEPT !.n = served + 1, !.alone = \A r \in Threads : ~Configures(r)]
                 [] OTHER -> [req[p] EXCEPT !.alone = @ /\ ~Configures(p) /\ ~Compares(p)]]
  /\ UNCHANGED <<file, lock, config, ghosts>>
ConfigWrite(t) ==
  \E s \in Scopes, c \in Contents \cup {"none"} :
    BeginConfig(t, [Idle EXCEPT !.scope = s, !.content = c], <<"before", "set", "after", "read", "version">>)
(* The same through the proxy, which saves no version.                     *)
ConfigForward(t) ==
  \E s \in Scopes, c \in Contents \cup {"none"} :
    BeginConfig(t, [Idle EXCEPT !.scope = s, !.content = c], <<"forward", "read", "audit">>)
(* DELETE says "clear" and not what, which the bot refuses.                *)
ConfigDelete(t) == Begin(t, Idle, <<"clear">>)
ConfigRollback(t) ==
  BeginConfig(t, [Idle EXCEPT !.rolls = TRUE], <<"read", "find", "before", "set", "after", "read", "version">>)

Overview(t) ==
  /\ todo[t] = <<>> /\ \A r \in Threads : ~Compares(r)   \* bound: one overview at a time
  /\ served < MaxRequests /\ served' = served + 1 /\ shown' = [kind |-> "none"]
  /\ todo' = [p \in Procs |-> IF p \in Pool THEN <<"job">>
                              ELSE IF p = t THEN <<"join", "read", "show">> ELSE todo[p]]
  /\ req' = [p \in Procs |->
               IF p \in Pool \/ p = t
               THEN [Idle EXCEPT !.n = served + 1, !.alone = \A r \in Threads : ~Configures(r)] ELSE req[p]]
  /\ UNCHANGED <<file, lock, config, ghosts>>
-----------------------------------------------------------------------------
(* One access to a file.                                                   *)
Rest(p) == Tail(todo[p])
Goes(p, steps) == todo' = [todo EXCEPT ![p] = steps]
At(p, step) == todo[p] # <<>> /\ Head(todo[p]) = step

Read(p) ==
  /\ At(p, "read") /\ lock = "free"
  /\ req' = [req EXCEPT ![p].copy = ReadFile(StoreOf(Rest(p)[1]), file[StoreOf(Rest(p)[1])])]
  /\ stale' = stale \ {p} /\ Goes(p, Rest(p))
  /\ UNCHANGED <<file, lock, config, served, shown, ideal, overlapped, causes>>

Holds(p, store) == todo[p] # <<>> /\ req[p].copy # NoCopy /\ StoreOf(Head(todo[p])) = store
Store(p, step) ==
  LET s == StoreOf(step)
  IN /\ file' = [file EXCEPT ![s] = Change(step, req[p], req[p].copy)]
     /\ ideal' = [ideal EXCEPT ![s] = Change(step, req[p], ReadFile(s, @))]
     /\ stale' = (stale \cup {r \in Procs : Holds(r, s)}) \ {p}
     /\ overlapped' = IF p \in stale /\ step # "error" THEN overlapped \cup {s} ELSE overlapped
     /\ req' = [req EXCEPT ![p].copy = NoCopy]
Write(p, step) ==
  /\ At(p, step) /\ lock = "free"
  /\ IF Refused(step, req[p]) \/ (step = "version" /\ ~req[p].rolls /\ req[p].before = req[p].after)
     THEN Goes(p, <<>>) /\ req' = [req EXCEPT ![p].copy = NoCopy] /\ UNCHANGED <<file, ideal, stale, overlapped>>
     ELSE Store(p, step) /\ Goes(p, Rest(p))
  /\ causes' = IF step = "version" /\ ~req[p].alone THEN causes \cup {"overlap"} ELSE causes
  /\ UNCHANGED <<lock, config, served, shown>>

(* record_error: the copy is taken and written back under the lock.        *)
\* Mutant: the lock is not taken.
MutErrorRead(p) ==
  /\ At(p, "log") /\ Goes(p, <<"error">> \o Rest(p))
  /\ req' = [req EXCEPT ![p].copy = ReadState(file["state"])] /\ stale' = stale \ {p}
  /\ UNCHANGED <<lock, file, config, served, shown, ideal, overlapped, causes>>
ErrorRead(p) ==
  /\ At(p, "log") /\ lock = "free" /\ lock' = p /\ Goes(p, <<"error">> \o Rest(p))
  /\ req' = [req EXCEPT ![p].copy = ReadState(file["state"])] /\ stale' = stale \ {p}
  /\ UNCHANGED <<file, config, served, shown, ideal, overlapped, causes>>
ErrorWrite(p) ==
  /\ At(p, "error") /\ Store(p, "error") /\ lock' = "free" /\ Goes(p, Rest(p))
  /\ UNCHANGED <<config, served, shown, causes>>
-----------------------------------------------------------------------------
(* One call to the bot or to the domain service; it may fail, and one that *)
(* changes the configuration may time out after the bot has applied it.    *)
Fails(p, rest) == Goes(p, <<"log">> \o rest)
Call(p) ==
  /\ At(p, "call") /\ (Goes(p, Rest(p)) \/ Fails(p, Rest(p)))
  /\ UNCHANGED <<req, file, lock, config, served, shown, ghosts>>
Send(p) ==
  /\ At(p, "send") /\ (Goes(p, Rest(p)) \/ Fails(p, <<>>))
  /\ UNCHANGED <<req, file, lock, config, served, shown, ghosts>>
Job(p) ==
  /\ At(p, "job")
  /\ \/ Goes(p, Rest(p)) /\ req' = [req EXCEPT ![p].after = config]
     \/ Fails(p, Rest(p)) /\ req' = [req EXCEPT ![p].content = "failed"]
  /\ UNCHANGED <<file, lock, config, served, shown, ghosts>>

Find(t) ==
  /\ At(t, "find")
  /\ \/ \E i \in DOMAIN req[t].copy.versions :
          LET v == req[t].copy.versions[i]
          IN /\ req' = [req EXCEPT ![t] = [@ EXCEPT !.copy = NoCopy, !.kind = v.kind,
                          !.scope = IF v.kind = "model" THEN "none" ELSE v.scope,
                          !.content = IF v.kind = "model" THEN "none" ELSE v.before[v.scope]]]
             /\ Goes(t, Rest(t))
     \/ req' = [req EXCEPT ![t].copy = NoCopy] /\ Goes(t, <<>>)
  /\ UNCHANGED <<file, lock, config, served, shown, ghosts>>

Before(t) ==
  /\ At(t, "before")
  /\ \/ Goes(t, Rest(t)) /\ req' = [req EXCEPT ![t].before = config]
     \/ Fails(t, IF req[t].rolls THEN <<>> ELSE <<"set">>) /\ UNCHANGED req
  /\ UNCHANGED <<file, lock, config, served, shown, ghosts>>

Apply(t) == /\ config' = [config EXCEPT ![req[t].scope] = req[t].content]
            /\ req' = [req EXCEPT ![t].was = config]
NoVersion == causes' = causes \cup {"no version"}
Set(t) ==
  /\ At(t, "set")
  /\ \/ /\ req[t].kind = "model"   \* runtime_config_result refuses "switch"
        /\ Goes(t, <<>>) /\ UNCHANGED <<req, config, causes>>
     \/ /\ req[t].kind # "model" /\ Apply(t) /\ Goes(t, Rest(t))
        /\ IF Rest(t) = <<>> THEN NoVersion ELSE UNCHANGED causes
     \/ /\ req[t].kind # "model" /\ Fails(t, IF req[t].rolls THEN <<>> ELSE <<"log">>)
        /\ (Apply(t) /\ NoVersion) \/ UNCHANGED <<req, config, causes>>
  /\ UNCHANGED <<file, lock, served, shown, ideal, stale, overlapped>>

Forward(t) ==
  /\ At(t, "forward")
  /\ \/ Apply(t) /\ NoVersion /\ (Goes(t, Rest(t)) \/ Fails(t, Rest(t)))
     \/ Fails(t, Rest(t)) /\ UNCHANGED <<req, config, causes>>
  /\ UNCHANGED <<file, lock, served, shown, ideal, stale, overlapped>>
(* A kind without "clear" among its actions is refused by the panel itself. *)
Clear(t) ==
  /\ At(t, "clear") /\ (Fails(t, <<>>) \/ Goes(t, <<>>))
  /\ UNCHANGED <<req, file, lock, config, served, shown, ghosts>>

After(t) ==
  /\ At(t, "after")
  /\ \/ req' = [req EXCEPT ![t].after = config] /\ Goes(t, Rest(t)) /\ UNCHANGED causes
     \/ Fails(t, IF req[t].rolls THEN <<"log">> ELSE <<>>) /\ NoVersion /\ UNCHANGED req
  /\ UNCHANGED <<file, lock, config, served, shown, ideal, stale, overlapped>>

(* The overview waits for its jobs, then reads the file they wrote to.     *)
\* Mutant: one job is waited for.
MutJoin(t) ==
  /\ At(t, "join") /\ (\E p \in Pool : todo[p] = <<>>) /\ Goes(t, Rest(t))
  /\ UNCHANGED <<req, file, lock, config, served, shown, ghosts>>
Join(t) ==
  /\ At(t, "join") /\ \A p \in Pool : todo[p] = <<>>
  /\ Goes(t, Rest(t)) /\ UNCHANGED <<req, file, lock, config, served, shown, ghosts>>
\* Mutant: the oldest version is compared.
MutInSync(snapshot, versions) == versions = <<>> \/ snapshot = versions[1].after
InSync(snapshot, versions) == versions = <<>> \/ snapshot = Last(versions).after
Show(t) ==
  /\ At(t, "show") /\ Goes(t, <<>>) /\ req' = [req EXCEPT ![t].copy = NoCopy]
  /\ LET answered == {p \in Pool : req[p].content # "failed"}
         versions == req[t].copy.versions
     IN shown' = [kind |-> "overview", number |-> req[t].n, alone |-> req[t].alone,
                  applied |-> \A p \in answered : InSync(req[p].after, versions),
                  legacy |-> versions # <<>> /\ Last(versions).kind = "model",
                  failed |-> Cardinality(Pool \ answered), errors |-> req[t].copy.errors]
  /\ UNCHANGED <<file, lock, config, served, ghosts>>

(* A chat command, or another client of the bot, changes the persona.      *)
Outside ==
  /\ served < MaxRequests /\ served' = served + 1 /\ shown' = [kind |-> "none"]
  /\ \E s \in Scopes, c \in Contents : config' = [config EXCEPT ![s] = c]
  /\ req' = [p \in Procs |-> [req[p] EXCEPT !.alone = FALSE]]
  /\ causes' = causes \cup {"outside"}
  /\ UNCHANGED <<todo, file, lock, ideal, stale, overlapped>>

Arrives(t) == \/ CollectionWrite(t) \/ CollectionDelete(t) \/ TokenCreate(t) \/ TokenRevoke(t)
              \/ PasswordChange(t) \/ RpcProxy(t) \/ SendMessage(t) \/ ConfigWrite(t)
              \/ ConfigForward(t) \/ ConfigDelete(t) \/ ConfigRollback(t) \/ Overview(t)
Step(p) == \/ Read(p) \/ ErrorRead(p) \/ ErrorWrite(p) \/ Call(p) \/ Send(p) \/ Job(p) \/ Find(p)
           \/ Before(p) \/ Set(p) \/ Forward(p) \/ Clear(p) \/ After(p) \/ Join(p) \/ Show(p)
           \/ \E step \in {"item", "remove", "audit", "version", "token", "revoke", "password"} : Write(p, step)
Next == (\E t \in Threads : Arrives(t)) \/ (\E p \in Procs : Step(p)) \/ Outside
Spec == Init /\ [][Next]_vars
-----------------------------------------------------------------------------
TypeOK ==
  /\ \A p \in Procs : Len(todo[p]) <= 7 /\ req[p].n \in 0..MaxRequests
  /\ file["state"].items \in [Keys -> 0..MaxRequests] /\ file["auth"].tokens \in [1..MaxRequests -> {"none", "on", "off"}]
  /\ Len(file["state"].errors) <= ErrorLimit /\ Len(file["state"].versions) <= VersionLimit
  /\ lock \in Procs \cup {"free"} /\ served \in 0..MaxRequests
  /\ config \in [Scopes -> Contents \cup {"none"}]
  /\ stale \subseteq Procs /\ overlapped \subseteq {"state", "auth"}

(* The files are what the requests would have made of them one after the   *)
(* other, unless a handler wrote back a copy that another one had outdated *)
(* in between.  An error being recorded never undoes anything, and nothing *)
(* is dropped but the entries beyond the limits.                           *)
OnlyOldCopiesLoseChanges ==
  \A s \in {"state", "auth"} : s \notin overlapped => file[s] = ideal[s]

(* A version saved by a request that nothing else overlapped holds what    *)
(* the bot had before the change and after it, so a rollback to it brings  *)
(* back what the change replaced.                                          *)
Tells(v) == v.clean => v.before = v.was /\ v.after = [v.was EXCEPT ![v.scope] = v.content]
VersionsTellTheChange == \A i \in DOMAIN file["state"].versions : Tells(file["state"].versions[i])

(* The overview reports saved configuration as not applied only when       *)
(* something explains it: a change made elsewhere, a change no version was *)
(* saved for, requests that overlapped, or a version of another kind.      *)
DriftHasACause ==
  (shown.kind = "overview" /\ ~shown.applied) =>
    causes # {} \/ "state" \in overlapped \/ ~shown.alone \/ shown.legacy

(* Versions and the configuration explain each other, with the types.      *)
VersionsExplainTheBot == TypeOK /\ VersionsTellTheChange /\ DriftHasACause

(* Every job of an overview that failed is among the errors the same       *)
(* overview shows, unless newer ones filled the list.                      *)
Entries(errors, n) == {i \in DOMAIN errors : errors[i] = n}
OutagesAreShown ==
  (shown.kind = "overview" /\ "state" \notin overlapped) =>
    \/ Len(shown.errors) = ErrorLimit
    \/ Cardinality(Entries(shown.errors, shown.number)) = shown.failed
=============================================================================
