---------------------------- MODULE DomainSettings ----------------------------
(***************************************************************************)
(* What the FM domain service (src/fm-domain/app.py) keeps as settings:    *)
(* the capabilities of the groups, the switches of the repeating, the      *)
(* accounts of other bots, the rules of the daily text and the texts; and  *)
(* the check by which the bot joins in when a chat repeats itself.         *)
(*                                                                         *)
(* A setting is a JSON document: a request reads it, changes a part and    *)
(* writes it whole.  SQLite opens the transaction at the first write: what *)
(* a request reads before is a copy, what it reads after is locked.        *)
(***************************************************************************)
EXTENDS Naturals, FiniteSets, FiniteSetsExt, TLC

CONSTANTS
  Threads,   \* threads of the server; each serves one request after the other
  Groups, Senders, Dates, Titles,
  Lengths,   \* lengths of a text
  Window,    \* for how long a message counts as repeated (10 s)
  Wait,      \* how long a request waits for the lock at most (4 tries of 5 s)
  Cooldown,  \* 600 s
  Forget,    \* 1200 s
  Mixes,     \* sets of operations: a behaviour has requests of one of them
  MaxTime, MaxRequests

SettingsAssumption ==
  /\ {Window, Wait, Cooldown, Forget, MaxTime, MaxRequests} \subseteq Nat /\ Lengths \subseteq Nat /\ Lengths # {}
  /\ Cooldown + Wait <= Forget
  /\ Mixes \subseteq SUBSET {"capability", "repeat", "guard", "policy", "publish", "check", "refuse"}

VARIABLES
  features,  \* groups: features_json; what is said of each capability, or "unset"
  repeat,    \* settings, repeat_follow: the switch of all groups, and those of groups
  bots,      \* settings, bot_guard: accounts that are not answered
  refused,   \* bot_refusal_cooldowns
  policy,    \* settings, ai_contest_policy: the bounds of the length of a text, or NoPolicy
  defaults,  \* AI_CONTEST_POLICY_DEFAULTS: the bounds as long as none are stored
  texts,     \* ai_contest_texts: by date, the title and the number of the publication; 0 if there is none
  recent,    \* repeat_recent: who said it, where and when
  cooling,   \* repeat_cooldowns: when the bot last repeated it, in each group; NoTime if forgotten
  now,
  req,       \* what each thread is doing
  served,    \* requests begun
  mix,       \* the operations that are asked for
  off,       \* ghost: groups that were switched off, since when nobody switched them on
  said,      \* ghost: when the bot repeated it, in each group
  known,     \* ghost: by date, the publications the one that published it had seen
  tangled    \* ghost: an update changed the defaults under another one

settings == <<features, repeat, bots, refused, policy, texts>>
ghosts   == <<off, said, known, tangled>>
vars     == <<settings, defaults, recent, cooling, now, req, served, mix, ghosts>>

Capabilities == {"repeat", "library"}
Switch == {"unset", "on", "off"}
NoTime == MaxTime + 1
NoText == [title |-> "none", number |-> 0]
NoPolicy == [min |-> 0, max |-> 0]
Given  == [min |-> 1, max |-> Cardinality(Lengths)]
Idle   == [op |-> "none", pc |-> "idle"]

Init ==
  /\ features = [g \in Groups |-> [c \in Capabilities |-> "unset"]]
  /\ repeat = [all |-> "on", groups |-> [g \in Groups |-> "unset"]]
  /\ bots = {} /\ refused = {} /\ policy = NoPolicy /\ defaults = Given
  /\ texts = [d \in Dates |-> NoText] /\ recent = {} /\ cooling = [g \in Groups |-> NoTime]
  /\ now = 0 /\ req = [t \in Threads |-> Idle] /\ served = 0 /\ mix \in Mixes
  /\ off = {} /\ said = [g \in Groups |-> {}] /\ known = [d \in Dates |-> {}] /\ tangled = FALSE

At(t, op, pc) == req[t].op = op /\ req[t].pc = pc
Begin(t, op)  == req[t].pc = "idle" /\ op \in mix /\ served < MaxRequests /\ served' = served + 1
Go(t, q)      == req' = [req EXCEPT ![t] = q]
End(t)        == Go(t, Idle)
Said(b)       == IF b THEN "on" ELSE "off"

\* repeat_group_enabled and group_capability_enabled: a switch nobody set is on.
GroupEnabled(g)      == repeat.all # "off" /\ repeat.groups[g] # "off"
CapabilityEnabled(g) == features[g]["repeat"] # "off"
Enabled(g)           == CapabilityEnabled(g) /\ GroupEnabled(g)
------------------------------------------------------------------------------
(* Switches.                                                               *)

\* set_group_capability reads the features of the group.
ReadFeatures(t) ==
  /\ Begin(t, "capability")
  /\ \E g \in Groups, c \in Capabilities, b \in BOOLEAN :
       Go(t, [op |-> "capability", pc |-> "writes", group |-> g, capability |-> c, enabled |-> b, copy |-> features[g], since |-> now])
  /\ UNCHANGED <<settings, defaults, recent, cooling, now, ghosts>>

\* Mutant: the switch of the group is left alone.
MutOverridden(g, c, b) == repeat

\* Repeating has a switch of its own as well; it is read after the first write.
Overridden(g, c, b) == IF c = "repeat" THEN [repeat EXCEPT !.groups[g] = Said(b)] ELSE repeat

WriteFeatures(t) ==
  /\ At(t, "capability", "writes") /\ End(t)
  /\ LET q == req[t] IN
     /\ features' = [features EXCEPT ![q.group] = [q.copy EXCEPT ![q.capability] = Said(q.enabled)]]
     /\ repeat' = Overridden(q.group, q.capability, q.enabled)
     /\ off' = IF q.capability # "repeat" THEN off ELSE IF q.enabled THEN off \ {q.group} ELSE off \cup {q.group}
  /\ UNCHANGED <<bots, refused, policy, defaults, texts, recent, cooling, now, served, said, known, tangled>>

\* POST /repeat-follow/state reads the switches.
ReadRepeat(t) ==
  /\ Begin(t, "repeat")
  /\ \E gs \in {{}} \cup {{g} : g \in Groups}, b \in BOOLEAN :
       Go(t, [op |-> "repeat", pc |-> "writes", groups |-> gs, enabled |-> b, copy |-> repeat, since |-> now])
  /\ UNCHANGED <<settings, defaults, recent, cooling, now, ghosts>>

Switched(q) ==
  IF q.groups = {} THEN [q.copy EXCEPT !.all = Said(q.enabled)]
  ELSE [q.copy EXCEPT !.groups = [g \in Groups |-> IF g \in q.groups THEN Said(q.enabled) ELSE q.copy.groups[g]]]

\* Written whole: an old copy undoes what was switched in between.
WriteRepeat(t) ==
  /\ At(t, "repeat", "writes") /\ End(t) /\ repeat' = Switched(req[t])
  /\ off' = IF req[t].copy # repeat THEN {} ELSE IF req[t].enabled THEN off \ req[t].groups ELSE off
  /\ UNCHANGED <<features, bots, refused, policy, defaults, texts, recent, cooling, now, served, said, known, tangled>>
------------------------------------------------------------------------------
(* Other bots.                                                             *)

ReadBots(t) ==
  /\ Begin(t, "guard")
  /\ \E s \in Senders, add \in BOOLEAN :
       Go(t, [op |-> "guard", pc |-> "writes", account |-> s, add |-> add, copy |-> bots, since |-> now])
  /\ UNCHANGED <<settings, defaults, recent, cooling, now, ghosts>>

WriteBots(t) ==
  /\ At(t, "guard", "writes") /\ End(t)
  /\ LET q == req[t] IN
     /\ bots' = IF q.add THEN q.copy \cup {q.account} ELSE q.copy \ {q.account}
     /\ refused' = IF q.add THEN refused ELSE {f \in refused : f.sender # q.account}
  /\ UNCHANGED <<features, repeat, policy, defaults, texts, recent, cooling, now, served, ghosts>>

\* bot_guard_check: the answer stays empty, only the time of the refusal is kept.
Refuse(t) ==
  /\ Begin(t, "refuse") /\ UNCHANGED <<features, repeat, bots, policy, defaults, texts, recent, cooling, now, req, ghosts>>
  /\ \E s \in bots, g \in Groups :
       /\ \A f \in refused : f.sender = s /\ f.group = g => now >= f.at + Cooldown
       /\ refused' = {f \in refused : f.sender # s \/ f.group # g} \cup {[sender |-> s, group |-> g, at |-> now]}
------------------------------------------------------------------------------
(* The text of the day.                                                    *)

\* read_setting: as long as nothing is stored, the defaults themselves, not a copy.
Rules == IF policy = NoPolicy THEN defaults ELSE policy

\* Mutant: each bound on its own.
MutRuleOk(p) == TRUE

RuleOk(p) == p.min <= p.max

Edits(t, pc) == At(t, "policy", pc) /\ UNCHANGED <<settings, recent, cooling, now, served, ghosts, defaults>>
Edited(q)    == IF q.shared THEN defaults ELSE q.policy

\* update_ai_contest_policy sets the bounds it is given; a bound it is not given
\* stays.  What it sets in the defaults stays, even if it is refused then.
ReadPolicy(t) ==
  /\ Begin(t, "policy") /\ UNCHANGED <<settings, recent, cooling, now, off, said, known>>
  /\ \E p \in [{"min", "max"} -> Lengths] :
       /\ Go(t, [op |-> "policy", pc |-> "looks", shared |-> policy = NoPolicy, policy |-> p, since |-> now])
       /\ defaults' = IF policy = NoPolicy THEN p ELSE defaults
       /\ tangled' = (tangled \/ (policy = NoPolicy /\ \E o \in Threads : At(o, "policy", "copies") /\ req[o].shared))

\* It looks at the bounds,
CheckPolicy(t) ==
  /\ Edits(t, "looks")
  /\ Go(t, IF RuleOk(Edited(req[t])) THEN [req[t] EXCEPT !.pc = "copies"] ELSE Idle)

\* write_setting then takes them down, and waits for the lock.
CopyPolicy(t) == Edits(t, "copies") /\ Go(t, [req[t] EXCEPT !.pc = "writes", !.policy = Edited(req[t])])

WritePolicy(t) ==
  /\ At(t, "policy", "writes") /\ End(t) /\ policy' = req[t].policy
  /\ UNCHANGED <<features, repeat, bots, refused, defaults, texts, recent, cooling, now, served, ghosts>>

Numbers == {texts[d].number : d \in Dates}

\* publish_ai_contest_text reads the rules,
ReadRules(t) ==
  /\ Begin(t, "publish") /\ UNCHANGED <<settings, defaults, recent, cooling, now, ghosts>>
  /\ \E d \in Dates, i \in Titles, n \in Lengths, replace \in BOOLEAN :
       Go(t, [op |-> "publish", pc |-> "looks", date |-> d, title |-> i, fits |-> n \in Rules.min..Rules.max,
              replace |-> replace, knew |-> {}, since |-> now])

\* the text of the date, which stays unless it is to be replaced,
ReadDate(t) ==
  /\ At(t, "publish", "looks") /\ UNCHANGED <<settings, defaults, recent, cooling, now, served, ghosts>>
  /\ LET q == req[t] IN
     Go(t, IF texts[q.date] # NoText /\ ~q.replace THEN Idle ELSE IF q.fits THEN [q EXCEPT !.pc = "compares"] ELSE Idle)

\* Mutant: the texts of the other dates are not looked at.
MutTitleIsNew(d, i) == TRUE

\* and the texts of the other dates.
TitleIsNew(d, i) == \A e \in Dates \ {d} : texts[e].title # i

ReadTitles(t) ==
  /\ At(t, "publish", "compares") /\ UNCHANGED <<settings, defaults, recent, cooling, now, served, ghosts>>
  /\ Go(t, IF TitleIsNew(req[t].date, req[t].title) THEN [req[t] EXCEPT !.pc = "writes", !.knew = Numbers] ELSE Idle)

\* Whatever has been published since.
WriteText(t) ==
  /\ At(t, "publish", "writes") /\ End(t)
  /\ LET q == req[t] IN
     /\ texts' = [texts EXCEPT ![q.date] = [title |-> q.title, number |-> Max(Numbers) + 1]]
     /\ known' = [known EXCEPT ![q.date] = q.knew]
  /\ UNCHANGED <<features, repeat, bots, refused, policy, defaults, recent, cooling, now, served, off, said, tangled>>
------------------------------------------------------------------------------
(* Repeating.                                                              *)

\* repeat_check reads one document after the other, and the time, before it has the lock.
ReadSwitch(t) ==
  /\ Begin(t, "check") /\ UNCHANGED <<settings, defaults, recent, cooling, now, ghosts>>
  /\ \E g \in Groups, s \in Senders :
       Go(t, [op |-> "check", pc |-> "asks", group |-> g, sender |-> s, enabled |-> GroupEnabled(g), since |-> now])

ReadCapability(t) ==
  /\ At(t, "check", "asks") /\ UNCHANGED <<settings, defaults, recent, cooling, now, served, ghosts>>
  /\ Go(t, IF req[t].enabled /\ CapabilityEnabled(req[t].group) THEN [req[t] EXCEPT !.pc = "counts", !.since = now] ELSE Idle)

Ready(g, n) == cooling[g] = NoTime \/ n >= cooling[g] + Cooldown

\* Mutant: what was repeated is forgotten with the messages.
MutForgotten(at, n) == at # NoTime /\ at + 2 * Window < n

Forgotten(at, n) == at # NoTime /\ at + Forget < n

\* From the first DELETE on the check has the lock.
Count(t) ==
  /\ At(t, "check", "counts") /\ End(t)
  /\ LET g == req[t].group
         n == req[t].since
         kept == {m \in recent : m.at + 2 * Window >= n}
         senders == {m.sender : m \in {k \in kept : k.group = g /\ k.at + Window >= n}} \cup {req[t].sender}
         joins == Cardinality(senders) >= 2 /\ Ready(g, n)
         after == IF joins THEN [cooling EXCEPT ![g] = n] ELSE cooling
     IN /\ recent' = kept \cup {[group |-> g, sender |-> req[t].sender, at |-> n]}
        /\ cooling' = [h \in Groups |-> IF Forgotten(after[h], n) THEN NoTime ELSE after[h]]
        /\ said' = IF joins THEN [said EXCEPT ![g] = @ \cup {n}] ELSE said
  /\ UNCHANGED <<settings, defaults, now, served, off, known, tangled>>
------------------------------------------------------------------------------
\* The lock is not given up in time: nothing is committed.
Fail(t) == req[t] # Idle /\ End(t) /\ UNCHANGED <<settings, defaults, recent, cooling, now, served, ghosts>>

\* The server stops, and comes back with the defaults it is given.
Restart ==
  /\ req' = [t \in Threads |-> Idle] /\ defaults' = Given
  /\ UNCHANGED <<settings, recent, cooling, now, served, ghosts>>

\* Nobody waits for longer than the tries of RetryingConnection take.
Tick ==
  /\ now < MaxTime /\ now' = now + 1 /\ "check" \in mix
  /\ \A t \in Threads : req[t] # Idle => now < req[t].since + Wait
  /\ UNCHANGED <<settings, defaults, recent, cooling, req, served, ghosts>>

Next ==
  \/ UNCHANGED mix /\ \E t \in Threads :
       \/ ReadFeatures(t) \/ WriteFeatures(t) \/ ReadRepeat(t) \/ WriteRepeat(t)
       \/ ReadBots(t) \/ WriteBots(t) \/ Refuse(t) \/ ReadPolicy(t) \/ CheckPolicy(t) \/ CopyPolicy(t) \/ WritePolicy(t)
       \/ ReadRules(t) \/ ReadDate(t) \/ ReadTitles(t) \/ WriteText(t)
       \/ ReadSwitch(t) \/ ReadCapability(t) \/ Count(t) \/ Fail(t)
  \/ (Tick \/ Restart) /\ UNCHANGED mix

Spec == Init /\ [][Next]_vars
------------------------------------------------------------------------------
\* A group that was switched off by its capability stays off until somebody
\* switches it on: requests for other capabilities may write old features, and
\* requests for other groups may follow, but the switch is kept in both
\* documents.  Only a request of /repeat-follow/state that writes an old copy undoes it.
RepeatStaysOff == \A g \in off : ~Enabled(g)

\* In one group the bot repeats a text once in a cooldown, however long requests
\* wait for the lock and in whatever order they get it.
RepeatsAreRare == \A g \in Groups : \A m, n \in said[g] : m < n => n >= m + Cooldown

\* Rules that are stored can be kept by some text, though two requests change a
\* bound each, unless one of the first ones changed the defaults after another had
\* looked at them; and two dates have one title only if neither request could see
\* the other's text.
ContestRulesHold ==
  /\ policy = NoPolicy \/ policy.min <= policy.max \/ tangled
  /\ \A d, e \in Dates : d # e /\ texts[d] # NoText /\ texts[d].title = texts[e].title => texts[d].number \notin known[e]

Interchangeable == Permutations(Threads)
=============================================================================
