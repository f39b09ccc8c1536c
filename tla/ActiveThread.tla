---------------------------- MODULE ActiveThread ----------------------------
(***************************************************************************)
(* The active runs of the agent (the active map of                         *)
(* src/cosmobot/lib/Bot/Storage/Thread.hs, as withActiveReply and          *)
(* commitAgentReply of Handler/Ask/AgentRun.hs, the steering middleware of *)
(* Agent/Middleware/Steering.hs and the routes of Handler/Ask.hs use it).  *)
(* A run takes model turns; replies to its messages steer it; a halt       *)
(* cancels its thread and then finishes it a second time; finishing stores *)
(* its replies, moves the recent-thread pointer and lets waiters go.       *)
(***************************************************************************)
EXTENDS Naturals, Sequences

CONSTANTS
  NThreads,          \* runs, all of one user in one chat
  NSteers,           \* replies of that user to messages of a run
  Halters,           \* routes that halt a run
  MaxReplies,        \* bound of the model: messages a run sends
  MaxTurns,          \* agentMaxTurns
  MaxContinuations,  \* maxAutomaticToolLimitContinuations, 2 in the code
  MaxFaults          \* bound of the model: storage operations that fail

ASSUME ActiveThreadAssumption ==
  /\ NThreads \in Nat /\ NSteers \in Nat /\ MaxReplies \in Nat
  /\ MaxTurns \in Nat \ {0} /\ MaxContinuations \in Nat /\ MaxFaults \in Nat
  /\ Halters \cap (1..NThreads) = {}

Threads  == 1..NThreads
Steers   == 1..NSteers
Actors   == Threads \cup Halters

(* Messages: <<t, 0>> is the request of run t, <<t, n>> its n-th reply,    *)
(* <<0, s>> the steering message s.                                        *)
Messages == (Threads \X (0..MaxReplies)) \cup ({0} \X Steers)
NoKey    == <<0, 0>>
Request(t) == <<t, 0>>

VARIABLES
  phase,      \* where the thread of a run is
  turn, conts,
  cancelled,  \* the manager's entry of the run is Cancelled
  steering, queue, \* activeSteering
  alias,      \* the ActiveThreadMessage keys of the active map, 0 for none
  listed,     \* its ActiveThreadId keys
  replies,    \* length of activeReplyMessageKeys: <<t, n>> for n up to it
  fin,        \* how far an actor is in finishActiveThread
  done,       \* activeDone is full
  halter,     \* what a halting route does
  steer,      \* what became of a steering message
  stored,     \* keys with a row in threads
  recent,     \* recentUserThreads in memory ...
  recentRow,  \* ... and in recent_user_threads
  faults,
  accepted,   \* ghost: steers a run accepted, in order
  delivered,  \* ghost: steers put into a model turn, in order
  dropped,    \* ghost: steers still queued when the run finished
  excused     \* ghost: the run failed, was killed or ran out of tool turns

run      == <<phase, turn, conts>>
finished == <<fin, done>>
disk     == <<stored, recent, recentRow>>
ghosts   == <<accepted, delivered, dropped, excused>>
vars == <<run, cancelled, steering, queue, alias, listed, replies, finished,
          halter, steer, disk, faults, ghosts>>

Idle == [at |-> "off", keys |-> <<>>, key |-> NoKey]
Mark == [at |-> "mark", keys |-> <<>>, key |-> NoKey]
Unused == [at |-> "idle", on |-> 0]

\* A counter of turns that starts before the first one.
MutFirstTurn == MaxTurns + 1

FirstTurn == 1

Init ==
  /\ phase = [t \in Threads |-> "new"]
  /\ turn = [t \in Threads |-> FirstTurn] /\ conts = [t \in Threads |-> 0]
  /\ cancelled = {}
  /\ steering = [t \in Threads |-> "open"] /\ queue = [t \in Threads |-> <<>>]
  /\ alias = [m \in Messages |-> 0] /\ listed = {}
  /\ replies = [t \in Threads |-> 0]
  /\ fin = [a \in Actors |-> Idle] /\ done = {}
  /\ halter = [h \in Halters |-> Unused]
  /\ steer = [s \in Steers |-> Unused]
  /\ stored = {} /\ recent = NoKey /\ recentRow = NoKey
  /\ faults = 0
  /\ accepted = [t \in Threads |-> <<>>]
  /\ delivered = [t \in Threads |-> <<>>]
  /\ dropped = [t \in Threads |-> <<>>]
  /\ excused = {}

-----------------------------------------------------------------------------
(* The thread of a run.                                                    *)

Goto(t, p) == phase' = [phase EXCEPT ![t] = p]

\* withActiveReply: the run enters the active map before it does anything.
Start(t) ==
  /\ phase[t] = "new"
  /\ Goto(t, "drain")
  /\ alias' = [alias EXCEPT ![Request(t)] = t]
  /\ listed' = listed \cup {t}
  /\ UNCHANGED <<turn, conts, cancelled, steering, queue, replies, finished,
                 halter, steer, disk, faults, ghosts>>

Deliver(t) ==
  /\ delivered' = [delivered EXCEPT ![t] = @ \o queue[t]]
  /\ queue' = [queue EXCEPT ![t] = <<>>]

\* Draining leaves an open, empty queue whatever it found.
MutDrained(t) == steering' = [steering EXCEPT ![t] = "open"]

Drained(t) == UNCHANGED steering

\* Before every model turn the queued steers join the transcript.
DrainSteers(t) ==
  /\ phase[t] = "drain"
  /\ Goto(t, "model")
  /\ Deliver(t) /\ Drained(t)
  /\ UNCHANGED <<turn, conts, cancelled, alias, listed, replies, finished,
                 halter, steer, disk, faults, accepted, dropped, excused>>

\* A message of the run becomes a key of the active map, unless it is finishing.
addActiveThreadMessage(t, n) ==
  IF steering[t] = "finishing" THEN UNCHANGED <<alias, replies>>
  ELSE /\ alias' = [alias EXCEPT ![<<t, n>>] = t]
       /\ replies' = [replies EXCEPT ![t] = n]

\* recordReplyUpdate and rememberToolEmittedMessage, while the model or a tool runs.
SendReply(t) ==
  /\ phase[t] = "model" /\ replies[t] < MaxReplies
  /\ addActiveThreadMessage(t, replies[t] + 1)
  /\ UNCHANGED <<run, cancelled, steering, queue, listed, finished,
                 halter, steer, disk, faults, ghosts>>

ToolTurn(t) ==
  /\ phase[t] = "model" /\ turn[t] < MaxTurns
  /\ Goto(t, "drain")
  /\ turn' = [turn EXCEPT ![t] = @ + 1]
  /\ UNCHANGED <<conts, cancelled, steering, queue, alias, listed, replies, finished,
                 halter, steer, disk, faults, ghosts>>

\* limitProgram ends the program from outside the steering middleware;
\* autoContinuingAgentStream runs it again or gives up.
ToolLimit(t) ==
  /\ phase[t] = "model" /\ turn[t] = MaxTurns
  /\ \/ /\ conts[t] < MaxContinuations
        /\ Goto(t, "drain")
        /\ turn' = [turn EXCEPT ![t] = FirstTurn]
        /\ conts' = [conts EXCEPT ![t] = @ + 1]
        /\ UNCHANGED excused
     \/ /\ conts[t] = MaxContinuations
        /\ Goto(t, "commit")
        /\ excused' = excused \cup {t}
        /\ UNCHANGED <<turn, conts>>
  /\ UNCHANGED <<cancelled, steering, queue, alias, listed, replies, finished,
                 halter, steer, disk, faults, accepted, delivered, dropped>>

FinalAnswer(t) ==
  /\ phase[t] = "model"
  /\ Goto(t, "closing")
  /\ UNCHANGED <<turn, conts, cancelled, steering, queue, alias, listed, replies, finished,
                 halter, steer, disk, faults, ghosts>>

\* Completion that closes the queue without looking at it.
MutLate(t) == FALSE

\* Steers that came while the model was writing its final answer.
Late(t) == steering[t] = "open" /\ queue[t] # <<>>

\* completeActiveThreadSteering: late steers get another model turn, else the run closes.
CompleteSteering(t) ==
  /\ phase[t] = "closing"
  /\ \/ Late(t) /\ Deliver(t) /\ Goto(t, "drain") /\ UNCHANGED steering
     \/ /\ ~ Late(t)
        /\ Goto(t, "commit")
        /\ steering' = [steering EXCEPT ![t] = IF @ = "open" THEN "completed" ELSE @]
        /\ UNCHANGED <<queue, delivered>>
  /\ UNCHANGED <<turn, conts, cancelled, alias, listed, replies, finished,
                 halter, steer, disk, faults, accepted, dropped, excused>>

\* streamAgentReply turns any other failure into an answer.
ModelFails(t) ==
  /\ phase[t] \in {"drain", "model"}
  /\ Goto(t, "commit")
  /\ excused' = excused \cup {t}
  /\ UNCHANGED <<turn, conts, cancelled, steering, queue, alias, listed, replies, finished,
                 halter, steer, disk, faults, accepted, delivered, dropped>>

\* commitAgentReply: the answer's own message, then finishActiveThread.
Commit(t) ==
  /\ phase[t] = "commit"
  /\ Goto(t, "finish")
  /\ fin' = [fin EXCEPT ![t] = Mark]
  /\ \E n \in {replies[t], replies[t] + 1} \cap (1..MaxReplies) : addActiveThreadMessage(t, n)
  /\ UNCHANGED <<turn, conts, cancelled, steering, queue, listed, done,
                 halter, steer, disk, faults, ghosts>>

\* An exception, thrown by the store or by a cancel: discardActiveReply.
Unwinds(t) == /\ Goto(t, "discard")
              /\ fin' = [fin EXCEPT ![t] = Mark]
              /\ excused' = excused \cup {t}

CommitFails(t) ==
  /\ phase[t] = "commit" /\ faults < MaxFaults
  /\ Unwinds(t)
  /\ faults' = faults + 1
  /\ UNCHANGED <<turn, conts, cancelled, steering, queue, alias, listed, replies, done,
                 halter, steer, disk, accepted, delivered, dropped>>

\* The exception of Async.cancel arrives; discardActiveReply itself runs masked.
Killed(t) ==
  /\ t \in cancelled /\ phase[t] \in {"drain", "model", "closing", "commit", "finish"}
  /\ Unwinds(t)
  /\ UNCHANGED <<turn, conts, cancelled, steering, queue, alias, listed, replies, done,
                 halter, steer, disk, faults, accepted, delivered, dropped>>

-----------------------------------------------------------------------------
(* finishActiveThread, run by actor a for run t.                           *)

\* The user's own message, whatever the run answered.
MutRecentKey(t, ks) == Request(t)

\* activeReplyMessageKeys, the newest first; none for a second finisher.
KeysToStore(t) ==
  IF steering[t] = "finishing" THEN <<>>
  ELSE [i \in 1..replies[t] |-> <<t, replies[t] + 1 - i>>]

RecentKey(t, ks) == IF ks = <<>> THEN Request(t) ELSE Head(ks)

FinishMark(a, t) ==
  /\ fin[a].at = "mark"
  /\ LET ks == KeysToStore(t)
     IN fin' = [fin EXCEPT ![a] = [at |-> "store", keys |-> ks, key |-> RecentKey(t, ks)]]
  /\ steering' = [steering EXCEPT ![t] = "finishing"]
  /\ dropped' = [dropped EXCEPT ![t] = @ \o queue[t]]
  /\ queue' = [queue EXCEPT ![t] = <<>>]
  /\ UNCHANGED <<run, cancelled, alias, listed, replies, done, halter, steer, disk,
                 faults, accepted, delivered, excused>>

\* rememberThreadTranscriptFrom logs a save that fails and goes on.
FinishStore(a, t) ==
  /\ fin[a].at = "store" /\ fin[a].keys # <<>>
  /\ fin' = [fin EXCEPT ![a].keys = Tail(@)]
  /\ \/ stored' = stored \cup {Head(fin[a].keys)} /\ UNCHANGED faults
     \/ faults < MaxFaults /\ faults' = faults + 1 /\ UNCHANGED stored
  /\ UNCHANGED <<run, cancelled, steering, queue, alias, listed, replies, done, halter,
                 steer, recent, recentRow, ghosts>>

FinishRecent(a, t) ==
  /\ fin[a].at = "store" /\ fin[a].keys = <<>>
  /\ fin' = [fin EXCEPT ![a].at = "index"]
  /\ recent' = fin[a].key
  /\ UNCHANGED <<run, cancelled, steering, queue, alias, listed, replies, done, halter,
                 steer, stored, recentRow, faults, ghosts>>

FinishIndex(a, t) ==
  /\ fin[a].at = "index"
  /\ fin' = [fin EXCEPT ![a].at = "release"]
  /\ recentRow' = fin[a].key
  /\ UNCHANGED <<run, cancelled, steering, queue, alias, listed, replies, done, halter,
                 steer, stored, recent, faults, ghosts>>

\* Only the first finisher fills activeDone.
MutRelease(t) == IF fin[t].at = "release" /\ phase[t] = "finish" THEN done \cup {t} ELSE done

Release(t) == done \cup {t}

FinishRelease(a, t) ==
  /\ fin[a].at = "release"
  /\ fin' = [fin EXCEPT ![a].at = "forget"]
  /\ done' = Release(t)
  /\ UNCHANGED <<run, cancelled, steering, queue, alias, listed, replies, halter,
                 steer, disk, faults, ghosts>>

\* The thread ends, or the halting route goes on to its answer.
Ends(a) ==
  \/ a \in Threads /\ Goto(a, "gone") /\ UNCHANGED halter
  \/ a \in Halters /\ halter' = [halter EXCEPT ![a].at = "end"] /\ UNCHANGED phase

FinishForget(a, t) ==
  /\ fin[a].at = "forget"
  /\ fin' = [fin EXCEPT ![a] = Idle]
  /\ alias' = [m \in Messages |-> IF alias[m] = t THEN 0 ELSE alias[m]]
  /\ listed' = listed \ {t}
  /\ Ends(a)
  /\ UNCHANGED <<turn, conts, cancelled, steering, queue, replies, done, steer, disk,
                 faults, ghosts>>

\* Creating the table, looking a row up or writing recent_user_threads throws.
FinishFails(a, t) ==
  /\ \/ fin[a].at = "store" /\ fin[a].keys # <<>>
     \/ fin[a].at = "index"
  /\ faults < MaxFaults /\ faults' = faults + 1
  /\ \/ a = t /\ phase[t] = "finish" /\ Unwinds(t) /\ UNCHANGED halter
     \/ /\ a # t \/ phase[t] = "discard"
        /\ fin' = [fin EXCEPT ![a] = Idle]
        /\ Ends(a)
        /\ UNCHANGED excused
  /\ UNCHANGED <<turn, conts, cancelled, steering, queue, alias, listed, replies, done,
                 steer, disk, accepted, delivered, dropped>>

Finish(a, t) ==
  \/ FinishMark(a, t) \/ FinishStore(a, t) \/ FinishRecent(a, t)
  \/ FinishIndex(a, t) \/ FinishRelease(a, t) \/ FinishForget(a, t)

-----------------------------------------------------------------------------
(* Routes: a halt and a steering reply.                                    *)

Run(h) == halter[h].on

\* haltThread and haltThreadById find the run under a message or under its id.
HaltLookup(h) ==
  /\ halter[h].at = "idle"
  /\ \E t \in listed \cup {alias[m] : m \in Messages} :
       /\ t # 0
       /\ halter' = [halter EXCEPT ![h] = [at |-> "cancel", on |-> t]]
  /\ UNCHANGED <<run, cancelled, steering, queue, alias, listed, replies, finished,
                 steer, disk, faults, ghosts>>

Stopped(t) == phase[t] = "gone"

\* cancelIn: a thread that ended, or that another cancel already marked, is left alone.
HaltCancel(h) ==
  /\ halter[h].at = "cancel"
  /\ LET t == Run(h) IN
       IF Stopped(t) \/ t \in cancelled
       THEN /\ halter' = [halter EXCEPT ![h].at = "finish"]
            /\ fin' = [fin EXCEPT ![h] = Mark]
            /\ UNCHANGED cancelled
       ELSE /\ halter' = [halter EXCEPT ![h].at = "wait"]
            /\ cancelled' = cancelled \cup {t}
            /\ UNCHANGED fin
  /\ UNCHANGED <<run, steering, queue, alias, listed, replies, done, steer, disk,
                 faults, ghosts>>

\* Async.cancel returns once the thread has stopped, its onException handler included.
HaltWaited(h) ==
  /\ halter[h].at = "wait" /\ Stopped(Run(h))
  /\ halter' = [halter EXCEPT ![h].at = "finish"]
  /\ fin' = [fin EXCEPT ![h] = Mark]
  /\ UNCHANGED <<run, cancelled, steering, queue, alias, listed, replies, done, steer,
                 disk, faults, ghosts>>

SteerLookup(s) ==
  /\ steer[s].at = "idle"
  /\ \E m \in Messages :
       /\ alias[m] # 0
       /\ steer' = [steer EXCEPT ![s] = [at |-> "found", on |-> alias[m]]]
  /\ UNCHANGED <<run, cancelled, steering, queue, alias, listed, replies, finished,
                 halter, disk, faults, ghosts>>

Accepts(t) == steering[t] = "open"

Aliased(s, t) == alias' = [alias EXCEPT ![<<0, s>>] = t]

\* The steer becomes a key of the run it found, accepted or not.
MutRefused(s, t) == Aliased(s, t)

Refused(s, t) == UNCHANGED alias

\* Under the steering lock; conversationRoute continues the thread when it answers False.
EnqueueSteer(s) ==
  /\ steer[s].at = "found"
  /\ LET t == steer[s].on IN
       IF Accepts(t)
       THEN /\ queue' = [queue EXCEPT ![t] = Append(@, s)]
            /\ accepted' = [accepted EXCEPT ![t] = Append(@, s)]
            /\ Aliased(s, t)
            /\ steer' = [steer EXCEPT ![s].at = "accepted"]
       ELSE /\ steer' = [steer EXCEPT ![s].at = "continued"]
            /\ Refused(s, t)
            /\ UNCHANGED <<queue, accepted>>
  /\ UNCHANGED <<run, cancelled, steering, listed, replies, finished, halter, disk,
                 faults, delivered, dropped, excused>>

-----------------------------------------------------------------------------

Owner(t) ==
  \/ DrainSteers(t) \/ ToolTurn(t) \/ ToolLimit(t) \/ FinalAnswer(t)
  \/ CompleteSteering(t) \/ Commit(t) \/ Killed(t) \/ Finish(t, t)

Halt(h) == HaltCancel(h) \/ HaltWaited(h) \/ (Run(h) # 0 /\ Finish(h, Run(h)))

Next ==
  \/ \E t \in Threads : \/ Start(t) \/ Owner(t) \/ SendReply(t) \/ ModelFails(t)
                        \/ CommitFails(t) \/ FinishFails(t, t)
  \/ \E h \in Halters : HaltLookup(h) \/ Halt(h) \/ (Run(h) # 0 /\ FinishFails(h, Run(h)))
  \/ \E s \in Steers  : SteerLookup(s) \/ EnqueueSteer(s)

Spec == Init /\ [][Next]_vars

\* A thread that can move does; a model turn ends (LLM timeouts) with tools,
\* with an answer or by failing, so some end of it is eventually taken.
Fairness ==
  /\ \A t \in Threads : WF_vars(Owner(t))
  /\ \A h \in Halters : WF_vars(Halt(h))
FairSpec == Spec /\ Fairness

-----------------------------------------------------------------------------
Phases == {"new", "drain", "model", "closing", "commit", "finish", "discard", "gone"}

TypeOK ==
  /\ phase \in [Threads -> Phases]
  /\ turn \in [Threads -> 1..MaxTurns] /\ conts \in [Threads -> 0..MaxContinuations]
  /\ cancelled \subseteq Threads
  /\ steering \in [Threads -> {"open", "completed", "finishing"}]
  /\ queue \in [Threads -> Seq(Steers)]
  /\ alias \in [Messages -> Threads \cup {0}] /\ listed \subseteq Threads
  /\ replies \in [Threads -> 0..MaxReplies]
  /\ fin \in [Actors -> [at : {"off", "mark", "store", "index", "release", "forget"},
                         keys : Seq(Messages), key : Messages \cup {NoKey}]]
  /\ done \subseteq Threads
  /\ halter \in [Halters -> {Unused} \cup [at : {"cancel", "wait", "finish", "end"}, on : Threads]]
  /\ steer \in [Steers -> {Unused} \cup [at : {"found", "accepted", "continued"}, on : Threads]]
  /\ stored \subseteq Messages
  /\ recent \in Messages \cup {NoKey} /\ recentRow \in Messages \cup {NoKey}
  /\ faults \in 0..MaxFaults
  /\ accepted \in [Threads -> Seq(Steers)] /\ delivered \in [Threads -> Seq(Steers)]
  /\ dropped \in [Threads -> Seq(Steers)] /\ excused \subseteq Threads

(* A run that accepted a steer puts it into a model turn, in the order it  *)
(* accepted them and once, unless the run was halted, failed or ran out of *)
(* tool turns: however a late reply races with the final answer, none is   *)
(* left behind in a closed queue.                                          *)
AcceptedSteersAreServed ==
  \A t \in Threads :
    /\ accepted[t] = delivered[t] \o dropped[t] \o queue[t]
    /\ dropped[t] # <<>> => t \in excused \cup cancelled
    /\ steering[t] # "open" => queue[t] = <<>>

(* No key of the active map outlives its run: once a finisher has taken    *)
(* the keys of a run out, no reply or steer that was on its way puts one   *)
(* back, so nobody steers or waits for a run that is over; with the types  *)
(* of the variables.                                                       *)
Forgotten(t) == t \in done /\ phase[t] = "gone" /\ t \notin listed
NoKeyOutlivesItsRun == TypeOK /\ \A t \in Threads, m \in Messages : Forgotten(t) => alias[m] # t

(* A run that nobody halted and no storage error met leaves every reply it *)
(* sent with a stored transcript, and as long as the user's recent thread  *)
(* is that run it is its newest reply, never the user's own message.       *)
Undisturbed(t) == faults = 0 /\ t \notin cancelled /\ \A h \in Halters : Run(h) # t

RepliesCanBeContinued ==
  \A t \in Threads : Forgotten(t) /\ Undisturbed(t) =>
    /\ {<<t, n>> : n \in 1..replies[t]} \subseteq stored
    /\ recentRow \in Threads \X (0..MaxReplies)
    /\ recentRow[1] = t => recentRow[2] = replies[t]

(* A run never takes steers again once it closed.                          *)
ClosedStaysClosed ==
  [][\A t \in Threads : steering[t] # "open" =>
       steering'[t] # "open" /\ accepted'[t] = accepted[t]]_vars

(* Every run that started ends and releases those who wait for its         *)
(* transcript, whatever is halted or steered meanwhile.                    *)
EveryRunIsReleased == \A t \in Threads : phase[t] # "new" ~> t \in done

(* What the tests say of a halt: a reply that was sent can still be looked *)
(* up afterwards ...                                                       *)
HaltKeepsReplies ==
  \A t \in Threads : Forgotten(t) => \A n \in 1..replies[t] : <<t, n>> \in stored

(* ... and a user's own message does not become a continuation point of a  *)
(* run that answered.                                                      *)
NoUserAliasIsContinued ==
  \A t \in Threads : Forgotten(t) /\ replies[t] > 0 => recentRow # Request(t)
=============================================================================
