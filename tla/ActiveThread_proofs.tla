------------------------- MODULE ActiveThread_proofs -------------------------
(***************************************************************************)
(* Proofs about ActiveThread, for any number of runs, steers and halting   *)
(* routes and any bounds.                                                  *)
(***************************************************************************)
EXTENDS ActiveThread, SequenceTheorems, TLAPS

(***************************************************************************)
(* Type correctness.                                                       *)
(***************************************************************************)

FinType == [at : {"off", "mark", "store", "index", "release", "forget"},
            keys : Seq(Messages), key : Messages \cup {NoKey}]
RouteType == {Unused} \cup [at : {"cancel", "wait", "finish", "end"}, on : Threads]
SteerType == {Unused} \cup [at : {"found", "accepted", "continued"}, on : Threads]

\* The replies of a run, counted, are a list.
LEMMA ListOf == ASSUME NEW S, NEW n \in Nat, NEW f \in [1..n -> S] PROVE f \in Seq(S)
OBVIOUS

\* What the constants of the module are made of.
LEMMA Constants ==
  /\ Idle \in FinType /\ Mark \in FinType
  /\ \A t \in Threads, n \in 0..MaxReplies : <<t, n>> \in Messages
  /\ \A s \in Steers : <<0, s>> \in Messages
  /\ FirstTurn \in 1..MaxTurns
BY ActiveThreadAssumption
   DEF FinType, Idle, Mark, NoKey, Messages, Threads, Steers, FirstTurn

\* A run begins well typed ...
LEMMA InitType == Init => TypeOK
<1> SUFFICES ASSUME Init PROVE TypeOK
  OBVIOUS
<1>1. fin \in [Actors -> FinType]
  BY Constants DEF Init
<1>2. halter \in [Halters -> RouteType] /\ steer \in [Steers -> SteerType]
  BY DEF Init, RouteType, SteerType
<1>3. /\ queue \in [Threads -> Seq(Steers)] /\ accepted \in [Threads -> Seq(Steers)]
      /\ delivered \in [Threads -> Seq(Steers)] /\ dropped \in [Threads -> Seq(Steers)]
  BY DEF Init
<1>4. /\ turn \in [Threads -> 1..MaxTurns] /\ conts \in [Threads -> 0..MaxContinuations]
      /\ replies \in [Threads -> 0..MaxReplies] /\ faults \in 0..MaxFaults
  BY Constants, ActiveThreadAssumption DEF Init
<1>5. /\ phase \in [Threads -> Phases]
      /\ steering \in [Threads -> {"open", "completed", "finishing"}]
      /\ alias \in [Messages -> Threads \cup {0}]
      /\ cancelled \subseteq Threads /\ listed \subseteq Threads /\ done \subseteq Threads
      /\ stored \subseteq Messages /\ excused \subseteq Threads
      /\ recent = NoKey /\ recentRow = NoKey
  BY DEF Init, Phases
<1> QED BY <1>1, <1>2, <1>3, <1>4, <1>5, Zenon DEF TypeOK, FinType, RouteType, SteerType

\* The two places where a run or a route unwinds or ends.
LEMMA FinisherTypes ==
  ASSUME TypeOK, NEW a \in Actors, a \in Halters => Run(a) # 0
  PROVE  /\ Ends(a) => /\ phase' \in [Threads -> Phases]
                       /\ halter' \in [Halters -> RouteType]
         /\ \A t \in Threads : Unwinds(t) => /\ phase' \in [Threads -> Phases]
                                             /\ fin' \in [Actors -> FinType]
                                             /\ excused' \subseteq Threads
         /\ [fin EXCEPT ![a] = Idle] \in [Actors -> FinType]
         /\ [fin EXCEPT ![a] = Mark] \in [Actors -> FinType]
<1>1. /\ phase \in [Threads -> Phases] /\ halter \in [Halters -> RouteType]
      /\ excused \subseteq Threads
  BY Zenon DEF TypeOK, RouteType
<1>2. fin \in [Actors -> FinType]
  BY Zenon DEF TypeOK, FinType
<1>3. Ends(a) => /\ phase' \in [Threads -> Phases] /\ halter' \in [Halters -> RouteType]
  <2>1. ASSUME a \in Halters PROVE [halter[a] EXCEPT !.at = "end"] \in RouteType
    <3>1. halter[a] \in [at : {"cancel", "wait", "finish", "end"}, on : Threads]
      BY <1>1, <2>1 DEF RouteType, Run, Unused
    <3> QED BY <3>1 DEF RouteType
  <2>2. ASSUME a \in Halters, halter' = [halter EXCEPT ![a].at = "end"]
        PROVE  halter' \in [Halters -> RouteType]
    <3>1. halter' = [halter EXCEPT ![a] = [halter[a] EXCEPT !.at = "end"]]
      BY <2>2
    <3> QED BY <1>1, <2>1, <2>2, <3>1
  <2>3. ASSUME a \in Threads, Goto(a, "gone") PROVE phase' \in [Threads -> Phases]
    BY <1>1, <2>3 DEF Goto, Phases
  <2> QED BY <1>1, <2>2, <2>3, Zenon DEF Ends
<1>4. \A t \in Threads : t \in Actors
  BY DEF Actors
<1>5. [fin EXCEPT ![a] = Idle] \in [Actors -> FinType] /\ [fin EXCEPT ![a] = Mark] \in [Actors -> FinType]
  BY <1>2, Constants
<1>6. ASSUME NEW t \in Threads, Unwinds(t)
      PROVE  /\ phase' \in [Threads -> Phases] /\ fin' \in [Actors -> FinType]
             /\ excused' \subseteq Threads
  <2>1. phase' \in [Threads -> Phases] /\ excused' \subseteq Threads
    BY <1>1, <1>6 DEF Unwinds, Goto, Phases
  <2>2. fin' \in [Actors -> FinType]
    BY <1>2, <1>4, <1>6, Constants DEF Unwinds
  <2> QED BY <2>1, <2>2
<1> QED BY <1>3, <1>5, <1>6

\* ... and every operation keeps it so.
LEMMA NextType == TypeOK /\ [Next]_vars => TypeOK'
<1> SUFFICES ASSUME TypeOK, [Next]_vars PROVE TypeOK'
  OBVIOUS
<1> USE DEF TypeOK, run, finished, disk, ghosts, Goto, Phases
<1>0. \A t \in Threads : t \in Actors /\ t \notin Halters
  BY ActiveThreadAssumption DEF Actors, Threads
<1>1. ASSUME NEW t \in Threads, Start(t) PROVE TypeOK'
  <2>1. Request(t) \in Messages
    BY Constants, ActiveThreadAssumption DEF Request
  <2>2. phase' \in [Threads -> Phases] /\ alias' \in [Messages -> Threads \cup {0}] /\ listed' \subseteq Threads
    BY <1>1, <2>1 DEF Start
  <2> QED BY <1>1, <2>2, Zenon DEF Start
<1>d. ASSUME NEW t \in Threads, Deliver(t)
      PROVE  queue' \in [Threads -> Seq(Steers)] /\ delivered' \in [Threads -> Seq(Steers)]
  <2>1. delivered[t] \o queue[t] \in Seq(Steers) /\ <<>> \in Seq(Steers)
    OBVIOUS
  <2> QED BY <1>d, <2>1 DEF Deliver
<1>m. ASSUME NEW t \in Threads, NEW n \in 0..MaxReplies, addActiveThreadMessage(t, n)
      PROVE  alias' \in [Messages -> Threads \cup {0}] /\ replies' \in [Threads -> 0..MaxReplies]
  <2>1. <<t, n>> \in Messages
    BY Constants
  <2> QED BY <1>m, <2>1 DEF addActiveThreadMessage
<1>2. ASSUME NEW t \in Threads, DrainSteers(t) PROVE TypeOK'
  <2>1. phase' \in [Threads -> Phases]
    BY <1>2 DEF DrainSteers
  <2> QED BY <1>2, <1>d, <2>1, Zenon DEF DrainSteers, Drained
<1>3. ASSUME NEW t \in Threads, SendReply(t) PROVE TypeOK'
  <2>1. replies[t] + 1 \in 0..MaxReplies
    BY <1>3, ActiveThreadAssumption DEF SendReply
  <2> QED BY <1>3, <1>m, <2>1, Zenon DEF SendReply
<1>4. ASSUME NEW t \in Threads, ToolTurn(t) PROVE TypeOK'
  <2>1. phase' \in [Threads -> Phases] /\ turn' \in [Threads -> 1..MaxTurns]
    BY <1>4, ActiveThreadAssumption DEF ToolTurn
  <2> QED BY <1>4, <2>1, Zenon DEF ToolTurn
<1>5. ASSUME NEW t \in Threads, ToolLimit(t) PROVE TypeOK'
  <2>1. phase' \in [Threads -> Phases] /\ excused' \subseteq Threads
    BY <1>5 DEF ToolLimit
  <2>2. turn' \in [Threads -> 1..MaxTurns] /\ conts' \in [Threads -> 0..MaxContinuations]
    <3>1. CASE conts[t] < MaxContinuations
      <4>1. turn' = [turn EXCEPT ![t] = FirstTurn] /\ conts' = [conts EXCEPT ![t] = conts[t] + 1]
        BY <1>5, <3>1, ActiveThreadAssumption DEF ToolLimit
      <4>2. conts[t] + 1 \in 0..MaxContinuations
        BY <3>1, ActiveThreadAssumption
      <4>3. FirstTurn \in 1..MaxTurns
        BY Constants
      <4> QED BY <4>1, <4>2, <4>3
    <3>2. CASE ~ conts[t] < MaxContinuations
      BY <1>5, <3>2 DEF ToolLimit
    <3> QED BY <3>1, <3>2
  <2> QED BY <1>5, <2>1, <2>2, Zenon DEF ToolLimit
<1>6. ASSUME NEW t \in Threads, FinalAnswer(t) PROVE TypeOK'
  <2>1. phase' \in [Threads -> Phases]
    BY <1>6 DEF FinalAnswer
  <2> QED BY <1>6, <2>1, Zenon DEF FinalAnswer
<1>7. ASSUME NEW t \in Threads, CompleteSteering(t) PROVE TypeOK'
  <2>1. phase' \in [Threads -> Phases] /\ steering' \in [Threads -> {"open", "completed", "finishing"}]
    BY <1>7 DEF CompleteSteering
  <2>2. queue' \in [Threads -> Seq(Steers)] /\ delivered' \in [Threads -> Seq(Steers)]
    BY <1>7, <1>d, Zenon DEF CompleteSteering
  <2> QED BY <1>7, <2>1, <2>2, Zenon DEF CompleteSteering
<1>8. ASSUME NEW t \in Threads, ModelFails(t) PROVE TypeOK'
  <2>1. phase' \in [Threads -> Phases] /\ excused' \subseteq Threads
    BY <1>8 DEF ModelFails
  <2> QED BY <1>8, <2>1, Zenon DEF ModelFails
<1>9. ASSUME NEW t \in Threads, Commit(t) PROVE TypeOK'
  <2>1. phase' \in [Threads -> Phases]
    BY <1>9 DEF Commit
  <2>2. fin' \in [Actors -> FinType]
    BY <1>0, <1>9, FinisherTypes, Zenon DEF Commit
  <2>3. PICK n \in 0..MaxReplies : addActiveThreadMessage(t, n)
    BY <1>9 DEF Commit
  <2> QED BY <1>9, <1>m, <2>1, <2>2, <2>3, Zenon DEF Commit, FinType
<1>10. ASSUME NEW t \in Threads, CommitFails(t) PROVE TypeOK'
  <2>1. faults' \in 0..MaxFaults
    BY <1>10, ActiveThreadAssumption DEF CommitFails
  <2>2. Unwinds(t) /\ t \in Actors
    BY <1>0, <1>10 DEF CommitFails
  <2>3. phase' \in [Threads -> Phases] /\ fin' \in [Actors -> FinType] /\ excused' \subseteq Threads
    BY <1>0, <2>2, FinisherTypes, Zenon
  <2> QED BY <1>10, <2>1, <2>3, Zenon DEF CommitFails, FinType
<1>11. ASSUME NEW t \in Threads, Killed(t) PROVE TypeOK'
  <2>1. Unwinds(t) /\ t \in Actors
    BY <1>0, <1>11 DEF Killed
  <2>2. phase' \in [Threads -> Phases] /\ fin' \in [Actors -> FinType] /\ excused' \subseteq Threads
    BY <1>0, <2>1, FinisherTypes, Zenon
  <2> QED BY <1>11, <2>2, Zenon DEF Killed, FinType
<1>12. ASSUME NEW a \in Actors, NEW t \in Threads, a \in Halters => Run(a) # 0, Finish(a, t)
       PROVE  TypeOK'
  <2>0. fin \in [Actors -> FinType] /\ fin[a] \in FinType
    BY Zenon DEF FinType
  <2>1. CASE FinishMark(a, t)
    <3> DEFINE ks == KeysToStore(t)
    <3>1. ks \in Seq(Messages)
      <4>1. CASE steering[t] = "finishing"
        BY <4>1 DEF KeysToStore
      <4>2. CASE steering[t] # "finishing"
        <5>1. replies[t] \in Nat /\ \A i \in 1..replies[t] : <<t, replies[t] + 1 - i>> \in Messages
          BY Constants, ActiveThreadAssumption
        <5>2. ks = [i \in 1..replies[t] |-> <<t, replies[t] + 1 - i>>]
          BY <4>2 DEF KeysToStore
        <5>3. ks \in [1..replies[t] -> Messages]
          <6> HIDE DEF ks
          <6> QED BY <5>1, <5>2
        <5> QED BY <5>1, <5>3, ListOf
      <4> QED BY <4>1, <4>2
    <3>2. RecentKey(t, ks) \in Messages
      BY <3>1, Constants, ActiveThreadAssumption DEF RecentKey, Request
    <3>3. [at |-> "store", keys |-> ks, key |-> RecentKey(t, ks)] \in FinType
      BY <3>1, <3>2 DEF FinType
    <3>4. fin' = [fin EXCEPT ![a] = [at |-> "store", keys |-> ks, key |-> RecentKey(t, ks)]]
      BY <2>1 DEF FinishMark
    <3>5. fin' \in [Actors -> FinType]
      BY <2>0, <3>3, <3>4
    <3>6. steering' \in [Threads -> {"open", "completed", "finishing"}]
      BY <2>1 DEF FinishMark
    <3>7. dropped[t] \o queue[t] \in Seq(Steers) /\ <<>> \in Seq(Steers)
      OBVIOUS
    <3>8. dropped' \in [Threads -> Seq(Steers)] /\ queue' \in [Threads -> Seq(Steers)]
      BY <2>1, <3>7 DEF FinishMark
    <3> QED BY <2>1, <3>5, <3>6, <3>8, Zenon DEF FinishMark, FinType
  <2>2. CASE FinishStore(a, t)
    <3>1. fin[a].keys \in Seq(Messages) /\ fin[a].keys # <<>>
      BY <2>0, <2>2 DEF FinishStore, FinType
    <3>2. Tail(fin[a].keys) \in Seq(Messages) /\ Head(fin[a].keys) \in Messages
      BY <3>1
    <3>3. [fin[a] EXCEPT !.keys = Tail(@)] \in FinType
      BY <2>0, <3>2 DEF FinType
    <3>4. fin' = [fin EXCEPT ![a] = [fin[a] EXCEPT !.keys = Tail(@)]]
      BY <2>2 DEF FinishStore
    <3>5. fin' \in [Actors -> FinType]
      BY <2>0, <3>3, <3>4
    <3>6. stored' \subseteq Messages /\ faults' \in 0..MaxFaults
      BY <2>2, <3>2, ActiveThreadAssumption DEF FinishStore
    <3> QED BY <2>2, <3>5, <3>6, Zenon DEF FinishStore, FinType
  <2>g. ASSUME NEW p \in {"index", "release", "forget"}, fin' = [fin EXCEPT ![a].at = p]
        PROVE  fin' \in [Actors -> FinType]
    <3>1. [fin[a] EXCEPT !.at = p] \in FinType
      BY <2>0 DEF FinType
    <3>2. fin' = [fin EXCEPT ![a] = [fin[a] EXCEPT !.at = p]]
      BY <2>g
    <3> QED BY <2>0, <3>1, <3>2
  <2>3. CASE FinishRecent(a, t)
    <3>1. fin[a].key \in Messages \cup {NoKey}
      BY <2>0 DEF FinType
    <3> QED BY <2>3, <2>g, <3>1, Zenon DEF FinishRecent, FinType
  <2>4. CASE FinishIndex(a, t)
    <3>1. fin[a].key \in Messages \cup {NoKey}
      BY <2>0 DEF FinType
    <3> QED BY <2>4, <2>g, <3>1, Zenon DEF FinishIndex, FinType
  <2>5. CASE FinishRelease(a, t)
    <3>1. done' \subseteq Threads
      BY <2>5 DEF FinishRelease, Release
    <3> QED BY <2>5, <2>g, <3>1, Zenon DEF FinishRelease, FinType
  <2>6. CASE FinishForget(a, t)
    <3>1. phase' \in [Threads -> Phases] /\ halter' \in [Halters -> RouteType] /\ fin' \in [Actors -> FinType]
      BY <1>12, <2>6, FinisherTypes, Zenon DEF FinishForget
    <3>2. alias' \in [Messages -> Threads \cup {0}] /\ listed' \subseteq Threads
      BY <2>6 DEF FinishForget
    <3> QED BY <2>6, <3>1, <3>2, Zenon DEF FinishForget, FinType, RouteType
  <2> QED BY <1>12, <2>1, <2>2, <2>3, <2>4, <2>5, <2>6 DEF Finish
<1>13. ASSUME NEW a \in Actors, NEW t \in Threads, a \in Halters => Run(a) # 0, FinishFails(a, t)
       PROVE  TypeOK'
  <2>1. faults' \in 0..MaxFaults
    BY <1>13, ActiveThreadAssumption DEF FinishFails
  <2>2. CASE Unwinds(t) /\ UNCHANGED halter
    <3>1. phase' \in [Threads -> Phases] /\ fin' \in [Actors -> FinType] /\ excused' \subseteq Threads
      BY <1>13, <2>2, FinisherTypes, Zenon
    <3> QED BY <1>13, <2>1, <2>2, <3>1, Zenon DEF FinishFails, FinType
  <2>3. CASE fin' = [fin EXCEPT ![a] = Idle] /\ Ends(a) /\ UNCHANGED excused
    <3>1. phase' \in [Threads -> Phases] /\ fin' \in [Actors -> FinType] /\ halter' \in [Halters -> RouteType]
      BY <1>13, <2>3, FinisherTypes, Zenon
    <3> QED BY <1>13, <2>1, <2>3, <3>1, Zenon DEF FinishFails, FinType, RouteType
  <2> QED BY <1>13, <2>2, <2>3, Zenon DEF FinishFails
<1>14. ASSUME NEW h \in Halters, HaltLookup(h) PROVE TypeOK'
  <2>0. listed \cup {alias[m] : m \in Messages} \subseteq Threads \cup {0}
    OBVIOUS
  <2>1. PICK t \in Threads : halter' = [halter EXCEPT ![h] = [at |-> "cancel", on |-> t]]
    BY <1>14, <2>0 DEF HaltLookup
  <2>2. halter' \in [Halters -> RouteType]
    BY <2>1 DEF RouteType
  <2> QED BY <1>14, <2>2, Zenon DEF HaltLookup, RouteType
<1>h. ASSUME NEW h \in Halters, NEW p \in {"wait", "finish"}, halter' = [halter EXCEPT ![h].at = p],
             halter[h].at # "idle"
      PROVE  halter' \in [Halters -> RouteType]
  <2>1. halter[h] \in [at : {"cancel", "wait", "finish", "end"}, on : Threads]
        /\ halter \in [Halters -> RouteType]
    BY <1>h DEF RouteType, Unused
  <2>2. [halter[h] EXCEPT !.at = p] \in RouteType
    BY <2>1 DEF RouteType
  <2>3. halter' = [halter EXCEPT ![h] = [halter[h] EXCEPT !.at = p]]
    BY <1>h
  <2> QED BY <2>1, <2>2, <2>3
<1>i. ASSUME NEW h \in Halters, halter[h].at # "idle"
      PROVE  h \in Actors /\ Run(h) \in Threads /\ Run(h) # 0
  <2>1. halter[h] \in RouteType
    BY DEF RouteType
  <2> QED BY <1>i, <2>1, ActiveThreadAssumption DEF RouteType, Unused, Run, Actors, Threads
<1>15. ASSUME NEW h \in Halters, HaltCancel(h) PROVE TypeOK'
  <2>0. halter[h].at # "idle"
    BY <1>15 DEF HaltCancel
  <2>1. halter' \in [Halters -> RouteType]
    <3>1. CASE halter' = [halter EXCEPT ![h].at = "finish"]
      BY <1>h, <2>0, <3>1
    <3>2. CASE halter' = [halter EXCEPT ![h].at = "wait"]
      BY <1>h, <2>0, <3>2
    <3> QED BY <1>15, <3>1, <3>2, Zenon DEF HaltCancel
  <2>2. fin' \in [Actors -> FinType]
    <3>1. fin \in [Actors -> FinType]
      BY Zenon DEF FinType
    <3>2. [fin EXCEPT ![h] = Mark] \in [Actors -> FinType]
      BY <1>i, <2>0, FinisherTypes, Zenon
    <3> QED BY <1>15, <3>1, <3>2 DEF HaltCancel
  <2>3. cancelled' \subseteq Threads
    BY <1>15, <1>i, <2>0 DEF HaltCancel
  <2> QED BY <1>15, <2>1, <2>2, <2>3, Zenon DEF HaltCancel, FinType, RouteType
<1>16. ASSUME NEW h \in Halters, HaltWaited(h) PROVE TypeOK'
  <2>0. halter[h].at # "idle"
    BY <1>16 DEF HaltWaited
  <2>1. halter' \in [Halters -> RouteType]
    BY <1>16, <1>h, <2>0 DEF HaltWaited
  <2>2. fin' \in [Actors -> FinType]
    BY <1>16, <1>i, <2>0, FinisherTypes, Zenon DEF HaltWaited
  <2> QED BY <1>16, <2>1, <2>2, Zenon DEF HaltWaited, FinType, RouteType
<1>17. ASSUME NEW s \in Steers, SteerLookup(s) PROVE TypeOK'
  <2>1. PICK m \in Messages : alias[m] # 0 /\ steer' = [steer EXCEPT ![s] = [at |-> "found", on |-> alias[m]]]
    BY <1>17 DEF SteerLookup
  <2>2. [at |-> "found", on |-> alias[m]] \in SteerType
    BY <2>1 DEF SteerType
  <2>3. steer \in [Steers -> SteerType]
    BY Zenon DEF SteerType
  <2>4. steer' \in [Steers -> SteerType]
    BY <2>1, <2>2, <2>3
  <2> QED BY <1>17, <2>4, Zenon DEF SteerLookup, SteerType
<1>18. ASSUME NEW s \in Steers, EnqueueSteer(s) PROVE TypeOK'
  <2> DEFINE t == steer[s].on
  <2>0. steer \in [Steers -> SteerType]
    BY Zenon DEF SteerType
  <2>1. steer[s] \in [at : {"found", "accepted", "continued"}, on : Threads]
    BY <1>18, <2>0 DEF EnqueueSteer, SteerType, Unused
  <2>2. ASSUME NEW p \in {"accepted", "continued"}, steer' = [steer EXCEPT ![s].at = p]
        PROVE  steer' \in [Steers -> SteerType]
    <3>1. [steer[s] EXCEPT !.at = p] \in SteerType
      BY <2>1 DEF SteerType
    <3>2. steer' = [steer EXCEPT ![s] = [steer[s] EXCEPT !.at = p]]
      BY <2>2
    <3> QED BY <2>0, <3>1, <3>2
  <2>3. CASE Accepts(t)
    <3>1. t \in Threads /\ <<0, s>> \in Messages /\ Append(queue[t], s) \in Seq(Steers)
          /\ Append(accepted[t], s) \in Seq(Steers)
      BY <2>1, Constants
    <3>2. queue' \in [Threads -> Seq(Steers)] /\ accepted' \in [Threads -> Seq(Steers)]
      BY <1>18, <2>3, <3>1 DEF EnqueueSteer
    <3>3. alias' \in [Messages -> Threads \cup {0}]
      BY <1>18, <2>3, <3>1 DEF EnqueueSteer, Aliased
    <3>4. steer' \in [Steers -> SteerType]
      BY <1>18, <2>2, <2>3 DEF EnqueueSteer
    <3> QED BY <1>18, <3>2, <3>3, <3>4, Zenon DEF EnqueueSteer, SteerType
  <2>4. CASE ~ Accepts(t)
    <3>1. steer' \in [Steers -> SteerType]
      BY <1>18, <2>2, <2>4 DEF EnqueueSteer
    <3> QED BY <1>18, <2>4, <3>1, Zenon DEF EnqueueSteer, SteerType, Refused
  <2> QED BY <2>3, <2>4
<1>19. CASE UNCHANGED vars
  BY <1>19, Zenon DEF vars
<1>20. ASSUME NEW t \in Threads, Owner(t) PROVE TypeOK'
  BY <1>0, <1>2, <1>4, <1>5, <1>6, <1>7, <1>9, <1>11, <1>12, <1>20 DEF Owner
<1>21. ASSUME NEW h \in Halters, Halt(h) \/ (Run(h) # 0 /\ FinishFails(h, Run(h))) PROVE TypeOK'
  <2>1. ASSUME Run(h) # 0 PROVE h \in Actors /\ Run(h) \in Threads
    <3>1. halter[h] \in RouteType
      BY DEF RouteType
    <3> QED BY <2>1, <3>1 DEF RouteType, Unused, Run, Actors
  <2> QED BY <1>12, <1>13, <1>15, <1>16, <1>21, <2>1, Zenon DEF Halt
<1> QED
  BY <1>0, <1>1, <1>3, <1>8, <1>10, <1>13, <1>14, <1>17, <1>18, <1>19, <1>20, <1>21, Zenon
  DEF Next

(* Every run, queue, route and recent-thread pointer stays of its type: a  *)
(* counter of turns or of continuations never passes its limit, and a      *)
(* route that is under way has a run.                                      *)
THEOREM TypeCorrect == Spec => []TypeOK
<1> QED BY InitType, NextType, PTL DEF Spec

(***************************************************************************)
(* No key outlives its run.  A key is put into the active map only for a   *)
(* run whose queue is not finishing; the last step of a finisher takes the *)
(* keys of its run out, and by then the queue is finishing, which it stays.*)
(***************************************************************************)

RunOf(a) == IF a \in Threads THEN a ELSE Run(a)
Past(a)  == fin[a].at \in {"store", "index", "release", "forget"}

UnusedRoutesFinishNothing == \A h \in Halters : halter[h].at = "idle" => fin[h] = Idle
FinishersHaveMarked ==
  \A a \in Actors : Past(a) => RunOf(a) \in Threads /\ steering[RunOf(a)] = "finishing"
ForgottenForGood ==
  \A t \in Threads : t \notin listed /\ phase[t] # "new" =>
    steering[t] = "finishing" /\ \A m \in Messages : alias[m] # t

IInv == TypeOK /\ UnusedRoutesFinishNothing /\ FinishersHaveMarked /\ ForgottenForGood

\* A queue that is finishing stays so; one that is not open takes no steer.
LEMMA QueueCloses ==
  ASSUME TypeOK, [Next]_vars, NEW t \in Threads
  PROVE  /\ steering[t] # "open" => steering'[t] # "open" /\ accepted'[t] = accepted[t]
         /\ steering[t] = "finishing" => steering'[t] = "finishing"
<1> DEFINE G == /\ steering[t] # "open" => steering'[t] # "open" /\ accepted'[t] = accepted[t]
                /\ steering[t] = "finishing" => steering'[t] = "finishing"
<1>0. steering \in [Threads -> {"open", "completed", "finishing"}]
  BY DEF TypeOK
<1>s. UNCHANGED <<steering, accepted>> => G
  OBVIOUS
<1> USE DEF run, finished, disk, ghosts
<1>1. ASSUME NEW u \in Threads, Start(u) \/ SendReply(u) \/ ModelFails(u) \/ CommitFails(u) PROVE G
  BY <1>1, <1>s, Zenon DEF Start, SendReply, ModelFails, CommitFails
<1>2. ASSUME NEW u \in Threads, Owner(u) PROVE G
  <2>1. CASE DrainSteers(u) \/ ToolTurn(u) \/ ToolLimit(u) \/ FinalAnswer(u) \/ Commit(u) \/ Killed(u)
    BY <1>s, <2>1, Zenon DEF DrainSteers, Drained, ToolTurn, ToolLimit, FinalAnswer, Commit, Killed
  <2>2. CASE CompleteSteering(u)
    BY <1>0, <2>2 DEF CompleteSteering
  <2>3. CASE Finish(u, u)
    BY <1>0, <2>3 DEF Finish, FinishMark, FinishStore, FinishRecent, FinishIndex, FinishRelease, FinishForget
  <2> QED BY <1>2, <2>1, <2>2, <2>3, Zenon DEF Owner
<1>3. ASSUME NEW h \in Halters, Halt(h) PROVE G
  <2>1. CASE HaltCancel(h) \/ HaltWaited(h)
    BY <1>s, <2>1, Zenon DEF HaltCancel, HaltWaited
  <2>2. CASE Finish(h, Run(h))
    BY <1>0, <2>2 DEF Finish, FinishMark, FinishStore, FinishRecent, FinishIndex, FinishRelease, FinishForget
  <2> QED BY <1>3, <2>1, <2>2, Zenon DEF Halt
<1>4. ASSUME NEW a, NEW u, FinishFails(a, u) PROVE G
  BY <1>4, <1>s, Zenon DEF FinishFails
<1>5. ASSUME NEW h \in Halters, HaltLookup(h) PROVE G
  BY <1>5, <1>s, Zenon DEF HaltLookup
<1>6. ASSUME NEW s \in Steers, SteerLookup(s) PROVE G
  BY <1>6, <1>s, Zenon DEF SteerLookup
<1>7. ASSUME NEW s \in Steers, EnqueueSteer(s) PROVE G
  <2>1. accepted \in [Threads -> Seq(Steers)]
    BY DEF TypeOK
  <2> QED BY <1>7, <2>1 DEF EnqueueSteer, Accepts
<1>8. ASSUME UNCHANGED vars PROVE G
  BY <1>8, <1>s, Zenon DEF vars
<1> HIDE DEF G
<1>9. G
  BY <1>1, <1>2, <1>3, <1>4, <1>5, <1>6, <1>7, <1>8, Zenon DEF Next
<1> QED BY <1>9 DEF G

\* The invariant holds at first ...
LEMMA InitInv == Init => IInv
BY InitType, ActiveThreadAssumption
   DEF Init, IInv, UnusedRoutesFinishNothing, FinishersHaveMarked, ForgottenForGood, Past, Idle,
       Unused, Actors, Threads

\* ... and is inductive.
LEMMA NextInv == IInv /\ [Next]_vars => IInv'
<1> SUFFICES ASSUME IInv, [Next]_vars PROVE IInv'
  OBVIOUS
<1>t. TypeOK /\ TypeOK'
  BY NextType DEF IInv
<1>q. \A t \in Threads : steering[t] = "finishing" => steering'[t] = "finishing"
  BY <1>t, QueueCloses
<1>k. /\ fin \in [Actors -> FinType] /\ phase \in [Threads -> Phases]
      /\ halter \in [Halters -> RouteType] /\ steer \in [Steers -> SteerType]
      /\ steering \in [Threads -> {"open", "completed", "finishing"}]
      /\ alias \in [Messages -> Threads \cup {0}]
  BY <1>t, Zenon DEF TypeOK, FinType, RouteType, SteerType
<1>a. /\ \A t \in Threads : t \in Actors /\ t \notin Halters
      /\ \A h \in Halters : h \in Actors /\ h \notin Threads
  BY ActiveThreadAssumption DEF Actors, Threads
<1> USE DEF run, finished, disk, ghosts, Goto, Run
<1> DEFINE J == UnusedRoutesFinishNothing /\ FinishersHaveMarked /\ ForgottenForGood
<1>j. J
  BY DEF IInv
\* A route that goes on keeps its run, and so does the end of any actor.
<1>r. ASSUME NEW a \in Halters, NEW p, halter' = [halter EXCEPT ![a].at = p]
      PROVE  /\ \A h \in Halters : halter'[h].on = halter[h].on
             /\ \A h \in Halters : halter'[h].at = IF h = a THEN p ELSE halter[h].at
  <2>1. halter[a] = [at |-> halter[a].at, on |-> halter[a].on]
    BY <1>k DEF RouteType, Unused
  <2>2. halter'[a] = [halter[a] EXCEPT !.at = p] /\ \A h \in Halters : h # a => halter'[h] = halter[h]
    BY <1>k, <1>r
  <2>3. halter'[a].at = p /\ halter'[a].on = halter[a].on
    BY <2>1, <2>2
  <2> QED BY <2>2, <2>3
<1>e. ASSUME NEW a \in Actors, Ends(a) PROVE \A b \in Actors : RunOf(b)' = RunOf(b)
  <2>1. \A h \in Halters : halter'[h].on = halter[h].on
    BY <1>e, <1>r DEF Ends
  <2> QED BY <2>1 DEF RunOf, Actors
<1>1. ASSUME NEW t \in Threads, Start(t) PROVE J'
  <2>1. UnusedRoutesFinishNothing'
    BY <1>1, <1>j, <1>k, <1>a DEF Start, Request, UnusedRoutesFinishNothing, RunOf, Idle
  <2>2. FinishersHaveMarked'
    BY <1>1, <1>j, <1>k, <1>a, <1>q DEF Start, Request, FinishersHaveMarked, UnusedRoutesFinishNothing, RunOf, Past, Idle
  <2>3. ForgottenForGood'
    BY <1>1, <1>j, <1>k, <1>a DEF Start, Request, ForgottenForGood, FinishersHaveMarked, RunOf, Past
  <2> QED BY <2>1, <2>2, <2>3
<1>2. ASSUME NEW t \in Threads, DrainSteers(t) PROVE J'
  <2>1. UnusedRoutesFinishNothing'
    BY <1>2, <1>j, <1>k, <1>a DEF DrainSteers, Deliver, Drained, UnusedRoutesFinishNothing, RunOf, Idle
  <2>2. FinishersHaveMarked'
    BY <1>2, <1>j, <1>k, <1>a, <1>q DEF DrainSteers, Deliver, Drained, FinishersHaveMarked, UnusedRoutesFinishNothing, RunOf, Past, Idle
  <2>3. ForgottenForGood'
    BY <1>2, <1>j, <1>k, <1>a DEF DrainSteers, Deliver, Drained, ForgottenForGood, FinishersHaveMarked, RunOf, Past
  <2> QED BY <2>1, <2>2, <2>3
<1>3. ASSUME NEW t \in Threads, SendReply(t) PROVE J'
  <2>1. UnusedRoutesFinishNothing'
    BY <1>3, <1>j, <1>k, <1>a DEF SendReply, addActiveThreadMessage, UnusedRoutesFinishNothing, RunOf, Idle
  <2>2. FinishersHaveMarked'
    BY <1>3, <1>j, <1>k, <1>a, <1>q DEF SendReply, addActiveThreadMessage, FinishersHaveMarked, UnusedRoutesFinishNothing, RunOf, Past, Idle
  <2>3. ForgottenForGood'
    BY <1>3, <1>j, <1>k, <1>a DEF SendReply, addActiveThreadMessage, ForgottenForGood, FinishersHaveMarked, RunOf, Past
  <2> QED BY <2>1, <2>2, <2>3
<1>4. ASSUME NEW t \in Threads, ToolTurn(t) PROVE J'
  <2>1. UnusedRoutesFinishNothing'
    BY <1>4, <1>j, <1>k, <1>a DEF ToolTurn, UnusedRoutesFinishNothing, RunOf, Idle
  <2>2. FinishersHaveMarked'
    BY <1>4, <1>j, <1>k, <1>a, <1>q DEF ToolTurn, FinishersHaveMarked, UnusedRoutesFinishNothing, RunOf, Past, Idle
  <2>3. ForgottenForGood'
    BY <1>4, <1>j, <1>k, <1>a DEF ToolTurn, ForgottenForGood, FinishersHaveMarked, RunOf, Past
  <2> QED BY <2>1, <2>2, <2>3
<1>5. ASSUME NEW t \in Threads, ToolLimit(t) PROVE J'
  <2>1. UnusedRoutesFinishNothing'
    BY <1>5, <1>j, <1>k, <1>a DEF ToolLimit, UnusedRoutesFinishNothing, RunOf, Idle
  <2>2. FinishersHaveMarked'
    BY <1>5, <1>j, <1>k, <1>a, <1>q DEF ToolLimit, FinishersHaveMarked, UnusedRoutesFinishNothing, RunOf, Past, Idle
  <2>3. ForgottenForGood'
    BY <1>5, <1>j, <1>k, <1>a DEF ToolLimit, ForgottenForGood, FinishersHaveMarked, RunOf, Past
  <2> QED BY <2>1, <2>2, <2>3
<1>6. ASSUME NEW t \in Threads, FinalAnswer(t) PROVE J'
  <2>1. UnusedRoutesFinishNothing'
    BY <1>6, <1>j, <1>k, <1>a DEF FinalAnswer, UnusedRoutesFinishNothing, RunOf, Idle
  <2>2. FinishersHaveMarked'
    BY <1>6, <1>j, <1>k, <1>a, <1>q DEF FinalAnswer, FinishersHaveMarked, UnusedRoutesFinishNothing, RunOf, Past, Idle
  <2>3. ForgottenForGood'
    BY <1>6, <1>j, <1>k, <1>a DEF FinalAnswer, ForgottenForGood, FinishersHaveMarked, RunOf, Past
  <2> QED BY <2>1, <2>2, <2>3
<1>7. ASSUME NEW t \in Threads, CompleteSteering(t) PROVE J'
  <2>1. UnusedRoutesFinishNothing'
    BY <1>7, <1>j, <1>k, <1>a DEF CompleteSteering, Late, UnusedRoutesFinishNothing, RunOf, Idle
  <2>2. FinishersHaveMarked'
    BY <1>7, <1>j, <1>k, <1>a, <1>q DEF CompleteSteering, Late, FinishersHaveMarked, UnusedRoutesFinishNothing, RunOf, Past, Idle
  <2>3. ForgottenForGood'
    BY <1>7, <1>j, <1>k, <1>a DEF CompleteSteering, Late, ForgottenForGood, FinishersHaveMarked, RunOf, Past
  <2> QED BY <2>1, <2>2, <2>3
<1>8. ASSUME NEW t \in Threads, ModelFails(t) PROVE J'
  <2>1. UnusedRoutesFinishNothing'
    BY <1>8, <1>j, <1>k, <1>a DEF ModelFails, UnusedRoutesFinishNothing, RunOf, Idle
  <2>2. FinishersHaveMarked'
    BY <1>8, <1>j, <1>k, <1>a, <1>q DEF ModelFails, FinishersHaveMarked, UnusedRoutesFinishNothing, RunOf, Past, Idle
  <2>3. ForgottenForGood'
    BY <1>8, <1>j, <1>k, <1>a DEF ModelFails, ForgottenForGood, FinishersHaveMarked, RunOf, Past
  <2> QED BY <2>1, <2>2, <2>3
<1>9. ASSUME NEW t \in Threads, Commit(t) PROVE J'
  <2>1. UnusedRoutesFinishNothing'
    BY <1>9, <1>j, <1>k, <1>a DEF Commit, addActiveThreadMessage, Mark, UnusedRoutesFinishNothing, RunOf, Idle
  <2>2. FinishersHaveMarked'
    BY <1>9, <1>j, <1>k, <1>a, <1>q DEF Commit, addActiveThreadMessage, Mark, FinishersHaveMarked, UnusedRoutesFinishNothing, RunOf, Past, Idle
  <2>3. ForgottenForGood'
    BY <1>9, <1>j, <1>k, <1>a DEF Commit, addActiveThreadMessage, Mark, ForgottenForGood, FinishersHaveMarked, RunOf, Past
  <2> QED BY <2>1, <2>2, <2>3
<1>10. ASSUME NEW t \in Threads, CommitFails(t) PROVE J'
  <2>1. UnusedRoutesFinishNothing'
    BY <1>10, <1>j, <1>k, <1>a DEF CommitFails, Unwinds, Mark, UnusedRoutesFinishNothing, RunOf, Idle
  <2>2. FinishersHaveMarked'
    BY <1>10, <1>j, <1>k, <1>a, <1>q DEF CommitFails, Unwinds, Mark, FinishersHaveMarked, UnusedRoutesFinishNothing, RunOf, Past, Idle
  <2>3. ForgottenForGood'
    BY <1>10, <1>j, <1>k, <1>a DEF CommitFails, Unwinds, Mark, ForgottenForGood, FinishersHaveMarked, RunOf, Past
  <2> QED BY <2>1, <2>2, <2>3
<1>11. ASSUME NEW t \in Threads, Killed(t) PROVE J'
  <2>1. UnusedRoutesFinishNothing'
    BY <1>11, <1>j, <1>k, <1>a DEF Killed, Unwinds, Mark, UnusedRoutesFinishNothing, RunOf, Idle
  <2>2. FinishersHaveMarked'
    BY <1>11, <1>j, <1>k, <1>a, <1>q DEF Killed, Unwinds, Mark, FinishersHaveMarked, UnusedRoutesFinishNothing, RunOf, Past, Idle
  <2>3. ForgottenForGood'
    BY <1>11, <1>j, <1>k, <1>a DEF Killed, Unwinds, Mark, ForgottenForGood, FinishersHaveMarked, RunOf, Past
  <2> QED BY <2>1, <2>2, <2>3
<1>12. ASSUME NEW a \in Actors, NEW t \in Threads, RunOf(a) = t, a \in Halters => Run(a) # 0, Finish(a, t)
       PROVE  J'
  <2>1. CASE FinishMark(a, t)
    <3>1. UnusedRoutesFinishNothing'
      BY <1>12, <2>1, <1>j, <1>k, <1>a DEF FinishMark, UnusedRoutesFinishNothing, Idle, RouteType, Unused
    <3>2. FinishersHaveMarked'
      BY <1>12, <2>1, <1>j, <1>k, <1>a, <1>q DEF FinishMark, FinishersHaveMarked, RunOf, Past, Idle
    <3>3. ForgottenForGood'
      BY <1>12, <2>1, <1>j, <1>k, <1>a DEF FinishMark, ForgottenForGood, FinishersHaveMarked, RunOf, Past
    <3> QED BY <3>1, <3>2, <3>3
  <2>2. CASE FinishStore(a, t)
    <3>1. UnusedRoutesFinishNothing'
      BY <1>12, <2>2, <1>j, <1>k, <1>a DEF FinishStore, UnusedRoutesFinishNothing, Idle, RouteType, Unused
    <3>2. FinishersHaveMarked'
      BY <1>12, <2>2, <1>j, <1>k, <1>a, <1>q DEF FinishStore, FinishersHaveMarked, RunOf, Past, Idle
    <3>3. ForgottenForGood'
      BY <1>12, <2>2, <1>j, <1>k, <1>a DEF FinishStore, ForgottenForGood, FinishersHaveMarked, RunOf, Past
    <3> QED BY <3>1, <3>2, <3>3
  <2>3. CASE FinishRecent(a, t)
    <3>1. UnusedRoutesFinishNothing'
      BY <1>12, <2>3, <1>j, <1>k, <1>a DEF FinishRecent, UnusedRoutesFinishNothing, Idle, RouteType, Unused
    <3>2. FinishersHaveMarked'
      BY <1>12, <2>3, <1>j, <1>k, <1>a, <1>q DEF FinishRecent, FinishersHaveMarked, RunOf, Past, Idle
    <3>3. ForgottenForGood'
      BY <1>12, <2>3, <1>j, <1>k, <1>a DEF FinishRecent, ForgottenForGood, FinishersHaveMarked, RunOf, Past
    <3> QED BY <3>1, <3>2, <3>3
  <2>4. CASE FinishIndex(a, t)
    <3>1. UnusedRoutesFinishNothing'
      BY <1>12, <2>4, <1>j, <1>k, <1>a DEF FinishIndex, UnusedRoutesFinishNothing, Idle, RouteType, Unused
    <3>2. FinishersHaveMarked'
      BY <1>12, <2>4, <1>j, <1>k, <1>a, <1>q DEF FinishIndex, FinishersHaveMarked, RunOf, Past, Idle
    <3>3. ForgottenForGood'
      BY <1>12, <2>4, <1>j, <1>k, <1>a DEF FinishIndex, ForgottenForGood, FinishersHaveMarked, RunOf, Past
    <3> QED BY <3>1, <3>2, <3>3
  <2>5. CASE FinishRelease(a, t)
    <3>1. UnusedRoutesFinishNothing'
      BY <1>12, <2>5, <1>j, <1>k, <1>a DEF FinishRelease, UnusedRoutesFinishNothing, Idle, RouteType, Unused
    <3>2. FinishersHaveMarked'
      BY <1>12, <2>5, <1>j, <1>k, <1>a, <1>q DEF FinishRelease, FinishersHaveMarked, RunOf, Past, Idle
    <3>3. ForgottenForGood'
      BY <1>12, <2>5, <1>j, <1>k, <1>a DEF FinishRelease, ForgottenForGood, FinishersHaveMarked, RunOf, Past
    <3> QED BY <3>1, <3>2, <3>3
  <2>6. CASE FinishForget(a, t)
    <3>1. UnusedRoutesFinishNothing'
      BY <1>12, <2>6, <1>j, <1>k, <1>a DEF FinishForget, Ends, UnusedRoutesFinishNothing, Idle, RouteType, Unused
    <3>2. FinishersHaveMarked'
      <4>1. fin' = [fin EXCEPT ![a] = Idle] /\ UNCHANGED steering
        BY <2>6 DEF FinishForget
      <4>2. \A b \in Actors : RunOf(b)' = RunOf(b)
        BY <1>e, <2>6 DEF FinishForget
      <4>3. \A b \in Actors : Past(b)' => Past(b)
        BY <1>k, <4>1 DEF Past, Idle
      <4> QED BY <1>j, <4>1, <4>2, <4>3 DEF FinishersHaveMarked
    <3>3. ForgottenForGood'
      <4>1. steering[t] = "finishing" /\ UNCHANGED steering
        BY <1>12, <1>j, <2>6 DEF FinishForget, FinishersHaveMarked, Past
      <4>2. alias' = [m \in Messages |-> IF alias[m] = t THEN 0 ELSE alias[m]] /\ listed' = listed \ {t}
        BY <2>6 DEF FinishForget
      <4>3. \A u \in Threads : u # t => phase'[u] = phase[u]
        BY <1>12, <1>k, <2>6 DEF FinishForget, Ends, RunOf
      <4>4. \A u \in Threads : u # 0
        BY ActiveThreadAssumption DEF Threads
      <4> QED BY <1>j, <4>1, <4>2, <4>3, <4>4 DEF ForgottenForGood
    <3> QED BY <3>1, <3>2, <3>3
  <2> QED BY <1>12, <2>1, <2>2, <2>3, <2>4, <2>5, <2>6, Zenon DEF Finish
<1>13. ASSUME NEW a \in Actors, NEW t \in Threads, RunOf(a) = t, FinishFails(a, t) PROVE J'
  <2>1. UnusedRoutesFinishNothing'
    BY <1>13, <1>j, <1>k, <1>a DEF FinishFails, Unwinds, Ends, Mark, UnusedRoutesFinishNothing, RunOf, Idle
  <2>2. FinishersHaveMarked'
    <3>1. \A b \in Actors : Past(b)' => Past(b)
      BY <1>13, <1>k DEF FinishFails, Unwinds, Past, Mark, Idle
    <3>2. \A b \in Actors : RunOf(b)' = RunOf(b)
      BY <1>13, <1>e DEF FinishFails, RunOf
    <3> QED BY <1>13, <1>j, <3>1, <3>2 DEF FinishFails, FinishersHaveMarked
  <2>3. ForgottenForGood'
    BY <1>13, <1>j, <1>k, <1>a DEF FinishFails, Unwinds, Ends, Mark, ForgottenForGood, FinishersHaveMarked, RunOf, Past
  <2> QED BY <2>1, <2>2, <2>3
<1>14. ASSUME NEW h \in Halters, HaltLookup(h) PROVE J'
  <2>1. UnusedRoutesFinishNothing'
    BY <1>14, <1>j, <1>k, <1>a DEF HaltLookup, UnusedRoutesFinishNothing, RunOf, Idle
  <2>2. FinishersHaveMarked'
    BY <1>14, <1>j, <1>k, <1>a, <1>q DEF HaltLookup, FinishersHaveMarked, UnusedRoutesFinishNothing, RunOf, Past, Idle
  <2>3. ForgottenForGood'
    BY <1>14, <1>j, <1>k, <1>a DEF HaltLookup, ForgottenForGood, FinishersHaveMarked, RunOf, Past
  <2> QED BY <2>1, <2>2, <2>3
<1>15. ASSUME NEW h \in Halters, HaltCancel(h) PROVE J'
  <2>0. /\ halter[h].at = "cancel" /\ UNCHANGED steering
        /\ \/ halter' = [halter EXCEPT ![h].at = "finish"]
           \/ halter' = [halter EXCEPT ![h].at = "wait"]
        /\ fin' = fin \/ fin' = [fin EXCEPT ![h] = Mark]
    BY <1>15, Zenon DEF HaltCancel
  <2>1. UnusedRoutesFinishNothing'
    <3>1. \A g \in Halters : halter'[g].at = "idle" => g # h /\ halter[g].at = "idle"
      BY <1>r, <2>0
    <3> QED BY <1>a, <1>j, <1>k, <2>0, <3>1 DEF UnusedRoutesFinishNothing
  <2>2. FinishersHaveMarked'
    <3>1. \A b \in Actors : Past(b)' => Past(b)
      BY <1>k, <2>0 DEF Past, Mark
    <3>2. \A b \in Actors : RunOf(b)' = RunOf(b)
      BY <1>r, <2>0 DEF RunOf, Actors
    <3> QED BY <1>j, <2>0, <3>1, <3>2 DEF FinishersHaveMarked
  <2>3. ForgottenForGood'
    BY <1>15, <1>j, <1>k, <1>a DEF HaltCancel, Mark, ForgottenForGood, FinishersHaveMarked, RunOf, Past
  <2> QED BY <2>1, <2>2, <2>3
<1>16. ASSUME NEW h \in Halters, HaltWaited(h) PROVE J'
  <2>1. UnusedRoutesFinishNothing'
    BY <1>16, <1>j, <1>k, <1>a DEF HaltWaited, Mark, UnusedRoutesFinishNothing, RunOf, Idle
  <2>2. FinishersHaveMarked'
    BY <1>16, <1>j, <1>k, <1>a, <1>q DEF HaltWaited, Mark, FinishersHaveMarked, UnusedRoutesFinishNothing, RunOf, Past, Idle
  <2>3. ForgottenForGood'
    BY <1>16, <1>j, <1>k, <1>a DEF HaltWaited, Mark, ForgottenForGood, FinishersHaveMarked, RunOf, Past
  <2> QED BY <2>1, <2>2, <2>3
<1>17. ASSUME NEW s \in Steers, SteerLookup(s) PROVE J'
  <2>1. UnusedRoutesFinishNothing'
    BY <1>17, <1>j, <1>k, <1>a DEF SteerLookup, UnusedRoutesFinishNothing, RunOf, Idle
  <2>2. FinishersHaveMarked'
    BY <1>17, <1>j, <1>k, <1>a, <1>q DEF SteerLookup, FinishersHaveMarked, UnusedRoutesFinishNothing, RunOf, Past, Idle
  <2>3. ForgottenForGood'
    BY <1>17, <1>j, <1>k, <1>a DEF SteerLookup, ForgottenForGood, FinishersHaveMarked, RunOf, Past
  <2> QED BY <2>1, <2>2, <2>3
<1>18. ASSUME NEW s \in Steers, EnqueueSteer(s) PROVE J'
  <2>1. UnusedRoutesFinishNothing'
    BY <1>18, <1>j, <1>k, <1>a DEF EnqueueSteer, Accepts, Aliased, Refused, UnusedRoutesFinishNothing, RunOf, Idle
  <2>2. FinishersHaveMarked'
    BY <1>18, <1>j, <1>k, <1>a, <1>q DEF EnqueueSteer, Accepts, Aliased, Refused, FinishersHaveMarked, UnusedRoutesFinishNothing, RunOf, Past, Idle
  <2>3. ForgottenForGood'
    BY <1>18, <1>j, <1>k, <1>a DEF EnqueueSteer, Accepts, Aliased, Refused, ForgottenForGood, FinishersHaveMarked, RunOf, Past
  <2> QED BY <2>1, <2>2, <2>3
<1>19. ASSUME UNCHANGED vars PROVE J'
  BY <1>19, <1>j DEF vars, UnusedRoutesFinishNothing, FinishersHaveMarked, ForgottenForGood, RunOf, Past
<1> HIDE DEF J
<1>20. ASSUME NEW t \in Threads, Owner(t) \/ FinishFails(t, t) PROVE J'
  <2>1. RunOf(t) = t /\ t \in Actors /\ t \notin Halters
    BY <1>a DEF RunOf
  <2> QED BY <1>2, <1>4, <1>5, <1>6, <1>7, <1>9, <1>11, <1>12, <1>13, <1>20, <2>1, Zenon DEF Owner
<1>21. ASSUME NEW h \in Halters, Halt(h) \/ (Run(h) # 0 /\ FinishFails(h, Run(h))) PROVE J'
  <2>1. h \in Actors /\ RunOf(h) = Run(h) /\ (Run(h) # 0 => Run(h) \in Threads)
    BY <1>a, <1>k DEF RunOf, RouteType, Unused
  <2> QED BY <1>12, <1>13, <1>15, <1>16, <1>21, <2>1, Zenon DEF Halt
<1>22. J'
  BY <1>1, <1>3, <1>8, <1>10, <1>14, <1>17, <1>18, <1>19, <1>20, <1>21, Zenon DEF Next
<1> QED BY <1>t, <1>22 DEF IInv, J

(* No key of the active map outlives its run: when the run is over, its    *)
(* waiters are released and it is no longer listed, no message finds it.   *)
THEOREM KeysAreForgotten == Spec => []NoKeyOutlivesItsRun
<1>1. IInv => NoKeyOutlivesItsRun
  BY DEF IInv, ForgottenForGood, NoKeyOutlivesItsRun, Forgotten
<1> QED BY <1>1, InitInv, NextInv, PTL DEF Spec

(* A run never takes steers again once it closed. *)
THEOREM Closes == Spec => ClosedStaysClosed
<1>1. TypeOK /\ [Next]_vars =>
        [\A t \in Threads : steering[t] # "open" =>
           steering'[t] # "open" /\ accepted'[t] = accepted[t]]_vars
  BY QueueCloses
<1> QED BY <1>1, TypeCorrect, PTL DEF Spec, ClosedStaysClosed

(***************************************************************************)
(* Accepted steers are served.  A finisher drops what it finds in an open  *)
(* queue, so the argument is about who may still find one: a run whose     *)
(* queue is open comes to its finish only by a failure, and a route that   *)
(* halts it has marked it cancelled or found it over.                      *)
(***************************************************************************)

ClosingIsExplained ==
  \A t \in Threads :
    /\ phase[t] \in {"commit", "finish"} => steering[t] # "open" \/ t \in excused
    /\ phase[t] = "discard" => t \in excused
    /\ phase[t] = "gone" => steering[t] = "finishing"
    /\ fin[t].at = "mark" => phase[t] \in {"finish", "discard"}
RoutesHaveHalted ==
  \A h \in Halters :
    /\ halter[h].at = "wait" => Run(h) \in cancelled
    /\ fin[h].at = "mark" => Run(h) \in Threads /\ (Run(h) \in cancelled \/ phase[Run(h)] = "gone")
SteersAreAccounted ==
  \A t \in Threads :
    /\ accepted[t] = delivered[t] \o dropped[t] \o queue[t]
    /\ steering[t] # "open" => queue[t] = <<>>
    /\ dropped[t] # <<>> => steering[t] = "finishing" /\ t \in excused \cup cancelled

ServedInv == IInv /\ ClosingIsExplained /\ RoutesHaveHalted /\ SteersAreAccounted

\* Nothing is accepted at first ...
LEMMA InitServed == Init => ServedInv
<1> SUFFICES ASSUME Init PROVE ServedInv
  OBVIOUS
<1>1. ClosingIsExplained /\ RoutesHaveHalted
  BY ActiveThreadAssumption
     DEF Init, ClosingIsExplained, RoutesHaveHalted, Idle, Unused, Actors, Threads
<1>2. SteersAreAccounted
  BY DEF Init, SteersAreAccounted
<1> QED BY <1>1, <1>2, InitInv DEF ServedInv

\* What has been excused, cancelled or ended stays so.
LEMMA ExcusesStay ==
  ASSUME TypeOK, [Next]_vars
  PROVE  /\ excused \subseteq excused' /\ cancelled \subseteq cancelled'
         /\ \A t \in Threads : phase[t] = "gone" => phase'[t] = "gone"
<1> DEFINE G == /\ excused \subseteq excused' /\ cancelled \subseteq cancelled'
                /\ \A t \in Threads : phase[t] = "gone" => phase'[t] = "gone"
<1>0. phase \in [Threads -> Phases]
  BY DEF TypeOK
<1> USE DEF run, finished, disk, ghosts, Goto
<1>s. UNCHANGED <<excused, cancelled, phase>> => G
  OBVIOUS
<1>1. ASSUME NEW u \in Threads, Start(u) \/ ModelFails(u) \/ CommitFails(u) \/ Killed(u) PROVE G
  BY <1>0, <1>1 DEF Start, ModelFails, CommitFails, Killed, Unwinds
<1>2. ASSUME NEW u \in Threads, DrainSteers(u) \/ ToolTurn(u) \/ ToolLimit(u) \/ FinalAnswer(u)
             \/ CompleteSteering(u) \/ Commit(u)
      PROVE  G
  BY <1>0, <1>2 DEF DrainSteers, Deliver, ToolTurn, ToolLimit, FinalAnswer, CompleteSteering, Commit
<1>3. ASSUME NEW a \in Actors, NEW u, Finish(a, u) \/ FinishFails(a, u) PROVE G
  <2>1. CASE FinishMark(a, u) \/ FinishStore(a, u) \/ FinishRecent(a, u) \/ FinishIndex(a, u)
             \/ FinishRelease(a, u)
    BY <1>s, <2>1, Zenon DEF FinishMark, FinishStore, FinishRecent, FinishIndex, FinishRelease
  <2>2. CASE FinishForget(a, u)
    BY <1>0, <2>2 DEF FinishForget, Ends
  <2>3. CASE FinishFails(a, u)
    BY <1>0, <2>3 DEF FinishFails, Ends, Unwinds
  <2> QED BY <1>3, <2>1, <2>2, <2>3 DEF Finish
<1>4. ASSUME NEW h \in Halters, HaltLookup(h) \/ HaltCancel(h) \/ HaltWaited(h) PROVE G
  BY <1>4 DEF HaltLookup, HaltCancel, HaltWaited
<1>5. ASSUME NEW u \in Threads, SendReply(u) PROVE G
  BY <1>5, <1>s, Zenon DEF SendReply
<1>6. ASSUME NEW s \in Steers, SteerLookup(s) \/ EnqueueSteer(s) PROVE G
  BY <1>6, <1>s, Zenon DEF SteerLookup, EnqueueSteer
<1>7. ASSUME UNCHANGED vars PROVE G
  BY <1>7, <1>s, Zenon DEF vars
<1>8. \A u \in Threads : u \in Actors
  BY DEF Actors
<1>9. \A h \in Halters : h \in Actors
  BY DEF Actors
<1> HIDE DEF G
<1>10. G
  BY <1>1, <1>2, <1>3, <1>4, <1>5, <1>6, <1>7, <1>8, <1>9, Zenon DEF Next, Owner, Halt
<1> QED BY <1>10 DEF G

\* Every step keeps the two facts about who comes to a finish.
LEMMA NextExplained ==
  IInv /\ ClosingIsExplained /\ RoutesHaveHalted /\ [Next]_vars => (ClosingIsExplained /\ RoutesHaveHalted)'
<1> SUFFICES ASSUME IInv, ClosingIsExplained, RoutesHaveHalted, [Next]_vars
             PROVE  (ClosingIsExplained /\ RoutesHaveHalted)'
  OBVIOUS
<1> DEFINE J == ClosingIsExplained /\ RoutesHaveHalted
<1>j. J
  OBVIOUS
<1>t. TypeOK
  BY DEF IInv
<1>q. \A t \in Threads : /\ steering[t] # "open" => steering'[t] # "open"
                         /\ steering[t] = "finishing" => steering'[t] = "finishing"
  BY <1>t, QueueCloses
<1>s. /\ excused \subseteq excused' /\ cancelled \subseteq cancelled'
      /\ \A t \in Threads : phase[t] = "gone" => phase'[t] = "gone"
  BY <1>t, ExcusesStay
<1>k. /\ fin \in [Actors -> FinType] /\ phase \in [Threads -> Phases]
      /\ halter \in [Halters -> RouteType]
      /\ steering \in [Threads -> {"open", "completed", "finishing"}]
  BY <1>t, Zenon DEF TypeOK, FinType, RouteType
<1>a. /\ \A t \in Threads : t \in Actors /\ t \notin Halters
      /\ \A h \in Halters : h \in Actors /\ h \notin Threads
  BY ActiveThreadAssumption DEF Actors, Threads
<1> USE DEF run, finished, disk, ghosts, Goto
\* A step that leaves the routes and the finishers alone keeps the second fact.
<1>h. ASSUME UNCHANGED halter, \A h \in Halters : fin'[h].at = "mark" => fin[h].at = "mark"
      PROVE  RoutesHaveHalted'
  BY <1>h, <1>j, <1>s DEF RoutesHaveHalted, Run
\* The steps of a run itself, before it comes to its finish.
<1>1. ASSUME NEW t \in Threads, Start(t) \/ DrainSteers(t) \/ ToolTurn(t) \/ ToolLimit(t) \/ FinalAnswer(t)
             \/ CompleteSteering(t) \/ ModelFails(t)
      PROVE  J'
  <2>1. UNCHANGED <<halter, fin>>
    BY <1>1, Zenon DEF Start, DrainSteers, ToolTurn, ToolLimit, FinalAnswer, CompleteSteering, ModelFails
  <2>2. \A u \in Threads : u # t => phase'[u] = phase[u]
    BY <1>1, <1>k DEF Start, DrainSteers, ToolTurn, ToolLimit, FinalAnswer, CompleteSteering, ModelFails
  <2>3. phase[t] \notin {"finish", "discard"} /\ phase'[t] \in {"drain", "model", "closing", "commit"}
    BY <1>1, <1>k DEF Start, DrainSteers, ToolTurn, ToolLimit, FinalAnswer, CompleteSteering, ModelFails
  <2>4. phase'[t] = "commit" => steering'[t] # "open" \/ t \in excused'
    BY <1>1, <1>k DEF Start, DrainSteers, ToolTurn, ToolLimit, FinalAnswer, CompleteSteering, ModelFails
  <2>5. ClosingIsExplained'
    BY <1>j, <1>q, <1>s, <2>1, <2>2, <2>3, <2>4 DEF ClosingIsExplained
  <2> QED BY <1>h, <2>1, <2>5
\* The run comes to its finish, in one way or another.
<1>2. ASSUME NEW t \in Threads, Commit(t) \/ CommitFails(t) \/ Killed(t) PROVE J'
  <2>1. UNCHANGED halter /\ fin' = [fin EXCEPT ![t] = Mark]
    BY <1>2, Zenon DEF Commit, CommitFails, Killed, Unwinds
  <2>2. \/ phase' = [phase EXCEPT ![t] = "finish"] /\ phase[t] = "commit"
        \/ phase' = [phase EXCEPT ![t] = "discard"] /\ t \in excused'
    BY <1>2 DEF Commit, CommitFails, Killed, Unwinds
  <2>3. ClosingIsExplained'
    BY <1>a, <1>j, <1>k, <1>q, <1>s, <2>1, <2>2 DEF ClosingIsExplained
  <2> QED BY <1>a, <1>h, <1>k, <2>1, <2>3
\* A finisher goes on.
<1>3. ASSUME NEW a \in Actors, NEW t \in Threads, RunOf(a) = t, Finish(a, t) \/ FinishFails(a, t) PROVE J'
  <2>1. CASE FinishMark(a, t) \/ FinishStore(a, t) \/ FinishRecent(a, t) \/ FinishIndex(a, t)
             \/ FinishRelease(a, t)
    <3>1. UNCHANGED <<halter, phase>>
      BY <2>1, Zenon DEF FinishMark, FinishStore, FinishRecent, FinishIndex, FinishRelease
    <3>2. \A b \in Actors : fin'[b].at = "mark" => fin[b].at = "mark"
      BY <1>k, <2>1 DEF FinishMark, FinishStore, FinishRecent, FinishIndex, FinishRelease, FinType
    <3>3. ClosingIsExplained'
      BY <1>a, <1>j, <1>q, <1>s, <3>1, <3>2 DEF ClosingIsExplained
    <3> QED BY <1>a, <1>h, <3>1, <3>2, <3>3
  <2>2. CASE fin' = [fin EXCEPT ![a] = Idle] /\ Ends(a) /\ steering[t] = "finishing"
    <3>1. \A b \in Actors : fin'[b].at = "mark" => fin[b].at = "mark"
      BY <1>k, <2>2 DEF Idle
    <3>2. CASE a \in Threads /\ phase' = [phase EXCEPT ![a] = "gone"] /\ UNCHANGED halter
      <4>1. a = t
        BY <1>3, <3>2 DEF RunOf
      <4>2. fin'[t].at # "mark"
        BY <1>a, <1>k, <2>2, <4>1 DEF Idle
      <4>3. ClosingIsExplained'
        BY <1>a, <1>j, <1>k, <1>q, <1>s, <2>2, <3>1, <3>2, <4>1, <4>2 DEF ClosingIsExplained
      <4> QED BY <1>a, <1>h, <3>1, <3>2, <4>3
    <3>3. CASE a \in Halters /\ halter' = [halter EXCEPT ![a].at = "end"] /\ UNCHANGED phase
      <4>1. ClosingIsExplained'
        BY <1>a, <1>j, <1>q, <1>s, <3>1, <3>3 DEF ClosingIsExplained
      <4>2. \A h \in Halters : Run(h)' = Run(h) /\ (halter'[h].at = "wait" => halter[h].at = "wait")
        <5>1. halter[a] = [at |-> halter[a].at, on |-> halter[a].on]
          BY <1>k, <3>3 DEF RouteType, Unused
        <5>2. halter'[a] = [halter[a] EXCEPT !.at = "end"] /\ \A h \in Halters : h # a => halter'[h] = halter[h]
          BY <1>k, <3>3
        <5>3. halter'[a].at = "end" /\ halter'[a].on = halter[a].on
          BY <5>1, <5>2
        <5> QED BY <5>2, <5>3 DEF Run
      <4>3. RoutesHaveHalted'
        BY <1>a, <1>j, <1>s, <3>1, <4>2 DEF RoutesHaveHalted
      <4> QED BY <4>1, <4>3
    <3> QED BY <2>2, <3>2, <3>3, Zenon DEF Ends
  <2>3. CASE FinishForget(a, t)
    <3>1. steering[t] = "finishing"
      BY <1>3, <2>3 DEF FinishForget, IInv, FinishersHaveMarked, Past
    <3> QED BY <2>2, <2>3, <3>1 DEF FinishForget
  <2>4. CASE FinishFails(a, t)
    <3>1. steering[t] = "finishing"
      BY <1>3, <2>4 DEF FinishFails, IInv, FinishersHaveMarked, Past
    <3>2. CASE a = t /\ Unwinds(t) /\ UNCHANGED halter
      <4>1. ClosingIsExplained'
        BY <1>a, <1>j, <1>k, <1>q, <1>s, <3>2 DEF ClosingIsExplained, Unwinds
      <4>2. \A h \in Halters : fin'[h] = fin[h]
        BY <1>a, <1>k, <3>2 DEF Unwinds
      <4> QED BY <1>h, <3>2, <4>1, <4>2
    <3>3. CASE fin' = [fin EXCEPT ![a] = Idle] /\ Ends(a)
      BY <2>2, <3>1, <3>3
    <3> QED BY <2>4, <3>2, <3>3, Zenon DEF FinishFails
  <2> QED BY <1>3, <2>1, <2>3, <2>4, Zenon DEF Finish
\* Routes.
<1>4. ASSUME NEW h \in Halters, HaltLookup(h) PROVE J'
  <2>1. PICK t : halter' = [halter EXCEPT ![h] = [at |-> "cancel", on |-> t]]
    BY <1>4 DEF HaltLookup
  <2>2. fin[h] = Idle /\ UNCHANGED <<fin, phase, cancelled, excused, steering>>
    BY <1>4 DEF HaltLookup, IInv, UnusedRoutesFinishNothing
  <2>3. RoutesHaveHalted'
    BY <1>j, <1>k, <2>1, <2>2 DEF RoutesHaveHalted, Run, Idle
  <2> QED BY <1>j, <2>2, <2>3 DEF ClosingIsExplained
<1>5. ASSUME NEW h \in Halters, HaltCancel(h) \/ HaltWaited(h) PROVE J'
  <2>1. UNCHANGED <<phase, excused, steering>> /\ Run(h) \in Threads
    <3>1. halter[h].at # "idle" /\ halter[h] \in RouteType
      BY <1>5, <1>k DEF HaltCancel, HaltWaited
    <3> QED BY <1>5, <3>1 DEF HaltCancel, HaltWaited, RouteType, Unused, Run
  <2>2. \/ /\ halter' = [halter EXCEPT ![h].at = "finish"] /\ fin' = [fin EXCEPT ![h] = Mark]
           /\ phase[Run(h)] = "gone" \/ Run(h) \in cancelled
        \/ /\ halter' = [halter EXCEPT ![h].at = "wait"] /\ Run(h) \in cancelled' /\ UNCHANGED fin
    BY <1>5 DEF HaltCancel, HaltWaited, Stopped
  <2>3. /\ \A g \in Halters : Run(g)' = Run(g) /\ (g # h => halter'[g] = halter[g])
        /\ halter'[h].at = "wait" => Run(h) \in cancelled'
    <3>1. halter[h] = [at |-> halter[h].at, on |-> halter[h].on]
      BY <1>k DEF RouteType, Unused
    <3>2. /\ \/ halter'[h] = [halter[h] EXCEPT !.at = "finish"]
             \/ halter'[h] = [halter[h] EXCEPT !.at = "wait"] /\ Run(h) \in cancelled'
          /\ \A g \in Halters : g # h => halter'[g] = halter[g]
      BY <1>k, <2>2
    <3>3. halter'[h].on = halter[h].on /\ (halter'[h].at = "wait" => Run(h) \in cancelled')
      BY <3>1, <3>2
    <3> QED BY <3>2, <3>3 DEF Run
  <2>4. RoutesHaveHalted'
    BY <1>a, <1>j, <1>k, <1>s, <2>1, <2>2, <2>3 DEF RoutesHaveHalted
  <2>5. \A t \in Threads : fin'[t] = fin[t]
    BY <1>a, <1>k, <2>2
  <2> QED BY <1>j, <2>1, <2>4, <2>5 DEF ClosingIsExplained
<1>6. ASSUME UNCHANGED <<halter, fin, phase, excused, steering>> PROVE J'
  BY <1>6, <1>h, <1>j DEF ClosingIsExplained
<1>7. ASSUME NEW t \in Threads, SendReply(t) PROVE J'
  BY <1>6, <1>7, Zenon DEF SendReply
<1>8. ASSUME NEW s \in Steers, SteerLookup(s) \/ EnqueueSteer(s) PROVE J'
  BY <1>6, <1>8, Zenon DEF SteerLookup, EnqueueSteer
<1>9. ASSUME UNCHANGED vars PROVE J'
  BY <1>6, <1>9, Zenon DEF vars
<1> HIDE DEF J
<1>10. \A t \in Threads : t \in Actors /\ RunOf(t) = t
  BY <1>a DEF RunOf
<1>11. \A h \in Halters : h \in Actors /\ RunOf(h) = Run(h) /\ (Run(h) # 0 => Run(h) \in Threads)
  BY <1>a, <1>k DEF RunOf, Run, RouteType, Unused
<1>12. ASSUME NEW t \in Threads, Owner(t) \/ FinishFails(t, t) PROVE J'
  BY <1>1, <1>2, <1>3, <1>10, <1>12, Zenon DEF Owner
<1>13. ASSUME NEW h \in Halters, Halt(h) \/ (Run(h) # 0 /\ FinishFails(h, Run(h))) PROVE J'
  BY <1>3, <1>5, <1>11, <1>13, Zenon DEF Halt
<1>14. J'
  BY <1>1, <1>2, <1>4, <1>7, <1>8, <1>9, <1>12, <1>13, Zenon DEF Next
<1> QED BY <1>14 DEF J

\* What it does to the whole to move a queue behind what was delivered ...
LEMMA DeliverQueue ==
  ASSUME NEW d \in Seq(Steers), NEW q \in Seq(Steers)
  PROVE  d \o <<>> \o q = (d \o q) \o <<>> \o <<>>
<1>1. d \o q \in Seq(Steers) /\ d \o <<>> = d
  BY ConcatEmptySeq
<1> QED BY <1>1, ConcatEmptySeq

\* ... or behind what was dropped ...
LEMMA DropQueue ==
  ASSUME NEW d \in Seq(Steers), NEW x \in Seq(Steers), NEW q \in Seq(Steers)
  PROVE  d \o x \o q = d \o (x \o q) \o <<>>
<1>1. x \o q \in Seq(Steers) /\ d \o (x \o q) \in Seq(Steers)
  OBVIOUS
<1> QED BY <1>1, ConcatEmptySeq, ConcatAssociative

\* ... and to append a steer to it.
LEMMA AppendSteer ==
  ASSUME NEW d \in Seq(Steers), NEW q \in Seq(Steers), NEW e \in Steers
  PROVE  Append(d \o <<>> \o q, e) = d \o <<>> \o Append(q, e)
<1>1. d \o <<>> = d /\ d \o q \in Seq(Steers) /\ <<e>> \in Seq(Steers)
  BY ConcatEmptySeq
<1>2. Append(d \o q, e) = (d \o q) \o <<e>> /\ Append(q, e) = q \o <<e>>
  BY <1>1, AppendIsConcat
<1>3. (d \o q) \o <<e>> = d \o (q \o <<e>>)
  BY <1>1, ConcatAssociative
<1> QED BY <1>1, <1>2, <1>3

\* Every step keeps account of the steers.
LEMMA NextServed == ServedInv /\ [Next]_vars => ServedInv'
<1> SUFFICES ASSUME ServedInv, [Next]_vars PROVE ServedInv'
  OBVIOUS
<1> DEFINE J == SteersAreAccounted
<1>j. J /\ IInv /\ ClosingIsExplained /\ RoutesHaveHalted
  BY DEF ServedInv
<1>t. TypeOK
  BY <1>j DEF IInv
<1>q. \A t \in Threads : /\ steering[t] # "open" => steering'[t] # "open"
                         /\ steering[t] = "finishing" => steering'[t] = "finishing"
  BY <1>t, QueueCloses
<1>s. excused \subseteq excused' /\ cancelled \subseteq cancelled'
  BY <1>t, ExcusesStay
<1>k. /\ queue \in [Threads -> Seq(Steers)] /\ accepted \in [Threads -> Seq(Steers)]
      /\ delivered \in [Threads -> Seq(Steers)] /\ dropped \in [Threads -> Seq(Steers)]
      /\ steering \in [Threads -> {"open", "completed", "finishing"}]
      /\ steer \in [Steers -> SteerType]
  BY <1>t, Zenon DEF TypeOK, SteerType
<1> USE DEF run, finished, disk, ghosts, Goto
\* A step that moves no steer.
<1>u. ASSUME UNCHANGED <<queue, accepted, delivered, dropped>>,
             \A t \in Threads : steering'[t] # "open" => steering[t] # "open" \/ queue[t] = <<>>
      PROVE  J'
  <2> SUFFICES ASSUME NEW t \in Threads
               PROVE  /\ accepted'[t] = delivered'[t] \o dropped'[t] \o queue'[t]
                      /\ steering'[t] # "open" => queue'[t] = <<>>
                      /\ dropped'[t] # <<>> => steering'[t] = "finishing" /\ t \in excused' \cup cancelled'
    BY DEF SteersAreAccounted
  <2>1. accepted'[t] = delivered'[t] \o dropped'[t] \o queue'[t]
    BY <1>j, <1>u DEF SteersAreAccounted
  <2>2. steering'[t] # "open" => queue'[t] = <<>>
    BY <1>j, <1>u DEF SteersAreAccounted
  <2>3. dropped'[t] # <<>> => steering'[t] = "finishing" /\ t \in excused' \cup cancelled'
    BY <1>j, <1>q, <1>s, <1>u DEF SteersAreAccounted
  <2> QED BY <2>1, <2>2, <2>3
\* The queue joins the transcript.
<1>d. ASSUME NEW t \in Threads, Deliver(t), UNCHANGED <<accepted, dropped, steering>> PROVE J'
  <2> SUFFICES ASSUME NEW u \in Threads
               PROVE  /\ accepted'[u] = delivered'[u] \o dropped'[u] \o queue'[u]
                      /\ steering'[u] # "open" => queue'[u] = <<>>
                      /\ dropped'[u] # <<>> => steering'[u] = "finishing" /\ u \in excused' \cup cancelled'
    BY DEF SteersAreAccounted
  <2>1. CASE u # t
    <3>1. delivered'[u] = delivered[u] /\ queue'[u] = queue[u]
      BY <1>d, <1>k, <2>1 DEF Deliver
    <3> QED BY <1>d, <1>j, <1>s, <3>1 DEF SteersAreAccounted
  <2>2. CASE u = t
    <3>1. delivered'[t] = delivered[t] \o queue[t] /\ queue'[t] = <<>> /\ accepted'[t] = accepted[t]
          /\ dropped'[t] = dropped[t]
      BY <1>d, <1>k DEF Deliver
    <3>2. accepted[t] = delivered[t] \o dropped[t] \o queue[t] /\ (dropped[t] = <<>> \/ queue[t] = <<>>)
      BY <1>j DEF SteersAreAccounted
    <3>3. delivered[t] \in Seq(Steers) /\ dropped[t] \in Seq(Steers) /\ queue[t] \in Seq(Steers)
      BY <1>k
    <3>4. accepted'[t] = delivered'[t] \o dropped'[t] \o queue'[t]
      <4>1. CASE dropped[t] = <<>>
        BY <3>1, <3>2, <3>3, <4>1, DeliverQueue
      <4>2. CASE queue[t] = <<>>
        <5>1. delivered[t] \o queue[t] = delivered[t]
          BY <3>3, <4>2, ConcatEmptySeq
        <5> QED BY <3>1, <3>2, <4>2, <5>1
      <4> QED BY <3>2, <4>1, <4>2
    <3> QED BY <1>d, <1>j, <1>s, <2>2, <3>1, <3>4 DEF SteersAreAccounted
  <2> QED BY <2>1, <2>2
<1>1. ASSUME NEW t \in Threads, DrainSteers(t) PROVE J'
  BY <1>1, <1>d, Zenon DEF DrainSteers, Drained
<1>2. ASSUME NEW t \in Threads, CompleteSteering(t) PROVE J'
  <2>1. CASE Late(t) /\ Deliver(t) /\ UNCHANGED steering
    BY <1>2, <1>d, <2>1, Zenon DEF CompleteSteering
  <2>2. CASE /\ ~ Late(t) /\ UNCHANGED <<queue, delivered>>
             /\ steering' = [steering EXCEPT ![t] = IF steering[t] = "open" THEN "completed" ELSE steering[t]]
    <3>1. \A u \in Threads : steering'[u] # "open" => steering[u] # "open" \/ queue[u] = <<>>
      BY <1>k, <2>2 DEF Late
    <3> QED BY <1>2, <1>u, <2>2, <3>1 DEF CompleteSteering
  <2> QED BY <1>2, <2>1, <2>2 DEF CompleteSteering
\* A finisher closes the queue and drops what is in it.
<1>3. ASSUME NEW a \in Actors, NEW t \in Threads, RunOf(a) = t, FinishMark(a, t) PROVE J'
  <2> SUFFICES ASSUME NEW u \in Threads
               PROVE  /\ accepted'[u] = delivered'[u] \o dropped'[u] \o queue'[u]
                      /\ steering'[u] # "open" => queue'[u] = <<>>
                      /\ dropped'[u] # <<>> => steering'[u] = "finishing" /\ u \in excused' \cup cancelled'
    BY DEF SteersAreAccounted
  <2>1. CASE u # t
    <3>1. /\ steering'[u] = steering[u] /\ queue'[u] = queue[u] /\ dropped'[u] = dropped[u]
          /\ accepted'[u] = accepted[u] /\ delivered'[u] = delivered[u]
      BY <1>3, <1>k, <2>1 DEF FinishMark
    <3> QED BY <1>j, <1>s, <3>1 DEF SteersAreAccounted
  <2>2. CASE u = t
    <3>1. /\ steering'[t] = "finishing" /\ queue'[t] = <<>> /\ dropped'[t] = dropped[t] \o queue[t]
          /\ accepted'[t] = accepted[t] /\ delivered'[t] = delivered[t]
      BY <1>3, <1>k DEF FinishMark
    <3>2. delivered[t] \in Seq(Steers) /\ dropped[t] \in Seq(Steers) /\ queue[t] \in Seq(Steers)
      BY <1>k
    <3>3. accepted'[t] = delivered'[t] \o dropped'[t] \o queue'[t]
      <4>1. delivered[t] \o dropped[t] \o queue[t] = delivered[t] \o (dropped[t] \o queue[t]) \o <<>>
        BY <3>2, DropQueue, Zenon
      <4> QED BY <1>j, <3>1, <4>1 DEF SteersAreAccounted
    <3>4. dropped'[t] # <<>> => t \in excused \cup cancelled
      <4>1. CASE dropped[t] # <<>>
        BY <1>j, <4>1 DEF SteersAreAccounted
      <4>2. CASE steering[t] # "open" /\ dropped[t] = <<>>
        <5>1. queue[t] = <<>>
          BY <1>j, <4>2 DEF SteersAreAccounted
        <5> QED BY <3>1, <3>2, <4>2, <5>1, ConcatEmptySeq
      <4>3. CASE steering[t] = "open"
        <5>1. CASE a \in Threads
          BY <1>3, <1>j, <4>3, <5>1 DEF RunOf, FinishMark, ClosingIsExplained
        <5>2. CASE a \notin Threads
          BY <1>3, <1>j, <4>3, <5>2 DEF RunOf, Actors, FinishMark, ClosingIsExplained, RoutesHaveHalted
        <5> QED BY <5>1, <5>2
      <4> QED BY <4>1, <4>2, <4>3
    <3> QED BY <1>s, <2>2, <3>1, <3>3, <3>4
  <2> QED BY <2>1, <2>2
<1>4. ASSUME NEW a, NEW t, FinishStore(a, t) \/ FinishRecent(a, t) \/ FinishIndex(a, t) \/ FinishRelease(a, t)
             \/ FinishForget(a, t) \/ FinishFails(a, t)
      PROVE  J'
  BY <1>4, <1>u, Zenon DEF FinishStore, FinishRecent, FinishIndex, FinishRelease, FinishForget, FinishFails
\* A steer joins an open queue.
<1>5. ASSUME NEW s \in Steers, EnqueueSteer(s) PROVE J'
  <2> DEFINE t == steer[s].on
  <2>1. t \in Threads
    <3>1. steer[s] \in SteerType /\ steer[s].at # "idle"
      BY <1>5, <1>k DEF EnqueueSteer
    <3> QED BY <3>1 DEF SteerType, Unused
  <2>2. CASE Accepts(t)
    <3>1. /\ queue' = [queue EXCEPT ![t] = Append(@, s)] /\ accepted' = [accepted EXCEPT ![t] = Append(@, s)]
          /\ UNCHANGED <<steering, delivered, dropped>>
      BY <1>5, <2>2 DEF EnqueueSteer
    <3>2. queue'[t] = Append(queue[t], s) /\ accepted'[t] = Append(accepted[t], s)
      BY <1>k, <2>1, <3>1
    <3>3. \A u \in Threads : u # t => queue'[u] = queue[u] /\ accepted'[u] = accepted[u]
      BY <1>k, <3>1
    <3>4. dropped[t] = <<>> /\ accepted[t] = delivered[t] \o <<>> \o queue[t]
      BY <1>j, <2>1, <2>2 DEF SteersAreAccounted, Accepts
    <3>5. accepted'[t] = delivered'[t] \o dropped'[t] \o queue'[t]
      <4>1. delivered[t] \in Seq(Steers) /\ queue[t] \in Seq(Steers)
        BY <1>k, <2>1
      <4>2. Append(delivered[t] \o <<>> \o queue[t], s) = delivered[t] \o <<>> \o Append(queue[t], s)
        BY <4>1, AppendSteer, Zenon
      <4>3. dropped'[t] = <<>> /\ delivered'[t] = delivered[t]
        BY <3>1, <3>4
      <4> QED BY <3>2, <3>4, <4>2, <4>3
    <3>6. steering'[t] = "open"
      BY <2>2, <3>1 DEF Accepts
    <3> HIDE DEF t
    <3>7. ASSUME NEW u \in Threads
          PROVE  /\ accepted'[u] = delivered'[u] \o dropped'[u] \o queue'[u]
                 /\ steering'[u] # "open" => queue'[u] = <<>>
                 /\ dropped'[u] # <<>> => steering'[u] = "finishing" /\ u \in excused' \cup cancelled'
      <4>1. CASE u = t
        BY <3>1, <3>4, <3>5, <3>6, <4>1
      <4>2. CASE u # t
        BY <1>j, <1>s, <3>1, <3>3, <4>2 DEF SteersAreAccounted
      <4> QED BY <4>1, <4>2
    <3> QED BY <3>7 DEF SteersAreAccounted
  <2>3. CASE ~ Accepts(t)
    BY <1>5, <1>u, <2>3 DEF EnqueueSteer
  <2> QED BY <2>2, <2>3
<1>6. ASSUME NEW t \in Threads, Start(t) \/ SendReply(t) \/ ModelFails(t) \/ CommitFails(t) \/ ToolTurn(t)
             \/ ToolLimit(t) \/ FinalAnswer(t) \/ Commit(t) \/ Killed(t)
      PROVE  J'
  BY <1>6, <1>u, Zenon
     DEF Start, SendReply, ModelFails, CommitFails, ToolTurn, ToolLimit, FinalAnswer, Commit, Killed
<1>7. ASSUME NEW h \in Halters, HaltLookup(h) \/ HaltCancel(h) \/ HaltWaited(h) PROVE J'
  BY <1>7, <1>u, Zenon DEF HaltLookup, HaltCancel, HaltWaited
<1>8. ASSUME NEW s \in Steers, SteerLookup(s) PROVE J'
  BY <1>8, <1>u, Zenon DEF SteerLookup
<1>9. ASSUME UNCHANGED vars PROVE J'
  BY <1>9, <1>u, Zenon DEF vars
<1> HIDE DEF J
<1>10. \A t \in Threads : t \in Actors /\ RunOf(t) = t
  BY DEF Actors, RunOf
<1>11. \A h \in Halters : h \in Actors /\ RunOf(h) = Run(h) /\ (Run(h) # 0 => Run(h) \in Threads)
  <2>1. halter \in [Halters -> RouteType] /\ \A h \in Halters : h \notin Threads
    BY <1>t, ActiveThreadAssumption, Zenon DEF TypeOK, RouteType, Threads
  <2> QED BY <2>1 DEF Actors, RunOf, Run, RouteType, Unused
<1>12. ASSUME NEW t \in Threads, Owner(t) \/ FinishFails(t, t) PROVE J'
  BY <1>1, <1>2, <1>3, <1>4, <1>6, <1>10, <1>12, Zenon DEF Owner, Finish
<1>13. ASSUME NEW h \in Halters, Halt(h) \/ (Run(h) # 0 /\ FinishFails(h, Run(h))) PROVE J'
  BY <1>3, <1>4, <1>7, <1>11, <1>13, Zenon DEF Halt, Finish
<1>14. J'
  BY <1>5, <1>6, <1>7, <1>8, <1>9, <1>12, <1>13, Zenon DEF Next
<1> QED BY <1>14, <1>j, NextInv, NextExplained, Zenon DEF ServedInv, J

(* A run that accepted a steer puts it into a model turn, in the order it  *)
(* accepted them and once, unless the run was halted, failed or ran out of *)
(* tool turns: for any number of runs, steers and halts.                   *)
THEOREM SteersAreServed == Spec => []AcceptedSteersAreServed
<1>1. ServedInv => AcceptedSteersAreServed
  BY DEF ServedInv, SteersAreAccounted, AcceptedSteersAreServed
<1> QED BY <1>1, InitServed, NextServed, PTL DEF Spec

(***************************************************************************)
(* Replies can be continued.  A run nobody halted is finished by itself    *)
(* alone: it marks its queue once, with a key for each of its replies, and *)
(* keeps the list in step with what it has stored; other finishers move    *)
(* the recent thread to a key of their own run.                            *)
(***************************************************************************)

Readable == Threads \X (0..MaxReplies)
FinishersNameTheirRun ==
  \A a \in Actors : Past(a) => \E n \in 0..MaxReplies : fin[a].key = <<RunOf(a), n>>
RecentIsOfARun == recentRow = NoKey \/ recentRow \in Readable

Over(t) == fin[t].at \in {"release", "forget"} \/ phase[t] = "gone"
\* The replies of a run after the n-th have a stored transcript.
Kept(t, n) == \A i \in 1..replies[t] : n < i => <<t, i>> \in stored
Orderly(t) ==
  /\ phase[t] # "discard"
  /\ fin[t].at # "off" => phase[t] = "finish"
  /\ steering[t] = "finishing" <=> Past(t) \/ phase[t] = "gone"
  /\ Past(t) => fin[t].key = <<t, replies[t]>>
  /\ fin[t].at = "store" => /\ \A i \in 1..Len(fin[t].keys) : fin[t].keys[i] = <<t, Len(fin[t].keys) + 1 - i>>
                            /\ Kept(t, Len(fin[t].keys))
  /\ fin[t].at = "index" \/ Over(t) => Kept(t, 0)
  /\ Over(t) => recentRow \in Readable
  /\ recentRow[1] = t => recentRow[2] = replies[t] /\ steering[t] = "finishing"

KeptInv == FinishersNameTheirRun /\ RecentIsOfARun /\ \A t \in Threads : Undisturbed(t) => Orderly(t)

\* No run has come to its finish at first.
LEMMA InitKept == Init => KeptInv
<1> SUFFICES ASSUME Init PROVE KeptInv
  OBVIOUS
<1>1. FinishersNameTheirRun /\ RecentIsOfARun
  BY DEF Init, FinishersNameTheirRun, RecentIsOfARun, Past, Idle
<1>2. ASSUME NEW t \in Threads PROVE Orderly(t)
  <2>1. /\ fin[t] = Idle /\ phase[t] = "new" /\ steering[t] = "open" /\ recentRow[1] = 0 /\ t # 0
    BY ActiveThreadAssumption DEF Init, Actors, Threads, NoKey
  <2> QED BY <2>1 DEF Orderly, Past, Over, Idle
<1> QED BY <1>1, <1>2 DEF KeptInv

\* A finisher keeps the run it finishes: an actor's run changes only when a route,
\* which has no finish to do, finds one.
LEMMA RunsStay ==
  ASSUME TypeOK, UnusedRoutesFinishNothing, [Next]_vars
  PROVE  \A h \in Halters : Run(h) # 0 => Run(h)' = Run(h)
<1> DEFINE G == \A h \in Halters : Run(h) # 0 => Run(h)' = Run(h)
<1>k. halter \in [Halters -> RouteType]
  BY DEF TypeOK, RouteType
<1> USE DEF run, finished, disk, ghosts
<1>s. UNCHANGED halter => G
  BY DEF Run
<1>e. ASSUME NEW h \in Halters, NEW p, halter[h].at # "idle", halter' = [halter EXCEPT ![h].at = p] PROVE G
  <2>1. halter[h] = [at |-> halter[h].at, on |-> halter[h].on]
    BY <1>k DEF RouteType, Unused
  <2>2. halter'[h] = [halter[h] EXCEPT !.at = p] /\ \A g \in Halters : g # h => halter'[g] = halter[g]
    BY <1>k, <1>e
  <2>3. halter'[h].on = halter[h].on
    BY <2>1, <2>2
  <2> QED BY <2>2, <2>3 DEF Run
<1>1. ASSUME NEW u \in Threads, Start(u) \/ DrainSteers(u) \/ ToolTurn(u) \/ ToolLimit(u) \/ FinalAnswer(u)
             \/ CompleteSteering(u) \/ ModelFails(u) \/ Commit(u) \/ CommitFails(u) \/ Killed(u) \/ SendReply(u)
      PROVE  G
  BY <1>1, <1>s, Zenon DEF Start, DrainSteers, ToolTurn, ToolLimit, FinalAnswer, CompleteSteering, ModelFails,
                           Commit, CommitFails, Killed, SendReply
<1>2. ASSUME NEW a \in Actors, NEW u, Finish(a, u) \/ FinishFails(a, u) PROVE G
  <2>1. UNCHANGED halter \/ Ends(a)
    BY <1>2, Zenon DEF Finish, FinishMark, FinishStore, FinishRecent, FinishIndex, FinishRelease, FinishForget, FinishFails
  <2>2. fin[a].at # "off"
    BY <1>2 DEF Finish, FinishMark, FinishStore, FinishRecent, FinishIndex, FinishRelease, FinishForget, FinishFails
  <2>3. a \in Halters => halter[a].at # "idle"
    BY <2>2 DEF UnusedRoutesFinishNothing, Idle
  <2> QED BY <1>e, <1>s, <2>1, <2>3 DEF Ends
<1>3. ASSUME NEW h \in Halters, HaltLookup(h) PROVE G
  <2>1. halter[h].at = "idle" /\ \E t : halter' = [halter EXCEPT ![h] = [at |-> "cancel", on |-> t]]
    BY <1>3 DEF HaltLookup
  <2>2. halter[h] = Unused
    BY <1>k, <2>1 DEF RouteType
  <2> QED BY <1>k, <2>1, <2>2 DEF Run, Unused
<1>4. ASSUME NEW h \in Halters, HaltCancel(h) \/ HaltWaited(h) PROVE G
  <2>1. halter[h].at # "idle" /\ \E p : halter' = [halter EXCEPT ![h].at = p]
    BY <1>4 DEF HaltCancel, HaltWaited
  <2> QED BY <1>e, <2>1
<1>5. ASSUME NEW s \in Steers, SteerLookup(s) \/ EnqueueSteer(s) PROVE G
  BY <1>5, <1>s, Zenon DEF SteerLookup, EnqueueSteer
<1>6. ASSUME UNCHANGED vars PROVE G
  BY <1>6, <1>s, Zenon DEF vars
<1> HIDE DEF G
<1>7. /\ \A u \in Threads : u \in Actors
      /\ \A h \in Halters : h \in Actors
  BY DEF Actors
<1>8. G
  BY <1>1, <1>2, <1>3, <1>4, <1>5, <1>6, <1>7, Zenon DEF Next, Owner, Halt
<1> QED BY <1>8 DEF G

\* What nobody has disturbed by now was undisturbed before.
LEMMA DisturbedForGood ==
  ASSUME TypeOK, UnusedRoutesFinishNothing, [Next]_vars, NEW t \in Threads, Undisturbed(t)'
  PROVE  Undisturbed(t)
<1>1. faults' = faults \/ faults' = faults + 1
  <2> USE DEF run, finished, disk, ghosts
  <2>1. ASSUME NEW u \in Threads, Start(u) \/ DrainSteers(u) \/ ToolTurn(u) \/ ToolLimit(u) \/ FinalAnswer(u)
               \/ CompleteSteering(u) \/ ModelFails(u) \/ Commit(u) \/ CommitFails(u) \/ Killed(u) \/ SendReply(u)
        PROVE  faults' = faults \/ faults' = faults + 1
    BY <2>1, Zenon DEF Start, DrainSteers, ToolTurn, ToolLimit, FinalAnswer, CompleteSteering, ModelFails,
                       Commit, CommitFails, Killed, SendReply
  <2>2. ASSUME NEW a \in Actors, NEW u, Finish(a, u) \/ FinishFails(a, u)
        PROVE  faults' = faults \/ faults' = faults + 1
    BY <2>2, Zenon DEF Finish, FinishMark, FinishStore, FinishRecent, FinishIndex, FinishRelease, FinishForget, FinishFails
  <2>3. ASSUME NEW h \in Halters, HaltLookup(h) \/ HaltCancel(h) \/ HaltWaited(h) PROVE faults' = faults
    BY <2>3, Zenon DEF HaltLookup, HaltCancel, HaltWaited
  <2>4. ASSUME NEW s \in Steers, SteerLookup(s) \/ EnqueueSteer(s) PROVE faults' = faults
    BY <2>4, Zenon DEF SteerLookup, EnqueueSteer
  <2>5. ASSUME UNCHANGED vars PROVE faults' = faults
    BY <2>5, Zenon DEF vars
  <2>6. /\ \A u \in Threads : u \in Actors
        /\ \A h \in Halters : h \in Actors
    BY DEF Actors
  <2> QED BY <2>1, <2>2, <2>3, <2>4, <2>5, <2>6, Zenon DEF Next, Owner, Halt
<1>2. faults \in Nat
  BY ActiveThreadAssumption DEF TypeOK
<1>3. faults' = 0
  BY DEF Undisturbed
<1>4. faults = 0
  BY <1>1, <1>2, <1>3
<1>5. t # 0
  BY DEF Threads
<1>6. cancelled \subseteq cancelled'
  BY ExcusesStay
<1> QED BY <1>4, <1>5, <1>6, RunsStay DEF Undisturbed

\* What a step does to a run that stays undisturbed, as far as its finish goes:
\* nothing, but for a message it may still send; or it comes to its finish; or it
\* goes on with it.
Apart(t) ==
  /\ fin'[t] = fin[t] /\ (steering'[t] = "finishing" <=> steering[t] = "finishing")
  /\ \/ phase'[t] = phase[t]
     \/ fin[t].at = "off" /\ {phase[t], phase'[t]} \cap {"finish", "discard", "gone"} = {}
  /\ replies'[t] = replies[t] \/ (steering[t] # "finishing" /\ fin[t].at = "off")
Comes(t) ==
  /\ phase[t] = "commit" /\ phase'[t] = "finish" /\ fin'[t] = Mark /\ UNCHANGED steering
  /\ replies'[t] = replies[t] \/ steering[t] # "finishing"

LEMMA Follow ==
  ASSUME TypeOK, UnusedRoutesFinishNothing, [Next]_vars, NEW t \in Threads, Undisturbed(t)', Orderly(t)
  PROVE  \/ /\ Apart(t) /\ stored \subseteq stored'
            /\ recentRow' = recentRow \/ \E a \in Actors : RunOf(a) # t /\ fin[a].at = "index" /\ recentRow' = fin[a].key
         \/ Comes(t) /\ UNCHANGED <<stored, recentRow>>
         \/ Finish(t, t) /\ phase[t] = "finish" /\ faults' = 0
<1> DEFINE G == \/ /\ Apart(t) /\ stored \subseteq stored'
                   /\ \/ recentRow' = recentRow
                      \/ \E a \in Actors : RunOf(a) # t /\ fin[a].at = "index" /\ recentRow' = fin[a].key
                \/ Comes(t) /\ UNCHANGED <<stored, recentRow>>
                \/ Finish(t, t) /\ phase[t] = "finish" /\ faults' = 0
<1>k. /\ fin \in [Actors -> FinType] /\ phase \in [Threads -> Phases] /\ replies \in [Threads -> 0..MaxReplies]
      /\ halter \in [Halters -> RouteType] /\ steering \in [Threads -> {"open", "completed", "finishing"}]
      /\ faults \in Nat
  BY ActiveThreadAssumption DEF TypeOK, FinType, RouteType
<1>a. /\ \A u \in Threads : u \in Actors /\ u \notin Halters /\ u # 0
      /\ \A h \in Halters : h \in Actors /\ h \notin Threads
  BY ActiveThreadAssumption DEF Actors, Threads
<1>u. faults' = 0 /\ t \notin cancelled' /\ (\A h \in Halters : Run(h)' # t)
  BY DEF Undisturbed
<1>v. faults = 0 /\ t \notin cancelled /\ (\A h \in Halters : Run(h) # t)
  BY DisturbedForGood DEF Undisturbed
<1> USE DEF run, finished, disk, ghosts, Goto
<1>s. ASSUME UNCHANGED <<fin, steering, phase, replies, stored, recentRow>> PROVE G
  BY <1>s DEF Apart
\* The steps of a run, before it comes to its finish.
<1>1. ASSUME NEW u \in Threads, Start(u) \/ DrainSteers(u) \/ ToolTurn(u) \/ ToolLimit(u) \/ FinalAnswer(u)
             \/ ModelFails(u) \/ CompleteSteering(u)
      PROVE  G
  <2>1. UNCHANGED <<fin, replies, stored, recentRow>>
    BY <1>1, Zenon DEF Start, DrainSteers, ToolTurn, ToolLimit, FinalAnswer, ModelFails, CompleteSteering
  <2>2. /\ phase[u] \in {"new", "drain", "model", "closing"}
        /\ \E p \in {"drain", "model", "closing", "commit"} : phase' = [phase EXCEPT ![u] = p]
    BY <1>1 DEF Start, DrainSteers, ToolTurn, ToolLimit, FinalAnswer, ModelFails, CompleteSteering
  <2>3. steering'[t] = "finishing" <=> steering[t] = "finishing"
    <3>1. UNCHANGED steering \/ steering' = [steering EXCEPT ![u] = IF @ = "open" THEN "completed" ELSE @]
      BY <1>1, Zenon DEF Start, DrainSteers, Drained, ToolTurn, ToolLimit, FinalAnswer, ModelFails, CompleteSteering
    <3> QED BY <1>k, <3>1
  <2>4. CASE u = t
    <3>1. fin[t].at = "off" /\ phase'[t] \in {"drain", "model", "closing", "commit"}
      BY <1>k, <2>2, <2>4 DEF Orderly
    <3> QED BY <2>1, <2>2, <2>3, <2>4, <3>1 DEF Apart
  <2>5. CASE u # t
    <3>1. phase'[t] = phase[t]
      BY <1>k, <2>2, <2>5
    <3> QED BY <2>1, <2>3, <3>1 DEF Apart
  <2> QED BY <2>4, <2>5
<1>2. ASSUME NEW u \in Threads, SendReply(u) PROVE G
  <2>1. /\ UNCHANGED <<fin, phase, steering, stored, recentRow>> /\ phase[u] = "model"
        /\ UNCHANGED replies \/ (steering[u] # "finishing" /\ \E n : replies' = [replies EXCEPT ![u] = n])
    BY <1>2 DEF SendReply, addActiveThreadMessage
  <2>2. CASE u = t
    <3>1. fin[t].at = "off"
      BY <2>1, <2>2 DEF Orderly
    <3> QED BY <2>1, <2>2, <3>1 DEF Apart
  <2>3. CASE u # t
    <3>1. replies'[t] = replies[t]
      BY <1>k, <2>1, <2>3
    <3> QED BY <2>1, <3>1 DEF Apart
  <2> QED BY <2>2, <2>3
<1>3. ASSUME NEW u \in Threads, Commit(u) PROVE G
  <2>1. /\ UNCHANGED <<steering, stored, recentRow>> /\ phase[u] = "commit"
        /\ phase' = [phase EXCEPT ![u] = "finish"] /\ fin' = [fin EXCEPT ![u] = Mark]
        /\ UNCHANGED replies \/ (steering[u] # "finishing" /\ \E n : replies' = [replies EXCEPT ![u] = n])
    BY <1>3 DEF Commit, addActiveThreadMessage
  <2>2. CASE u = t
    <3>1. phase'[t] = "finish" /\ fin'[t] = Mark
      BY <1>a, <1>k, <2>1, <2>2
    <3> QED BY <2>1, <2>2, <3>1 DEF Comes
  <2>3. CASE u # t
    <3>1. replies'[t] = replies[t] /\ phase'[t] = phase[t] /\ fin'[t] = fin[t]
      BY <1>a, <1>k, <2>1, <2>3
    <3> QED BY <2>1, <3>1 DEF Apart
  <2> QED BY <2>2, <2>3
\* A failure, a halt: not of this run.
<1>4. ASSUME NEW u \in Threads, CommitFails(u) \/ Killed(u) PROVE G
  <2>1. faults' = faults + 1 \/ (u \in cancelled /\ Unwinds(u) /\ UNCHANGED <<steering, stored, recentRow, replies>>)
    BY <1>4, Zenon DEF CommitFails, Killed
  <2>2. u # t /\ Unwinds(u) /\ UNCHANGED <<steering, stored, recentRow, replies>>
    BY <1>k, <1>u, <1>v, <2>1
  <2>3. phase'[t] = phase[t] /\ fin'[t] = fin[t]
    BY <1>a, <1>k, <2>2 DEF Unwinds
  <2> QED BY <2>2, <2>3 DEF Apart
<1>5. ASSUME NEW a \in Actors, NEW u, FinishFails(a, u) PROVE G
  <2>1. faults' = faults + 1
    BY <1>5 DEF FinishFails
  <2> QED BY <1>k, <1>u, <1>v, <2>1
<1>6. ASSUME Finish(t, t) PROVE G
  <2>1. fin[t].at # "off"
    BY <1>6 DEF Finish, FinishMark, FinishStore, FinishRecent, FinishIndex, FinishRelease, FinishForget
  <2> QED BY <1>6, <1>u, <2>1 DEF Orderly
\* The finish of another run.
<1>7. ASSUME NEW a \in Actors, NEW u \in Threads, RunOf(a) = u, u # t, Finish(a, u) PROVE G
  <2>0. a # t
    BY <1>7 DEF RunOf
  <2>1. replies'[t] = replies[t] /\ stored \subseteq stored'
    BY <1>7 DEF Finish, FinishMark, FinishStore, FinishRecent, FinishIndex, FinishRelease, FinishForget
  <2>2. steering'[t] = steering[t]
    BY <1>7, <1>k DEF Finish, FinishMark, FinishStore, FinishRecent, FinishIndex, FinishRelease, FinishForget
  <2>3. fin'[t] = fin[t]
    BY <1>7, <1>a, <1>k, <2>0 DEF Finish, FinishMark, FinishStore, FinishRecent, FinishIndex, FinishRelease, FinishForget
  <2>4. phase'[t] = phase[t]
    BY <1>7, <1>k, <2>0 DEF Finish, FinishMark, FinishStore, FinishRecent, FinishIndex, FinishRelease, FinishForget, Ends
  <2>5. recentRow' = recentRow \/ (fin[a].at = "index" /\ recentRow' = fin[a].key)
    BY <1>7 DEF Finish, FinishMark, FinishStore, FinishRecent, FinishIndex, FinishRelease, FinishForget
  <2> QED BY <1>7, <2>1, <2>2, <2>3, <2>4, <2>5 DEF Apart
<1>8. ASSUME NEW h \in Halters, HaltLookup(h) PROVE G
  BY <1>8, <1>s, Zenon DEF HaltLookup
<1>9. ASSUME NEW h \in Halters, HaltCancel(h) \/ HaltWaited(h) PROVE G
  <2>1. /\ UNCHANGED <<steering, phase, replies, stored, recentRow>>
        /\ UNCHANGED fin \/ fin' = [fin EXCEPT ![h] = Mark]
    BY <1>9 DEF HaltCancel, HaltWaited
  <2>2. fin'[t] = fin[t]
    BY <1>a, <1>k, <2>1
  <2> QED BY <2>1, <2>2 DEF Apart
<1>10. ASSUME NEW s \in Steers, SteerLookup(s) \/ EnqueueSteer(s) PROVE G
  BY <1>10, <1>s, Zenon DEF SteerLookup, EnqueueSteer
<1>11. ASSUME UNCHANGED vars PROVE G
  BY <1>11, <1>s, Zenon DEF vars
<1> HIDE DEF G
<1>12. \A u \in Threads : u \in Actors /\ RunOf(u) = u
  BY <1>a DEF RunOf
<1>13. \A h \in Halters : h \in Actors /\ RunOf(h) = Run(h) /\ Run(h) # t /\ (Run(h) # 0 => Run(h) \in Threads)
  BY <1>a, <1>k, <1>v DEF RunOf, Run, RouteType, Unused
<1>14. ASSUME NEW u \in Threads, Finish(u, u) PROVE G
  BY <1>6, <1>7, <1>12, <1>14
<1>15. ASSUME NEW h \in Halters, Run(h) # 0, Finish(h, Run(h)) PROVE G
  BY <1>7, <1>13, <1>15
<1>16. ASSUME NEW h \in Halters, Halt(h) PROVE G
  BY <1>9, <1>15, <1>16, Zenon DEF Halt
<1>17. G
  BY <1>1, <1>2, <1>3, <1>4, <1>5, <1>8, <1>10, <1>11, <1>12, <1>13, <1>14, <1>16, Zenon DEF Next, Owner
<1> QED BY <1>17 DEF G

\* A finisher names its own run ...
LEMMA NextNames ==
  ASSUME IInv, FinishersNameTheirRun, [Next]_vars
  PROVE  FinishersNameTheirRun'
<1>k. /\ fin \in [Actors -> FinType] /\ replies \in [Threads -> 0..MaxReplies]
      /\ halter \in [Halters -> RouteType]
      /\ TypeOK /\ UnusedRoutesFinishNothing
  BY DEF IInv, TypeOK, FinType, RouteType
<1>a. /\ \A u \in Threads : u \in Actors /\ u \notin Halters /\ u # 0
      /\ \A h \in Halters : h \in Actors /\ h \notin Threads
  BY ActiveThreadAssumption DEF Actors, Threads
<1> USE DEF run, finished, disk, ghosts, Goto
<1>r. \A b \in Actors : RunOf(b) # 0 => RunOf(b)' = RunOf(b)
  BY <1>a, <1>k, RunsStay DEF RunOf, Actors
<1>p. \A b \in Actors : Past(b) => RunOf(b) # 0
  BY <1>a DEF IInv, FinishersHaveMarked
\* An actor that is where it was, or was not where it names a run, says nothing new.
<1>f. ASSUME \A b \in Actors : Past(b)' => Past(b) /\ fin'[b].key = fin[b].key PROVE FinishersNameTheirRun'
  BY <1>f, <1>p, <1>r DEF FinishersNameTheirRun
<1>s. ASSUME UNCHANGED fin PROVE FinishersNameTheirRun'
  BY <1>s, <1>f DEF Past
<1>m. ASSUME NEW a \in Actors, fin' = [fin EXCEPT ![a] = Mark] \/ fin' = [fin EXCEPT ![a] = Idle]
      PROVE  FinishersNameTheirRun'
  BY <1>f, <1>k, <1>m DEF Past, Mark, Idle
<1>1. ASSUME NEW u \in Threads, Start(u) \/ DrainSteers(u) \/ ToolTurn(u) \/ ToolLimit(u) \/ FinalAnswer(u)
             \/ ModelFails(u) \/ CompleteSteering(u) \/ SendReply(u)
      PROVE  FinishersNameTheirRun'
  BY <1>1, <1>s, Zenon DEF Start, DrainSteers, ToolTurn, ToolLimit, FinalAnswer, ModelFails, CompleteSteering, SendReply
<1>2. ASSUME NEW u \in Threads, Commit(u) \/ CommitFails(u) \/ Killed(u) PROVE FinishersNameTheirRun'
  BY <1>2, <1>a, <1>m, Zenon DEF Commit, CommitFails, Killed, Unwinds
<1>3. ASSUME NEW a \in Actors, NEW u \in Threads, RunOf(a) = u, FinishMark(a, u) PROVE FinishersNameTheirRun'
  <2>1. PICK ks : /\ ks = KeysToStore(u)
                  /\ fin' = [fin EXCEPT ![a] = [at |-> "store", keys |-> ks, key |-> RecentKey(u, ks)]]
    BY <1>3 DEF FinishMark
  <2>2. \E n \in 0..MaxReplies : RecentKey(u, ks) = <<u, n>>
    <3>1. replies[u] \in 0..MaxReplies /\ MaxReplies \in Nat
      BY <1>k, ActiveThreadAssumption
    <3>2. CASE ks = <<>>
      BY <3>1, <3>2 DEF RecentKey, Request
    <3>3. CASE ks # <<>>
      <4>1. ks = [i \in 1..replies[u] |-> <<u, replies[u] + 1 - i>>]
        BY <2>1, <3>3 DEF KeysToStore
      <4>2. replies[u] # 0
        BY <3>3, <4>1
      <4>3. Head(ks) = <<u, replies[u]>>
        BY <3>1, <4>1, <4>2
      <4> QED BY <3>1, <3>3, <4>3 DEF RecentKey
    <3> QED BY <3>2, <3>3
  <2>3. \A b \in Actors : b # a => fin'[b] = fin[b]
    BY <1>k, <2>1
  <2>4. fin'[a].key = RecentKey(u, ks)
    BY <1>k, <2>1
  <2>5. RunOf(a)' = u
    BY <1>3, <1>a, <1>r
  <2> QED BY <1>p, <1>r, <2>2, <2>3, <2>4, <2>5 DEF FinishersNameTheirRun, Past
<1>4. ASSUME NEW a \in Actors, NEW u,
             FinishStore(a, u) \/ FinishRecent(a, u) \/ FinishIndex(a, u) \/ FinishRelease(a, u)
      PROVE  FinishersNameTheirRun'
  <2>1. fin[a].at \in {"store", "index", "release"} /\ fin[a] \in FinType
    BY <1>4, <1>k DEF FinishStore, FinishRecent, FinishIndex, FinishRelease
  <2>2. fin'[a].key = fin[a].key /\ \A b \in Actors : b # a => fin'[b] = fin[b]
    BY <1>4, <1>k, <2>1 DEF FinishStore, FinishRecent, FinishIndex, FinishRelease, FinType
  <2> QED BY <1>f, <2>1, <2>2 DEF Past
<1>5. ASSUME NEW a \in Actors, NEW u, FinishForget(a, u) PROVE FinishersNameTheirRun'
  BY <1>5, <1>m DEF FinishForget
<1>6. ASSUME NEW a \in Actors, NEW u, FinishFails(a, u), u \in Actors PROVE FinishersNameTheirRun'
  BY <1>6, <1>m, Zenon DEF FinishFails, Unwinds
<1>7. ASSUME NEW h \in Halters, HaltLookup(h) \/ HaltCancel(h) \/ HaltWaited(h) PROVE FinishersNameTheirRun'
  BY <1>7, <1>a, <1>m, <1>s, Zenon DEF HaltLookup, HaltCancel, HaltWaited
<1>8. ASSUME NEW s \in Steers, SteerLookup(s) \/ EnqueueSteer(s) PROVE FinishersNameTheirRun'
  BY <1>8, <1>s, Zenon DEF SteerLookup, EnqueueSteer
<1>9. ASSUME UNCHANGED vars PROVE FinishersNameTheirRun'
  BY <1>9, <1>s, Zenon DEF vars
<1>10. \A u \in Threads : u \in Actors /\ RunOf(u) = u
  BY <1>a DEF RunOf
<1>11. \A h \in Halters : h \in Actors /\ RunOf(h) = Run(h) /\ (Run(h) # 0 => Run(h) \in Threads)
  BY <1>a, <1>k DEF RunOf, Run, RouteType, Unused
<1>12. ASSUME NEW a \in Actors, NEW u \in Threads, RunOf(a) = u, Finish(a, u) \/ FinishFails(a, u)
       PROVE  FinishersNameTheirRun'
  BY <1>3, <1>4, <1>5, <1>6, <1>10, <1>12, Zenon DEF Finish
<1>13. ASSUME NEW u \in Threads, Owner(u) \/ FinishFails(u, u) PROVE FinishersNameTheirRun'
  BY <1>1, <1>2, <1>10, <1>12, <1>13, Zenon DEF Owner
<1>14. ASSUME NEW h \in Halters, Halt(h) \/ (Run(h) # 0 /\ FinishFails(h, Run(h))) PROVE FinishersNameTheirRun'
  BY <1>7, <1>11, <1>12, <1>14, Zenon DEF Halt
<1> QED BY <1>1, <1>2, <1>7, <1>8, <1>9, <1>13, <1>14, Zenon DEF Next

\* ... and only a finisher moves the recent thread.
LEMMA RecentMoves ==
  ASSUME TypeOK, [Next]_vars
  PROVE  recentRow' = recentRow \/ \E a \in Actors : fin[a].at = "index" /\ recentRow' = fin[a].key
<1> DEFINE G == recentRow' = recentRow \/ \E a \in Actors : fin[a].at = "index" /\ recentRow' = fin[a].key
<1> USE DEF run, finished, disk, ghosts
<1>1. ASSUME NEW u \in Threads, Start(u) \/ DrainSteers(u) \/ ToolTurn(u) \/ ToolLimit(u) \/ FinalAnswer(u)
             \/ ModelFails(u) \/ CompleteSteering(u) \/ SendReply(u) \/ Commit(u) \/ CommitFails(u) \/ Killed(u)
      PROVE  G
  BY <1>1, Zenon DEF Start, DrainSteers, ToolTurn, ToolLimit, FinalAnswer, ModelFails, CompleteSteering, SendReply,
                     Commit, CommitFails, Killed
<1>2. ASSUME NEW a \in Actors, NEW u, Finish(a, u) \/ FinishFails(a, u) PROVE G
  BY <1>2, Zenon DEF Finish, FinishMark, FinishStore, FinishRecent, FinishIndex, FinishRelease, FinishForget, FinishFails
<1>3. ASSUME NEW h \in Halters, HaltLookup(h) \/ HaltCancel(h) \/ HaltWaited(h) PROVE G
  BY <1>3, Zenon DEF HaltLookup, HaltCancel, HaltWaited
<1>4. ASSUME NEW s \in Steers, SteerLookup(s) \/ EnqueueSteer(s) PROVE G
  BY <1>4, Zenon DEF SteerLookup, EnqueueSteer
<1>5. ASSUME UNCHANGED vars PROVE G
  BY <1>5, Zenon DEF vars
<1>6. /\ \A u \in Threads : u \in Actors
      /\ \A h \in Halters : h \in Actors
  BY DEF Actors
<1> HIDE DEF G
<1>7. G
  BY <1>1, <1>2, <1>3, <1>4, <1>5, <1>6, Zenon DEF Next, Owner, Halt
<1> QED BY <1>7 DEF G

LEMMA NextKept == IInv /\ KeptInv /\ [Next]_vars => KeptInv'
<1> SUFFICES ASSUME IInv, KeptInv, [Next]_vars PROVE KeptInv'
  OBVIOUS
<1>k. /\ fin \in [Actors -> FinType] /\ phase \in [Threads -> Phases] /\ replies \in [Threads -> 0..MaxReplies]
      /\ steering \in [Threads -> {"open", "completed", "finishing"}] /\ MaxReplies \in Nat
      /\ TypeOK /\ UnusedRoutesFinishNothing
  BY ActiveThreadAssumption DEF IInv, TypeOK, FinType
<1>1. FinishersNameTheirRun'
  BY NextNames DEF KeptInv
<1>x. ASSUME NEW a \in Actors, fin[a].at = "index"
      PROVE  fin[a].key \in Readable /\ fin[a].key[1] = RunOf(a)
  <2>1. RunOf(a) \in Threads /\ \E n \in 0..MaxReplies : fin[a].key = <<RunOf(a), n>>
    BY <1>x DEF KeptInv, FinishersNameTheirRun, Past, IInv, FinishersHaveMarked
  <2> QED BY <2>1 DEF Readable
<1>2. RecentIsOfARun'
  BY <1>k, <1>x, RecentMoves DEF KeptInv, RecentIsOfARun
<1>3. ASSUME NEW t \in Threads, Undisturbed(t)' PROVE Orderly(t)'
  <2>a. t \in Actors /\ t # 0 /\ RunOf(t) = t /\ replies[t] \in 0..MaxReplies
    BY <1>k DEF Actors, Threads, RunOf
  <2>b. Orderly(t)
    BY <1>3, <1>k, DisturbedForGood DEF KeptInv
  <2> USE DEF Orderly, Past, Over, Kept
  <2>1. ASSUME Apart(t), stored \subseteq stored',
               \/ recentRow' = recentRow
               \/ \E a \in Actors : RunOf(a) # t /\ fin[a].at = "index" /\ recentRow' = fin[a].key
        PROVE  Orderly(t)'
    <3>1. recentRow' = recentRow \/ (recentRow' \in Readable /\ recentRow'[1] # t)
      BY <1>x, <2>1
    <3>2. steering[t] = "finishing" => replies'[t] = replies[t]
      BY <2>1 DEF Apart
    <3>3. fin[t].at # "off" => replies'[t] = replies[t]
      BY <2>1 DEF Apart
    <3>4. phase'[t] # "discard" /\ (fin'[t].at # "off" => phase'[t] = "finish")
      BY <2>1, <2>b DEF Apart
    <3>5. (phase'[t] = "gone" <=> phase[t] = "gone") /\ Past(t)' = Past(t) /\ Over(t)' = Over(t)
      BY <2>1 DEF Apart
    <3>6. \A n : Kept(t, n) /\ replies'[t] = replies[t] => \A i \in 1..replies'[t] : n < i => <<t, i>> \in stored'
      BY <2>1
    <3> QED BY <2>1, <2>b, <3>1, <3>2, <3>3, <3>4, <3>5, <3>6 DEF Apart
  <2>2. ASSUME Comes(t), UNCHANGED <<stored, recentRow>> PROVE Orderly(t)'
    BY <2>2, <2>b DEF Comes, Mark
  <2> HIDE DEF Orderly, Past, Over, Kept
  <2>f. ASSUME Finish(t, t) PROVE UNCHANGED replies
    BY <2>f, Zenon DEF Finish, FinishMark, FinishStore, FinishRecent, FinishIndex, FinishRelease, FinishForget
  <2>3. ASSUME FinishMark(t, t), phase[t] = "finish" PROVE Orderly(t)'
    <3> DEFINE r == replies[t]
               ks == [i \in 1..r |-> <<t, r + 1 - i>>]
    <3>1. steering[t] # "finishing" /\ recentRow[1] # t
      BY <2>3, <2>b DEF FinishMark, Orderly, Past
    <3>2. fin'[t] = [at |-> "store", keys |-> ks, key |-> RecentKey(t, ks)]
      BY <1>k, <2>3, <2>a, <3>1 DEF FinishMark, KeysToStore
    <3>3. Len(ks) = r /\ \A i \in 1..r : ks[i] = <<t, r + 1 - i>>
      BY <1>k, <2>a
    <3>4. RecentKey(t, ks) = <<t, r>>
      <4>1. CASE r = 0
        <5>1. ks = <<>>
          BY <4>1
        <5> QED BY <4>1, <5>1 DEF RecentKey, Request
      <4>2. CASE r # 0
        <5>1. ks # <<>> /\ Head(ks) = <<t, r>>
          BY <1>k, <2>a, <3>3, <4>2
        <5> QED BY <5>1 DEF RecentKey
      <4> QED BY <4>1, <4>2
    <3>5. UNCHANGED <<phase, replies, stored, recentRow>> /\ steering'[t] = "finishing"
      BY <1>k, <2>3 DEF FinishMark, run, disk
    <3> HIDE DEF ks
    <3> QED BY <2>3, <2>a, <3>1, <3>2, <3>3, <3>4, <3>5 DEF Orderly, Past, Over, Kept
  <2>4. ASSUME FinishStore(t, t), phase[t] = "finish", faults' = 0 PROVE Orderly(t)'
    <3> DEFINE ks == fin[t].keys
    <3>1. /\ fin[t].at = "store" /\ ks # <<>> /\ ks \in Seq(Messages) /\ fin[t] \in FinType
      BY <1>k, <2>4, <2>a DEF FinishStore, FinType
    <3>2. fin' = [fin EXCEPT ![t].keys = Tail(ks)]
      BY <2>4 DEF FinishStore
    <3>3. fin'[t] = [fin[t] EXCEPT !.keys = Tail(ks)]
      BY <1>k, <2>a, <3>2
    <3>4. fin'[t].at = "store" /\ fin'[t].keys = Tail(ks) /\ fin'[t].key = fin[t].key
      BY <3>1, <3>3 DEF FinType
    <3>5. /\ Len(ks) \in Nat \ {0} /\ Len(Tail(ks)) = Len(ks) - 1
          /\ \A i \in 1..(Len(ks) - 1) : Tail(ks)[i] = ks[i + 1]
          /\ Head(ks) = ks[1]
      BY <3>1
    <3>6. stored' = stored \cup {Head(ks)}
      <4>1. faults = 0
        BY <1>3, <1>k, DisturbedForGood DEF Undisturbed
      <4> QED BY <2>4, <4>1 DEF FinishStore
    <3>7. Head(ks) = <<t, Len(ks)>>
      <4>1. ks[1] = <<t, Len(ks) + 1 - 1>>
        BY <2>b, <3>1, <3>5 DEF Orderly
      <4> QED BY <3>5, <4>1
    <3>8. ASSUME NEW i \in 1..(Len(ks) - 1) PROVE Tail(ks)[i] = <<t, (Len(ks) - 1) + 1 - i>>
      <4>1. i + 1 \in 1..Len(ks) /\ Len(ks) + 1 - (i + 1) = (Len(ks) - 1) + 1 - i
        <5>1. \A l \in Nat : i \in 1..(l - 1) => i + 1 \in 1..l /\ l + 1 - (i + 1) = (l - 1) + 1 - i
          OBVIOUS
        <5> QED BY <3>5, <5>1
      <4>2. ks[i + 1] = <<t, Len(ks) + 1 - (i + 1)>>
        BY <2>b, <3>1, <4>1 DEF Orderly
      <4> QED BY <3>5, <4>1, <4>2
    <3>9. ASSUME NEW i \in 1..replies[t], Len(ks) - 1 < i PROVE <<t, i>> \in stored'
      <4>1. i = Len(ks) \/ Len(ks) < i
        BY <3>5, <3>9
      <4> QED BY <2>b, <3>1, <3>6, <3>7, <3>9, <4>1 DEF Orderly, Kept
    <3>10. UNCHANGED <<phase, replies, steering, recentRow>>
      BY <2>4 DEF FinishStore, run
    <3> HIDE DEF ks
    <3> QED BY <2>4, <2>b, <3>1, <3>4, <3>5, <3>8, <3>9, <3>10 DEF Orderly, Past, Over, Kept
  <2>5. ASSUME FinishRecent(t, t) \/ FinishIndex(t, t) \/ FinishRelease(t, t), phase[t] = "finish" PROVE Orderly(t)'
    <3>1. fin[t] \in FinType
      BY <1>k, <2>a
    <3>2. fin'[t].key = fin[t].key
      BY <1>k, <2>5, <2>a, <3>1 DEF FinishRecent, FinishIndex, FinishRelease, FinType
    <3>3. /\ UNCHANGED <<phase, replies, steering, stored>>
          /\ \/ fin[t].at = "store" /\ fin[t].keys = <<>> /\ fin'[t].at = "index" /\ UNCHANGED recentRow
             \/ fin[t].at = "index" /\ fin'[t].at = "release" /\ recentRow' = fin[t].key
             \/ fin[t].at = "release" /\ fin'[t].at = "forget" /\ UNCHANGED recentRow
      <4>1. fin[t] = [at |-> fin[t].at, keys |-> fin[t].keys, key |-> fin[t].key]
        BY <3>1 DEF FinType
      <4>2. ASSUME NEW p, fin' = [fin EXCEPT ![t].at = p] PROVE fin'[t].at = p
        BY <1>k, <2>a, <4>1, <4>2
      <4>3. CASE FinishRecent(t, t)
        BY <4>2, <4>3 DEF FinishRecent, run
      <4>4. CASE FinishIndex(t, t)
        BY <4>2, <4>4 DEF FinishIndex, run
      <4>5. CASE FinishRelease(t, t)
        BY <4>2, <4>5 DEF FinishRelease, run, disk
      <4> QED BY <2>5, <4>3, <4>4, <4>5
    <3>4. fin[t].keys = <<>> => Len(fin[t].keys) = 0
      OBVIOUS
    <3>5. <<t, replies[t]>> \in Readable
      BY <2>a DEF Readable
    <3> QED BY <2>5, <2>b, <3>2, <3>3, <3>4, <3>5 DEF Orderly, Past, Over, Kept
  <2>6. ASSUME FinishForget(t, t) PROVE Orderly(t)'
    <3>1. fin'[t] = Idle /\ phase'[t] = "gone" /\ fin[t].at = "forget" /\ UNCHANGED <<replies, steering, stored, recentRow>>
      BY <1>k, <2>6, <2>a, ActiveThreadAssumption DEF FinishForget, Ends, Goto, disk, Actors, Threads
    <3> QED BY <2>b, <3>1 DEF Orderly, Past, Over, Kept, Idle
  <2>7. ASSUME Finish(t, t), phase[t] = "finish", faults' = 0 PROVE Orderly(t)'
    BY <2>3, <2>4, <2>5, <2>6, <2>7, Zenon DEF Finish
  <2> QED BY <1>3, <1>k, <2>1, <2>2, <2>7, <2>b, Follow
<1> QED BY <1>1, <1>2, <1>3 DEF KeptInv

\* A run nobody halted leaves each of its replies with a stored transcript, and the recent
\* thread, once it is that run, on its newest reply, or on the user's message when it sent
\* none (finishActiveThread), however many other runs of the user finish meanwhile.
THEOREM Continuable == Spec => []RepliesCanBeContinued
<1>1. IInv /\ KeptInv => RepliesCanBeContinued
  <2> SUFFICES ASSUME IInv, KeptInv, NEW t \in Threads, Forgotten(t), Undisturbed(t)
               PROVE  /\ {<<t, n>> : n \in 1..replies[t]} \subseteq stored
                      /\ recentRow \in Threads \X (0..MaxReplies)
                      /\ recentRow[1] = t => recentRow[2] = replies[t]
    BY DEF RepliesCanBeContinued
  <2>1. Orderly(t) /\ Over(t)
    BY DEF KeptInv, Forgotten, Over
  <2>2. replies[t] \in Nat /\ \A n \in 1..replies[t] : 0 < n
    BY ActiveThreadAssumption DEF IInv, TypeOK
  <2> QED BY <2>1, <2>2 DEF Orderly, Kept, Readable
<1>2. IInv /\ KeptInv /\ [Next]_vars => (IInv /\ KeptInv)'
  BY NextInv, NextKept
<1>3. Init => IInv /\ KeptInv
  BY InitInv, InitKept
<1> QED BY <1>1, <1>2, <1>3, PTL DEF Spec
=============================================================================
