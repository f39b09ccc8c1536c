------------------------------ MODULE Lifecycle ------------------------------
(***************************************************************************)
(* The life of the process: the replies owed since the last restart, the   *)
(* race of the program with the thread that waits for a request to end     *)
(* (Lifecycle.hs on raceTasks_ of Effect/Concurrency.hs), signals, and the *)
(* restart within the process or by whoever supervises it (Main.hs).       *)
(***************************************************************************)
EXTENDS Naturals, FiniteSets

CONSTANTS Requests,   \* bound: restarts that are asked for, each by its message
          Keys,       \* what hashUnique gives: not twice in a process, but again in the next
          Signals, Failures, Starts,   \* bounds: signals, faults, starts of the process
          None

LifecycleAssumption ==
  /\ Signals \in Nat /\ Failures \in Nat /\ Starts \in Nat
  /\ None \notin Requests \cup Keys \cup {"stop", "restart", "waiter"}

VARIABLES
  phase,      \* where the main thread is
  actions,    \* lifecycle_actions: the key of the row of each request, or None
  used,       \* keys this process has given out
  todo,       \* rows loaded and not yet run
  replied,    \* the request whose reply was sent and whose row is still there
  asked,      \* how far each request has come
  answers,    \* replies sent for each request
  exitRequest, result,   \* the two MVars
  waiter, inner,         \* the two tasks of the race
  done,       \* the task that ended first
  signals, failures, starts,
  first,      \* the first request to end since the program runs
  excused     \* requests that may be answered again, or not at all: a fault hit their row

mvars == <<exitRequest, result, waiter, inner, done, first>>
rows == <<actions, todo, replied, answers, excused>>
bounds == <<signals, failures, starts>>
vars == <<phase, used, asked, mvars, rows, bounds>>

Reasons == {"stop", "restart"}

TypeOK ==
  /\ phase \in {"loading", "replying", "running", "cancelling", "down"}
  /\ actions \in [Requests -> Keys \cup {None}] /\ used \subseteq Keys
  /\ todo \subseteq Requests /\ replied \in Requests \cup {None}
  /\ asked \in [Requests -> {"no", "stored", "put"}]
  /\ answers \in [Requests -> Nat]
  /\ exitRequest \in Reasons \cup {None} /\ result \in Reasons \cup {None}
  /\ waiter \in Reasons \cup {"waiting", "done", "cancelled"}
  /\ inner \in {"running", "ended", "failed", "cancelled"}
  /\ done \in {"inner", "waiter", None}
  /\ signals \in 0..Signals /\ failures \in 0..Failures /\ starts \in 0..Starts
  /\ first \in Reasons \cup {None} /\ excused \subseteq Requests

(* The state of the race when it begins. *)
Fresh(request, outcome, wait, main, winner, head) ==
  /\ request = None /\ outcome = None
  /\ wait = "waiting" /\ main = "running"
  /\ winner = None /\ head = None

Init ==
  /\ phase = "loading"
  /\ actions = [r \in Requests |-> None] /\ used = {}
  /\ todo = {} /\ replied = None
  /\ asked = [r \in Requests |-> "no"] /\ answers = [r \in Requests |-> 0]
  /\ Fresh(exitRequest, result, waiter, inner, done, first)
  /\ signals = 0 /\ failures = 0 /\ starts = 0
  /\ excused = {}

Fault == failures < Failures /\ failures' = failures + 1 /\ UNCHANGED <<signals, starts>>
NoFault == UNCHANGED bounds

-----------------------------------------------------------------------------
(* runStartupActions *)

Load ==
  /\ phase = "loading"
  /\ phase' = "replying"
  /\ todo' = {r \in Requests : actions[r] # None}
  /\ UNCHANGED <<used, asked, mvars, bounds, actions, replied, answers, excused>>

(* A reply that fails loses its row all the same. *)
Reply(r) ==
  /\ phase = "replying" /\ replied = None /\ r \in todo
  /\ replied' = r
  /\ \/ answers' = [answers EXCEPT ![r] = @ + 1] /\ NoFault /\ UNCHANGED excused
     \/ Fault /\ excused' = excused \cup {r} /\ UNCHANGED answers
  /\ UNCHANGED <<phase, used, asked, mvars, actions, todo>>

\* Mutant: every owed reply is forgotten with the first.
MutForgotten(key) == [r \in Requests |-> None]
Forgotten(key) == [r \in Requests |-> IF actions[r] = key THEN None ELSE actions[r]]

Delete ==
  /\ phase = "replying" /\ replied # None
  /\ todo' = todo \ {replied} /\ replied' = None
  /\ \/ actions' = Forgotten(actions[replied]) /\ NoFault /\ UNCHANGED excused
     \/ Fault /\ excused' = excused \cup {replied} /\ UNCHANGED actions
  /\ UNCHANGED <<phase, used, asked, mvars, answers>>

(* A handler that was stopped between its two steps is not resumed. *)
Run ==
  /\ phase = "replying" /\ todo = {}
  /\ phase' = "running"
  /\ Fresh(exitRequest', result', waiter', inner', done', first')
  /\ asked' = [r \in Requests |-> IF asked[r] = "stored" THEN "put" ELSE asked[r]]
  /\ UNCHANGED <<used, rows, bounds>>

-----------------------------------------------------------------------------
(* While the program runs *)

Racing == phase \in {"running", "cancelling"}

TryPut(reason) == IF exitRequest = None THEN reason ELSE exitRequest

Put(reason) ==
  /\ exitRequest' = TryPut(reason)
  /\ first' = IF first = None THEN reason ELSE first

(* queueRestart stores the reply first.  A key that is still in the table  *)
(* violates the unique column: the handler throws, and with it the         *)
(* consumer of messages.                                                   *)
StoreReply(r) ==
  /\ Racing /\ inner = "running" /\ asked[r] = "no"
  /\ \A q \in Requests : asked[q] # "stored"
  /\ \E k \in Keys \ used :
       /\ used' = used \cup {k}
       /\ IF \E q \in Requests : actions[q] = k
          THEN /\ inner' = "failed" /\ done' = (IF done = None THEN "inner" ELSE done)
               /\ UNCHANGED <<actions, asked>>
          ELSE /\ actions' = [actions EXCEPT ![r] = k]
               /\ asked' = [asked EXCEPT ![r] = "stored"]
               /\ UNCHANGED <<inner, done>>
  /\ UNCHANGED <<phase, exitRequest, result, waiter, first, bounds, todo, replied, answers, excused>>

AskRestart(r) ==
  /\ Racing /\ inner = "running" /\ asked[r] = "stored"
  /\ asked' = [asked EXCEPT ![r] = "put"]
  /\ Put("restart")
  /\ UNCHANGED <<phase, used, result, waiter, inner, done, rows, bounds>>

(* The handlers of SIGTERM and SIGINT are there while the tasks race. *)
Signal ==
  /\ Racing /\ signals < Signals
  /\ signals' = signals + 1
  /\ Put("stop")
  /\ UNCHANGED <<phase, used, asked, result, waiter, inner, done, rows, failures, starts>>

(* takeMVar and putMVar: the waiter holds the reason in between. *)
Take ==
  /\ Racing /\ waiter = "waiting" /\ exitRequest # None
  /\ waiter' = exitRequest /\ exitRequest' = None
  /\ UNCHANGED <<phase, used, asked, result, inner, done, first, rows, bounds>>

PutResult ==
  /\ Racing /\ waiter \in Reasons
  /\ result' = waiter /\ waiter' = "done"
  /\ done' = IF done = None THEN "waiter" ELSE done
  /\ UNCHANGED <<phase, used, asked, exitRequest, inner, first, rows, bounds>>

InnerEnds ==
  /\ Racing /\ inner = "running"
  /\ \/ inner' = "ended" /\ NoFault
     \/ inner' = "failed" /\ Fault
  /\ done' = IF done = None THEN "inner" ELSE done
  /\ UNCHANGED <<phase, used, asked, exitRequest, result, waiter, first, rows>>

-----------------------------------------------------------------------------
(* cancelBoth: one task after the other, and wait for each *)

Decide ==
  /\ phase = "running" /\ done # None
  /\ phase' = "cancelling"
  /\ UNCHANGED <<used, asked, mvars, rows, bounds>>

CancelInner ==
  /\ phase = "cancelling" /\ inner = "running"
  /\ inner' = "cancelled"
  /\ UNCHANGED <<phase, used, asked, exitRequest, result, waiter, done, first, rows, bounds>>

CancelWaiter ==
  /\ phase = "cancelling" /\ inner # "running" /\ waiter \in {"waiting"} \cup Reasons
  /\ waiter' = "cancelled"
  /\ UNCHANGED <<phase, used, asked, exitRequest, result, inner, done, first, rows, bounds>>

\* Mutant: the exit request is looked at before the result.
MutReason == IF exitRequest # None THEN exitRequest ELSE IF result # None THEN result ELSE "stop"
Reason == IF result # None THEN result ELSE IF exitRequest # None THEN exitRequest ELSE "stop"

\* Mutant: a cancelled waiter does not count as ended.
MutOver == phase = "cancelling" /\ inner # "running" /\ waiter = "done"
Over == phase = "cancelling" /\ inner # "running" /\ waiter \in {"done", "cancelled"}

(* The exception of a task that failed first is thrown on, and nobody      *)
(* catches it; otherwise the reason decides.                               *)
Leave ==
  /\ Over
  /\ phase' = IF (done = "inner" /\ inner = "failed") \/ Reason = "stop" THEN "down" ELSE "loading"
  /\ UNCHANGED <<used, asked, mvars, rows, bounds>>

Lost == excused \cup (IF replied = None THEN {} ELSE {replied})

(* The process is killed. *)
Crash ==
  /\ phase # "down" /\ Fault
  /\ phase' = "down" /\ excused' = Lost
  /\ todo' = {} /\ replied' = None
  /\ UNCHANGED <<used, asked, mvars, actions, answers>>

(* The container is started again. *)
Start ==
  /\ phase = "down" /\ starts < Starts
  /\ starts' = starts + 1
  /\ phase' = "loading" /\ used' = {}
  /\ UNCHANGED <<asked, mvars, rows, signals, failures>>

Next ==
  \/ Load \/ Delete \/ Run \/ Signal \/ Take \/ PutResult \/ InnerEnds
  \/ Decide \/ CancelInner \/ CancelWaiter \/ Leave \/ Crash \/ Start
  \/ \E r \in Requests : Reply(r) \/ StoreReply(r) \/ AskRestart(r)

Spec == Init /\ [][Next]_vars

(* Threads that can run do; a program that is cancelled stops. *)
FairSpec ==
  /\ Spec
  /\ WF_vars(Load) /\ WF_vars(Delete) /\ WF_vars(Run) /\ WF_vars(Take) /\ WF_vars(PutResult)
  /\ WF_vars(Decide) /\ WF_vars(CancelInner) /\ WF_vars(CancelWaiter) /\ WF_vars(Leave)
  /\ \A r \in Requests : WF_vars(Reply(r)) /\ WF_vars(AskRestart(r))

-----------------------------------------------------------------------------
(* Properties *)

(* Every restart that was asked for is answered exactly once, whatever the *)
(* order of requests, signals and crashes: its row is there until its      *)
(* reply was tried, and goes with it (queueRestart, runStartupActions).    *)
AnsweredOnce ==
  \A r \in Requests \ excused :
    answers[r] + (IF actions[r] # None /\ replied # r THEN 1 ELSE 0) = IF asked[r] = "no" THEN 0 ELSE 1

(* When the program is ended by a request, the first request decides       *)
(* between stop and restart (runUntilExit).                                *)
FirstRequestDecides == Over /\ done = "waiter" => Reason = first

(* Both, with the types of the variables.                                  *)
RepliesAreGivenOnce == TypeOK /\ AnsweredOnce /\ FirstRequestDecides

(* A request ends the program, and then it is down or, once the replies    *)
(* it owes are sent, runs again (runUntilExit, runStartupActions).         *)
RequestsAreHeeded ==
  /\ (phase = "running" /\ first # None) ~> (phase \in {"loading", "down"})
  /\ (phase = "loading") ~> (phase \in {"running", "down"})

(* AdminSpec.hs: a lifecycle restart request restarts the runtime.         *)
RestartRequestRestarts == Over /\ first = "restart" /\ inner # "failed" => Reason = "restart"
=============================================================================
