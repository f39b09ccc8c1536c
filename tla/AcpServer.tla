------------------------------ MODULE AcpServer ------------------------------
(***************************************************************************)
(* The Agent Client Protocol server (src/cosmobot/lib/Bot/ACP/State.hs,    *)
(* ACP/Server.hs and Chat/Driver/ACP.hs) for one session: clients with a   *)
(* bounded queue, a writer and a reader each, prompts that wait for the    *)
(* agent's reply, replies broadcast to every client, requests of the       *)
(* agent's tools to the client that prompted, and session/cancel.          *)
(*                                                                         *)
(* A step is one STM transaction.  The agent is what the driver and the    *)
(* tools see of it: a run for each prompted message.                       *)
(***************************************************************************)
EXTENDS Naturals, Sequences, TLC

CONSTANTS
  Clients,    \* accepted connections
  NoClient,   \* no client
  Prompts,    \* session/prompt requests; their messages, runs and replies have the same names
  Cancelled,  \* PromptCancelled
  NoPrompt,   \* no prompt: an empty waiter, the run of an idle tool call
  Tools,      \* tool calls that ask the client
  Capacity,   \* acpClientQueueCapacity
  MaxSent,    \* bound of the model: notifications broadcast
  MaxFrames   \* bound of the model: frames the clients send

ASSUME AcpServerAssumption ==
  /\ Capacity \in Nat \ {0} /\ MaxSent \in Nat /\ MaxFrames \in Nat
  /\ NoClient \notin Clients /\ NoPrompt # Cancelled
  /\ NoPrompt \notin Prompts /\ Cancelled \notin Prompts

VARIABLES
  conn,       \* a connection: "new", "serving", "leaving" (its tasks are stopped) or "gone"
  reader,     \* what its reader does: "reads", "halts" runs or "responds"
  halting,    \* the messages whose runs its reader has still to halt
  queue,      \* its events
  clients,    \* the registered clients
  active,     \* activeSessionClients: the client of the session, or NoClient
  prompt,     \* session/prompt tasks
  waiting,    \* promptWaiters: the prompts with a waiter
  messages,   \* activePromptMessages
  run,        \* the agent's run for a message
  tool,       \* tool calls
  pending,    \* pendingClientRequests: the calls whose client may answer
  sent,       \* ghost: the replies of which a part was broadcast, in order
  since,      \* ghost: how many were broadcast before a client registered
  got,        \* ghost: how many parts of replies a client received
  asked,      \* requests a client received
  wrong,      \* ghost: parts received in another order, responses received too early
  upTo,       \* ghost: how much was broadcast when a prompt was completed
  completed,  \* ghost: the runs that completed a reply
  frames      \* frames the clients have sent

connections == <<conn, reader, halting>>
session     == <<active, waiting, messages>>
history     == <<sent, since, got, asked, wrong>>
ghosts      == <<history, upTo, completed>>
vars == <<connections, queue, clients, session, prompt, run, tool, pending, ghosts, frames>>

Answers == Prompts \cup {Cancelled, NoPrompt}

Part(n)     == [kind |-> "part", n |-> n]
Response(p) == [kind |-> "response", n |-> p]
Request(t)  == [kind |-> "request", n |-> t]
Other       == [kind |-> "other", n |-> 0]       \* user_message_chunk, other responses
Disconnect  == [kind |-> "disconnect", n |-> 0]

Init ==
  /\ conn = [c \in Clients |-> "new"] /\ reader = [c \in Clients |-> "reads"] /\ halting = [c \in Clients |-> {}]
  /\ queue = [c \in Clients |-> <<>>] /\ clients = {} /\ active = NoClient /\ waiting = {} /\ messages = {}
  /\ prompt = [p \in Prompts |-> [pc |-> "idle", client |-> NoClient, previous |-> NoClient, waiter |-> NoPrompt]]
  /\ run = [p \in Prompts |-> "none"]
  /\ tool = [t \in Tools |-> [pc |-> "idle", run |-> NoPrompt, client |-> NoClient, answer |-> "none"]] /\ pending = {}
  /\ sent = <<>> /\ since = [c \in Clients |-> 0] /\ got = [c \in Clients |-> 0] /\ asked = {} /\ wrong = {}
  /\ upTo = [p \in Prompts |-> 0] /\ completed = {} /\ frames = 0

\* Mutant: one event too many.
MutHasRoom(c) == Len(queue[c]) <= Capacity

HasRoom(c) == Len(queue[c]) < Capacity

\* writeClient: blocks while the queue is full, whether or not anybody reads it.
writeClient(c, e) == HasRoom(c) /\ queue' = [queue EXCEPT ![c] = Append(@, e)]

registerClient(c) ==
  /\ conn[c] = "new"
  /\ conn' = [conn EXCEPT ![c] = "serving"] /\ clients' = clients \cup {c}
  /\ since' = [since EXCEPT ![c] = Len(sent)]
  /\ UNCHANGED <<reader, halting, queue, session, prompt, run, tool, pending, sent, got, asked, wrong, upTo, completed, frames>>

\* One of the two tasks has ended: raceTasks_ stops the other.
Stop(c) ==
  /\ conn' = [conn EXCEPT ![c] = "leaving"]
  /\ reader' = [reader EXCEPT ![c] = "reads"] /\ halting' = [halting EXCEPT ![c] = {}]

\* The socket fails or is closed.
Lose(c) ==
  /\ conn[c] = "serving" /\ Stop(c)
  /\ UNCHANGED <<queue, clients, session, prompt, run, tool, pending, ghosts, frames>>

writeQueuedFrames(c) ==
  /\ conn[c] = "serving" /\ queue[c] # <<>>
  /\ queue' = [queue EXCEPT ![c] = Tail(@)]
  /\ LET e == Head(queue[c]) IN
     /\ IF e = Disconnect THEN Stop(c) ELSE UNCHANGED connections
     /\ got' = IF e.kind = "part" THEN [got EXCEPT ![c] = @ + 1] ELSE got
     /\ asked' = IF e.kind = "request" THEN asked \cup {e.n} ELSE asked
     /\ wrong' = IF \/ e.kind = "part" /\ e.n # since[c] + got[c] + 1
                    \/ e.kind = "response" /\ since[c] + got[c] < upTo[e.n]
                 THEN wrong \cup {e} ELSE wrong
  /\ UNCHANGED <<clients, session, prompt, run, tool, pending, sent, since, upTo, completed, frames>>

\* Mutant: only the requests that were sent are told.
MutRemoved(c) == {t \in pending : tool[t].client = c /\ tool[t].pc = "waits"}

\* The calls whose client is gone; tryPutTMVar leaves an answer that is there.
Removed(c) == {t \in pending : tool[t].client = c}
Told(ts)   == [t \in Tools |-> IF t \in ts /\ tool[t].answer = "none" THEN [tool[t] EXCEPT !.answer = "error"] ELSE tool[t]]

unregisterClient(c) ==
  /\ conn[c] = "leaving"
  /\ conn' = [conn EXCEPT ![c] = "gone"] /\ clients' = clients \ {c}
  /\ active' = IF active = c THEN NoClient ELSE active
  /\ tool' = Told(Removed(c)) /\ pending' = pending \ Removed(c)
  /\ UNCHANGED <<reader, halting, queue, waiting, messages, prompt, run, ghosts, frames>>
------------------------------------------------------------------------------

\* What a client that is too slow finds: nothing but the order to leave.
Overflowed == <<Disconnect>>

\* Mutant: a full queue does not take the event.
MutBroadcast(e) ==
  /\ queue' = [c \in Clients |-> IF c \in clients /\ HasRoom(c) THEN Append(queue[c], e) ELSE queue[c]]
  /\ UNCHANGED clients

broadcast(e) ==
  /\ queue' = [c \in Clients |->
                 IF c \notin clients THEN queue[c] ELSE IF HasRoom(c) THEN Append(queue[c], e) ELSE Overflowed]
  /\ clients' = {c \in clients : HasRoom(c)}
------------------------------------------------------------------------------
(* The reader of a client: one frame after the other.                      *)

Frame(c) == conn[c] = "serving" /\ reader[c] = "reads" /\ frames < MaxFrames /\ frames' = frames + 1

\* session/prompt: the task is not bound to the connection.
dispatchAcpRequestFrame(c, p) ==
  /\ Frame(c) /\ prompt[p].pc = "idle"
  /\ prompt' = [prompt EXCEPT ![p].pc = "fired", ![p].client = c]
  /\ UNCHANGED <<connections, queue, clients, session, run, tool, pending, ghosts>>

\* Mutant: one of the waiters is told.
MutAnswered(ps, a) == [p \in Prompts |-> IF ps # {} /\ p = (CHOOSE q \in ps : TRUE) THEN [prompt[p] EXCEPT !.waiter = a] ELSE prompt[p]]

\* Mutant: a waiter hears of cancellations.
MutCancelled(ps, a) == [p \in Prompts |-> IF p \in ps /\ a = Cancelled THEN [prompt[p] EXCEPT !.waiter = a] ELSE prompt[p]]

\* The prompts whose waiters are answered; tryPutTMVar leaves an answer that is there.
Answered(ps, a) == [p \in Prompts |-> IF p \in ps /\ prompt[p].waiter = NoPrompt THEN [prompt[p] EXCEPT !.waiter = a] ELSE prompt[p]]

cancelSessionPrompts(c) ==
  /\ Frame(c)
  /\ halting' = [halting EXCEPT ![c] = messages] /\ reader' = [reader EXCEPT ![c] = "halts"]
  /\ messages' = {} /\ prompt' = Answered(waiting, Cancelled)
  /\ UNCHANGED <<conn, queue, clients, active, waiting, run, tool, pending, ghosts>>

\* The calls of a run end with it; one that has not yet sent its request leaves the
\* pending entry behind, for nothing removes it before the request is sent.
Calls(m) == {t \in Tools : tool[t].run = m /\ tool[t].pc # "idle"}
Aborted(m) ==
  /\ tool' = [t \in Tools |-> IF t \in Calls(m) THEN [tool[t] EXCEPT !.pc = "done"] ELSE tool[t]]
  /\ pending' = {t \in pending : ~(t \in Calls(m) /\ tool[t].pc = "waits")}

\* haltThread: only a run that is under way is known, and can be halted.
cancelAcpThread(c, m) ==
  /\ m \in halting[c] /\ halting' = [halting EXCEPT ![c] = @ \ {m}]
  /\ IF run[m] = "running"
       THEN run' = [run EXCEPT ![m] = "halted"] /\ Aborted(m)
       ELSE UNCHANGED <<run, tool, pending>>
  /\ UNCHANGED <<conn, reader, queue, clients, session, prompt, ghosts, frames>>

\* session/cancel is a request or a notification.
Halted(c) ==
  /\ reader[c] = "halts" /\ halting[c] = {}
  /\ \E next \in {"reads", "responds"} : reader' = [reader EXCEPT ![c] = next]
  /\ UNCHANGED <<conn, halting, queue, clients, session, prompt, run, tool, pending, ghosts, frames>>

\* A frame that is answered and changes nothing here: initialize, session/list and the like.
OtherRequest(c) ==
  /\ Frame(c) /\ reader' = [reader EXCEPT ![c] = "responds"]
  /\ UNCHANGED <<conn, halting, queue, clients, session, prompt, run, tool, pending, ghosts>>

Respond(c) ==
  /\ reader[c] = "responds" /\ writeClient(c, Other) /\ reader' = [reader EXCEPT ![c] = "reads"]
  /\ UNCHANGED <<conn, halting, clients, session, prompt, run, tool, pending, ghosts, frames>>

\* The client answers a request it received; a second answer is an "Unexpected ACP client response".
resolveClientResponse(c, t) ==
  /\ Frame(c) /\ t \in asked /\ tool[t].client = c
  /\ IF t \in pending
       THEN /\ pending' = pending \ {t} /\ UNCHANGED reader
            /\ tool' = IF tool[t].answer = "none" THEN [tool EXCEPT ![t].answer = "result"] ELSE tool
       ELSE reader' = [reader EXCEPT ![c] = "responds"] /\ UNCHANGED <<tool, pending>>
  /\ UNCHANGED <<conn, halting, queue, clients, session, prompt, run, ghosts>>
------------------------------------------------------------------------------
(* A session/prompt task: withActiveSessionClient around withPromptWaiter  *)
(* around enqueuePrompt.                                                   *)

At(p, pc)  == prompt[p].pc = pc
Go(p, pc)  == prompt' = [prompt EXCEPT ![p].pc = pc]

ActivateClient(p) ==
  /\ At(p, "fired") /\ active' = prompt[p].client
  /\ prompt' = [prompt EXCEPT ![p].pc = "active", ![p].previous = active]
  /\ UNCHANGED <<connections, queue, clients, waiting, messages, run, tool, pending, ghosts, frames>>

AddWaiter(p) ==
  /\ At(p, "active") /\ waiting' = waiting \cup {p} /\ Go(p, "appends")
  /\ UNCHANGED <<connections, queue, clients, active, messages, run, tool, pending, ghosts, frames>>

\* The message is stored and put on the inbound channel.
enqueuePromptMessage(p) ==
  /\ At(p, "appends") /\ messages' = messages \cup {p} /\ run' = [run EXCEPT ![p] = "inbound"]
  /\ Go(p, "echoes")
  /\ UNCHANGED <<connections, queue, clients, active, waiting, tool, pending, ghosts, frames>>

\* The session does not exist: the prompt is answered with an error.
Refused(p) ==
  /\ At(p, "appends") /\ waiting' = waiting \ {p} /\ Go(p, "leaves")
  /\ UNCHANGED <<connections, queue, clients, active, messages, run, tool, pending, ghosts, frames>>

EchoPrompt(p) ==
  /\ At(p, "echoes") /\ writeClient(prompt[p].client, Other) /\ Go(p, "waits")
  /\ UNCHANGED <<connections, clients, session, run, tool, pending, ghosts, frames>>

PromptResolved(p) ==
  /\ At(p, "waits") /\ prompt[p].waiter # NoPrompt /\ waiting' = waiting \ {p}
  /\ Go(p, IF prompt[p].waiter = Cancelled THEN "leaves" ELSE "completes")
  /\ UNCHANGED <<connections, queue, clients, active, messages, run, tool, pending, ghosts, frames>>

\* completeSessionPrompt forgets every message of the session.
completeSessionPrompt(p) ==
  /\ At(p, "completes") /\ messages' = {} /\ Go(p, "leaves")
  /\ UNCHANGED <<connections, queue, clients, active, waiting, run, tool, pending, ghosts, frames>>

ReleaseClient(p) ==
  /\ At(p, "leaves") /\ active' = prompt[p].previous /\ Go(p, "responds")
  /\ UNCHANGED <<connections, queue, clients, waiting, messages, run, tool, pending, ghosts, frames>>

RespondPrompt(p) ==
  /\ At(p, "responds") /\ writeClient(prompt[p].client, Response(p)) /\ Go(p, "done")
  /\ UNCHANGED <<connections, clients, session, run, tool, pending, ghosts, frames>>
------------------------------------------------------------------------------
(* The agent's run for a message, through the driver.                      *)

\* Another route may take the message, or none.
StartRun(p) ==
  /\ run[p] = "inbound" /\ \E next \in {"running", "over"} : run' = [run EXCEPT ![p] = next]
  /\ UNCHANGED <<connections, queue, clients, session, prompt, tool, pending, ghosts, frames>>

\* A reply is stored, or a longer text of it.
storeReply(p) ==
  /\ run[p] = "running" /\ Len(sent) < MaxSent
  /\ sent' = Append(sent, p) /\ broadcast(Part(Len(sent) + 1))
  /\ UNCHANGED <<connections, session, prompt, run, tool, pending, since, got, asked, wrong, upTo, completed, frames>>

Replied(p) == \E i \in DOMAIN sent : sent[i] = p

\* completeMessageEdit: every waiter of the session is told of this reply.
notifyPromptComplete(p) ==
  /\ run[p] = "running" /\ Replied(p)
  /\ prompt' = Answered(waiting, p)
  /\ upTo' = [q \in Prompts |-> IF prompt'[q].waiter # prompt[q].waiter THEN Len(sent) ELSE upTo[q]]
  /\ completed' = completed \cup {p}
  /\ UNCHANGED <<connections, queue, clients, session, run, tool, pending, history, frames>>

EndRun(p) ==
  /\ run[p] = "running" /\ Calls(p) \subseteq {t \in Tools : tool[t].pc = "done"}
  /\ run' = [run EXCEPT ![p] = "over"]
  /\ UNCHANGED <<connections, queue, clients, session, prompt, tool, pending, ghosts, frames>>
------------------------------------------------------------------------------
(* requestSessionClient: a tool call of a run asks the session's client.   *)

\* Without a registered client, or if the client does not support it, the call fails at once.
AcquireClient(t, p) ==
  /\ tool[t].pc = "idle" /\ run[p] = "running"
  /\ \/ /\ active \in clients
        /\ tool' = [tool EXCEPT ![t] = [pc |-> "sends", run |-> p, client |-> active, answer |-> "none"]]
        /\ pending' = pending \cup {t}
     \/ /\ tool' = [tool EXCEPT ![t] = [pc |-> "done", run |-> p, client |-> NoClient, answer |-> "error"]]
        /\ UNCHANGED pending
  /\ UNCHANGED <<connections, queue, clients, session, prompt, run, ghosts, frames>>

SendRequest(t) ==
  /\ tool[t].pc = "sends" /\ writeClient(tool[t].client, Request(t))
  /\ tool' = [tool EXCEPT ![t].pc = "waits"]
  /\ UNCHANGED <<connections, clients, session, prompt, run, pending, ghosts, frames>>

ReceiveAnswer(t) ==
  /\ tool[t].pc = "waits" /\ tool[t].answer # "none"
  /\ tool' = [tool EXCEPT ![t].pc = "done"] /\ pending' = pending \ {t}
  /\ UNCHANGED <<connections, queue, clients, session, prompt, run, ghosts, frames>>
------------------------------------------------------------------------------
OfClient(c) ==
  \/ registerClient(c) \/ Lose(c) \/ writeQueuedFrames(c) \/ unregisterClient(c)
  \/ cancelSessionPrompts(c) \/ Halted(c) \/ OtherRequest(c) \/ Respond(c)
  \/ \E p \in Prompts : dispatchAcpRequestFrame(c, p) \/ cancelAcpThread(c, p)
  \/ \E t \in Tools : resolveClientResponse(c, t)

OfPrompt(p) ==
  \/ ActivateClient(p) \/ AddWaiter(p) \/ enqueuePromptMessage(p) \/ Refused(p) \/ EchoPrompt(p)
  \/ PromptResolved(p) \/ completeSessionPrompt(p) \/ ReleaseClient(p) \/ RespondPrompt(p)

OfRun(p) == StartRun(p) \/ storeReply(p) \/ notifyPromptComplete(p) \/ EndRun(p)

OfTool(t) == (\E p \in Prompts : AcquireClient(t, p)) \/ SendRequest(t) \/ ReceiveAnswer(t)

Next ==
  \/ \E c \in Clients : OfClient(c)
  \/ \E p \in Prompts : OfPrompt(p) \/ OfRun(p)
  \/ \E t \in Tools : OfTool(t)

Spec == Init /\ [][Next]_vars

\* The scheduler runs every task; the sockets take what is written or fail.  What
\* the clients and the agent do is up to them.
Fairness ==
  /\ \A c \in Clients :
       /\ WF_vars(writeQueuedFrames(c)) /\ WF_vars(unregisterClient(c)) /\ WF_vars(Halted(c)) /\ WF_vars(Respond(c))
       /\ \A p \in Prompts : WF_vars(cancelAcpThread(c, p))
  /\ \A p \in Prompts : WF_vars(OfPrompt(p))
  /\ \A t \in Tools : WF_vars(SendRequest(t)) /\ WF_vars(ReceiveAnswer(t))

FairSpec == Spec /\ Fairness
------------------------------------------------------------------------------
\* What is pushed into a queue, and what of it is remembered.
Events == [kind : {"part"}, n : 1..MaxSent] \cup [kind : {"response"}, n : Prompts] \cup [kind : {"request"}, n : Tools]

PromptType ==
  [pc : {"idle", "fired", "active", "appends", "echoes", "waits", "completes", "leaves", "responds", "done"},
   client : Clients \cup {NoClient}, previous : Clients \cup {NoClient}, waiter : Answers]
ToolType ==
  [pc : {"idle", "sends", "waits", "done"}, run : Prompts \cup {NoPrompt},
   client : Clients \cup {NoClient}, answer : {"none", "result", "error"}]

\* The state is well-formed.
TypeOK ==
  /\ conn \in [Clients -> {"new", "serving", "leaving", "gone"}]
  /\ reader \in [Clients -> {"reads", "halts", "responds"}] /\ halting \in [Clients -> SUBSET Prompts]
  /\ queue \in [Clients -> Seq(Events \cup {Other, Disconnect})]
  /\ \A c \in Clients : Len(queue[c]) <= Capacity
  /\ clients \subseteq Clients /\ active \in Clients \cup {NoClient}
  /\ prompt \in [Prompts -> PromptType]
  /\ waiting \subseteq Prompts /\ messages \subseteq Prompts
  /\ run \in [Prompts -> {"none", "inbound", "running", "halted", "over"}]
  /\ tool \in [Tools -> ToolType]
  /\ pending \subseteq Tools
  /\ sent \in Seq(Prompts) /\ since \in [Clients -> Nat] /\ got \in [Clients -> Nat] /\ asked \subseteq Tools /\ wrong \subseteq Events
  /\ upTo \in [Prompts -> Nat] /\ completed \subseteq Prompts /\ frames \in Nat

\* A client receives the broadcast parts from its registration on, in order and
\* without a gap: one that cannot follow is disconnected, it does not miss parts
\* (broadcastClient, drainTBQueue).
NoSilentLoss == \A e \in wrong : e.kind # "part"

\* When a client reads that a prompt is completed it has received every part of
\* the reply that was broadcast before (completeMessageEdit comes after
\* editMessage, and the response goes through the same queue).
ReplyBeforeResponse == \A e \in wrong : e.kind # "response"

\* What a client reads is gapless and in order, parts and responses together.
RepliesArriveWhole == NoSilentLoss /\ ReplyBeforeResponse

\* A tool call without an answer waits for a client whose connection will end
\* it, if the client does not: unregisterClient answers every call that is
\* pending, and no call begins after it.
NoOrphanRequest ==
  \A t \in Tools : tool[t].pc \in {"sends", "waits"} /\ tool[t].answer = "none" =>
    t \in pending /\ conn[tool[t].client] \in {"serving", "leaving"}

\* A prompt does not miss the completion of its own reply, however fast the
\* agent is: the waiter is there before the message is (withPromptWaiter).
NoLostCompletion ==
  \A p \in completed : prompt[p].pc \in {"echoes", "waits"} => prompt[p].waiter # NoPrompt

\* Whoever waits can be woken: the tool call by the client or by its end, the
\* prompt by the completion of its reply; with the types of the variables.
WaitersCanBeWoken == TypeOK /\ NoOrphanRequest /\ NoLostCompletion

\* A prompt whose reply is complete is answered, unless its client leaves.
CompletedIsAnswered ==
  \A p \in Prompts :
    p \in completed ~> (At(p, "done") \/ \E c \in Clients : prompt[p].client = c /\ conn[c] # "serving")

\* The test "session/prompt does not complete on nonfinal reply" (ACPSpec.hs:62):
\* a prompt is completed by the final reply to its own message.
CompletesOnItsReply == \A p \in Prompts : At(p, "completes") => p \in completed

\* "No active ACP client for this session." (State.hs:175): a call fails for want
\* of a client only if no client has a prompt in progress.
ActiveClientIsKnown ==
  (\E p \in Prompts : prompt[p].pc = "waits" /\ prompt[p].client \in clients) => active \in clients

Interchangeable == Permutations(Clients)
==============================================================================
