--------------------------- MODULE AcpServer_proofs ---------------------------
(***************************************************************************)
(* Proofs about AcpServer, for any clients, prompts and tool calls, any    *)
(* capacity of the queues and any bounds.                                  *)
(***************************************************************************)
EXTENDS AcpServer, TLAPS

(***************************************************************************)
(* Type correctness: what each operation does to the variable it changes.  *)
(***************************************************************************)

Pcs == {"idle", "fired", "active", "appends", "echoes", "waits", "completes", "leaves", "responds", "done"}

Conns == [Clients -> {"new", "serving", "leaving", "gone"}]
Readers == [Clients -> {"reads", "halts", "responds"}]
Queued == Events \cup {Other, Disconnect}

LEMMA InitType == Init => TypeOK
<1> SUFFICES ASSUME Init PROVE TypeOK
  OBVIOUS
<1>1. prompt \in [Prompts -> PromptType]
  BY DEF Init, PromptType, Answers
<1>2. tool \in [Tools -> ToolType]
  BY DEF Init, ToolType
<1>3. queue \in [Clients -> Seq(Queued)] /\ \A c \in Clients : Len(queue[c]) <= Capacity
  BY AcpServerAssumption DEF Init
<1>4. sent \in Seq(Prompts) /\ since \in [Clients -> Nat] /\ got \in [Clients -> Nat] /\ upTo \in [Prompts -> Nat] /\ frames \in Nat
  BY DEF Init
<1>5. /\ conn \in Conns /\ reader \in Readers /\ halting \in [Clients -> SUBSET Prompts]
      /\ run \in [Prompts -> {"none", "inbound", "running", "halted", "over"}]
  BY DEF Init, Conns, Readers
<1> QED BY <1>1, <1>2, <1>3, <1>4, <1>5, Zenon DEF Init, TypeOK, Queued, Conns, Readers

\* A prompt goes on.
LEMMA GoType ==
  ASSUME TypeOK, NEW p \in Prompts, NEW pc \in Pcs
  PROVE  [prompt EXCEPT ![p].pc = pc] \in [Prompts -> PromptType]
<1>1. prompt \in [Prompts -> PromptType]
  BY Zenon DEF TypeOK
<1>2. [prompt[p] EXCEPT !.pc = pc] \in PromptType
  BY <1>1 DEF PromptType, Pcs
<1>3. [prompt EXCEPT ![p] = [prompt[p] EXCEPT !.pc = pc]] \in [Prompts -> PromptType]
  BY <1>1, <1>2
<1> QED BY <1>3

\* Waiters are answered.
LEMMA AnsweredType ==
  ASSUME TypeOK, NEW ps, NEW a \in Answers
  PROVE  Answered(ps, a) \in [Prompts -> PromptType]
<1>1. prompt \in [Prompts -> PromptType]
  BY Zenon DEF TypeOK
<1>2. \A p \in Prompts : [prompt[p] EXCEPT !.waiter = a] \in PromptType
  BY <1>1 DEF PromptType
<1> QED BY <1>1, <1>2 DEF Answered

\* A tool call goes on, is told, or ends with its run.
LEMMA ToolTypes ==
  ASSUME TypeOK
  PROVE  /\ \A t \in Tools : \A pc \in {"waits", "done"} : [tool EXCEPT ![t].pc = pc] \in [Tools -> ToolType]
         /\ \A t \in Tools : [tool EXCEPT ![t].answer = "result"] \in [Tools -> ToolType]
         /\ \A ts : Told(ts) \in [Tools -> ToolType]
         /\ \A m : Aborted(m) => tool' \in [Tools -> ToolType] /\ pending' \subseteq pending
<1>1. tool \in [Tools -> ToolType]
  BY Zenon DEF TypeOK
<1>2. \A t \in Tools : /\ \A pc \in {"waits", "done"} : [tool[t] EXCEPT !.pc = pc] \in ToolType
                       /\ \A a \in {"result", "error"} : [tool[t] EXCEPT !.answer = a] \in ToolType
  BY <1>1 DEF ToolType
<1>3. ASSUME NEW t \in Tools, NEW pc \in {"waits", "done"}
      PROVE  [tool EXCEPT ![t].pc = pc] \in [Tools -> ToolType]
  <2>1. [tool EXCEPT ![t] = [tool[t] EXCEPT !.pc = pc]] \in [Tools -> ToolType]
    BY <1>1, <1>2
  <2> QED BY <2>1
<1>4. ASSUME NEW t \in Tools PROVE [tool EXCEPT ![t].answer = "result"] \in [Tools -> ToolType]
  <2>1. [tool EXCEPT ![t] = [tool[t] EXCEPT !.answer = "result"]] \in [Tools -> ToolType]
    BY <1>1, <1>2
  <2> QED BY <2>1
<1>5. ASSUME NEW ts PROVE Told(ts) \in [Tools -> ToolType]
  BY <1>1, <1>2 DEF Told
<1>6. ASSUME NEW m, Aborted(m) PROVE tool' \in [Tools -> ToolType] /\ pending' \subseteq pending
  BY <1>1, <1>2, <1>6 DEF Aborted
<1> QED BY <1>3, <1>4, <1>5, <1>6, Zenon

\* An event is put into a queue.
LEMMA PutType ==
  ASSUME TypeOK, NEW c \in Clients, NEW e \in Queued, writeClient(c, e)
  PROVE  queue' \in [Clients -> Seq(Queued)] /\ \A d \in Clients : Len(queue'[d]) <= Capacity
<1>1. queue \in [Clients -> Seq(Queued)] /\ \A d \in Clients : Len(queue[d]) <= Capacity
  BY Zenon DEF TypeOK, Queued
<1>2. Append(queue[c], e) \in Seq(Queued) /\ Len(Append(queue[c], e)) <= Capacity
  BY <1>1, AcpServerAssumption DEF writeClient, HasRoom
<1> QED BY <1>1, <1>2 DEF writeClient

LEMMA EventTypes ==
  /\ \A p \in Prompts : Response(p) \in Queued /\ \A t \in Tools : Request(t) \in Queued
  /\ \A t \in Tools : Request(t) \in Queued
  /\ \A n \in 1..MaxSent : Part(n) \in Queued
  /\ Other \in Queued /\ Disconnect \in Queued
  /\ \A e \in Queued : e.kind \in {"part", "response", "request"} => e \in Events
  /\ \A e \in Events : e.kind = "request" => e.n \in Tools
BY DEF Queued, Events, Response, Request, Part, Other, Disconnect

\* A broadcast reaches the queues of the registered clients.
LEMMA BroadcastType ==
  ASSUME TypeOK, NEW e \in Queued, broadcast(e)
  PROVE  /\ queue' \in [Clients -> Seq(Queued)] /\ \A d \in Clients : Len(queue'[d]) <= Capacity
         /\ clients' \subseteq clients
<1>1. queue \in [Clients -> Seq(Queued)] /\ \A d \in Clients : Len(queue[d]) <= Capacity
  BY Zenon DEF TypeOK, Queued
<1>2. Overflowed \in Seq(Queued) /\ Len(Overflowed) <= Capacity
  BY AcpServerAssumption, EventTypes DEF Overflowed
<1>3. ASSUME NEW d \in Clients, HasRoom(d)
      PROVE  Append(queue[d], e) \in Seq(Queued) /\ Len(Append(queue[d], e)) <= Capacity
  BY <1>1, <1>3, AcpServerAssumption DEF HasRoom
<1> QED BY <1>1, <1>2, <1>3 DEF broadcast

(***************************************************************************)
(* The steps of the connections.                                           *)
(***************************************************************************)

LEMMA ConnectionTypes ==
  ASSUME TypeOK, NEW c \in Clients,
         registerClient(c) \/ Lose(c) \/ unregisterClient(c) \/ Halted(c) \/ OtherRequest(c)
  PROVE  TypeOK'
<1>1. conn \in Conns /\ reader \in Readers /\ halting \in [Clients -> SUBSET Prompts]
  BY Zenon DEF TypeOK, Conns, Readers
<1>2. CASE registerClient(c)
  <2>1. Len(sent) \in Nat /\ since \in [Clients -> Nat] /\ clients \subseteq Clients
    BY DEF TypeOK
  <2>2. conn' \in Conns /\ since' \in [Clients -> Nat] /\ clients' \subseteq Clients
    BY <1>1, <1>2, <2>1 DEF registerClient, Conns
  <2> QED BY <1>2, <2>2, Zenon DEF registerClient, TypeOK, session, Conns
<1>3. CASE Lose(c)
  <2>1. conn' \in Conns /\ reader' \in Readers /\ halting' \in [Clients -> SUBSET Prompts]
    BY <1>1, <1>3 DEF Lose, Stop, Conns, Readers
  <2> QED BY <1>3, <2>1, Zenon DEF Lose, TypeOK, session, ghosts, history, Conns, Readers
<1>4. CASE unregisterClient(c)
  <2>1. conn' \in Conns
    BY <1>1, <1>4 DEF unregisterClient, Conns
  <2>2. clients' \subseteq Clients /\ active' \in Clients \cup {NoClient} /\ pending' \subseteq Tools
    BY <1>4 DEF unregisterClient, TypeOK
  <2>3. tool' \in [Tools -> ToolType]
    BY <1>4, ToolTypes, Zenon DEF unregisterClient
  <2> QED BY <1>4, <2>1, <2>2, <2>3, Zenon DEF unregisterClient, TypeOK, ghosts, history, Conns
<1>5. CASE Halted(c)
  <2>1. reader' \in Readers
    BY <1>1, <1>5 DEF Halted, Readers
  <2> QED BY <1>5, <2>1, Zenon DEF Halted, TypeOK, session, ghosts, history, Readers
<1>6. CASE OtherRequest(c)
  <2>1. reader' \in Readers /\ frames' \in Nat
    BY <1>1, <1>6 DEF OtherRequest, Frame, Readers, TypeOK
  <2> QED BY <1>6, <2>1, Zenon DEF OtherRequest, TypeOK, session, ghosts, history, Readers
<1> QED BY <1>2, <1>3, <1>4, <1>5, <1>6

LEMMA WriterTypes ==
  ASSUME TypeOK, NEW c \in Clients, writeQueuedFrames(c)
  PROVE  TypeOK'
<1> DEFINE e == Head(queue[c])
<1>1. conn \in Conns /\ reader \in Readers /\ halting \in [Clients -> SUBSET Prompts]
  BY Zenon DEF TypeOK, Conns, Readers
<1>2. queue \in [Clients -> Seq(Queued)] /\ \A d \in Clients : Len(queue[d]) <= Capacity
  BY Zenon DEF TypeOK, Queued
<1>3. e \in Queued /\ Tail(queue[c]) \in Seq(Queued) /\ Len(Tail(queue[c])) <= Capacity
  BY <1>2, AcpServerAssumption DEF writeQueuedFrames
<1>4. queue' \in [Clients -> Seq(Queued)] /\ \A d \in Clients : Len(queue'[d]) <= Capacity
  BY <1>2, <1>3 DEF writeQueuedFrames
<1>5. conn' \in Conns /\ reader' \in Readers /\ halting' \in [Clients -> SUBSET Prompts]
  BY <1>1 DEF writeQueuedFrames, Stop, connections, Conns, Readers
<1>6. got' \in [Clients -> Nat]
  <2>1. got \in [Clients -> Nat]
    BY Zenon DEF TypeOK
  <2> QED BY <2>1 DEF writeQueuedFrames
<1>7. asked' \subseteq Tools
  <2>1. asked \subseteq Tools
    BY Zenon DEF TypeOK
  <2> QED BY <1>3, <2>1, EventTypes, Zenon DEF writeQueuedFrames
<1>8. wrong' \subseteq Events
  <2>1. wrong \subseteq Events
    BY Zenon DEF TypeOK
  <2> QED BY <1>3, <2>1, EventTypes, Zenon DEF writeQueuedFrames
<1> QED BY <1>4, <1>5, <1>6, <1>7, <1>8, Zenon DEF writeQueuedFrames, TypeOK, session, Queued, Conns, Readers

LEMMA ReaderTypes ==
  ASSUME TypeOK, NEW c \in Clients,
         \/ cancelSessionPrompts(c) \/ Respond(c)
         \/ \E p \in Prompts : dispatchAcpRequestFrame(c, p) \/ cancelAcpThread(c, p)
         \/ \E t \in Tools : resolveClientResponse(c, t)
  PROVE  TypeOK'
<1>1. reader \in Readers /\ halting \in [Clients -> SUBSET Prompts] /\ frames \in Nat
  BY Zenon DEF TypeOK, Readers
<1>2. CASE cancelSessionPrompts(c)
  <2>1. prompt' \in [Prompts -> PromptType]
    BY <1>2, AnsweredType DEF cancelSessionPrompts, Answers
  <2>2. reader' \in Readers /\ halting' \in [Clients -> SUBSET Prompts] /\ frames' \in Nat /\ messages' = {}
    BY <1>1, <1>2 DEF cancelSessionPrompts, Frame, Readers, TypeOK
  <2> QED BY <1>2, <2>1, <2>2, Zenon DEF cancelSessionPrompts, TypeOK, ghosts, history, Readers
<1>3. CASE Respond(c)
  <2>1. reader' \in Readers
    BY <1>1, <1>3 DEF Respond, Readers
  <2>2. queue' \in [Clients -> Seq(Queued)] /\ \A d \in Clients : Len(queue'[d]) <= Capacity
    BY <1>3, PutType, EventTypes DEF Respond
  <2> QED BY <1>3, <2>1, <2>2, Zenon DEF Respond, TypeOK, session, ghosts, history, Readers, Queued
<1>4. CASE \E p \in Prompts : dispatchAcpRequestFrame(c, p)
  <2>1. PICK p \in Prompts : dispatchAcpRequestFrame(c, p)
    BY <1>4
  <2>2. prompt' \in [Prompts -> PromptType]
    <3>1. prompt \in [Prompts -> PromptType]
      BY Zenon DEF TypeOK
    <3>2. [prompt[p] EXCEPT !.pc = "fired", !.client = c] \in PromptType
      BY <3>1 DEF PromptType
    <3>3. [prompt EXCEPT ![p] = [prompt[p] EXCEPT !.pc = "fired", !.client = c]] \in [Prompts -> PromptType]
      BY <3>1, <3>2
    <3> QED BY <2>1, <3>3 DEF dispatchAcpRequestFrame
  <2>3. frames' \in Nat
    BY <1>1, <2>1 DEF dispatchAcpRequestFrame, Frame
  <2> QED BY <2>1, <2>2, <2>3, Zenon DEF dispatchAcpRequestFrame, TypeOK, connections, session, ghosts, history
<1>5. CASE \E p \in Prompts : cancelAcpThread(c, p)
  <2>1. PICK p \in Prompts : cancelAcpThread(c, p)
    BY <1>5
  <2>2. halting' \in [Clients -> SUBSET Prompts]
    BY <1>1, <2>1 DEF cancelAcpThread
  <2>3. tool' \in [Tools -> ToolType] /\ pending' \subseteq Tools
    <3>1. tool \in [Tools -> ToolType] /\ pending \subseteq Tools
      BY Zenon DEF TypeOK
    <3> QED BY <2>1, <3>1, ToolTypes, Zenon DEF cancelAcpThread
  <2>4. run' \in [Prompts -> {"none", "inbound", "running", "halted", "over"}]
    <3>1. run \in [Prompts -> {"none", "inbound", "running", "halted", "over"}]
      BY Zenon DEF TypeOK
    <3> QED BY <2>1, <3>1 DEF cancelAcpThread
  <2> QED BY <2>1, <2>2, <2>3, <2>4, Zenon DEF cancelAcpThread, TypeOK, session, ghosts, history
<1>6. CASE \E t \in Tools : resolveClientResponse(c, t)
  <2>1. PICK t \in Tools : resolveClientResponse(c, t)
    BY <1>6
  <2>2. reader' \in Readers /\ frames' \in Nat
    BY <1>1, <2>1 DEF resolveClientResponse, Frame, Readers
  <2>3. tool' \in [Tools -> ToolType] /\ pending' \subseteq Tools
    <3>1. tool \in [Tools -> ToolType] /\ pending \subseteq Tools
      BY Zenon DEF TypeOK
    <3> QED BY <2>1, <3>1, ToolTypes, Zenon DEF resolveClientResponse
  <2> QED BY <2>1, <2>2, <2>3, Zenon DEF resolveClientResponse, TypeOK, session, ghosts, history, Readers
<1> QED BY <1>2, <1>3, <1>4, <1>5, <1>6, Zenon

(***************************************************************************)
(* The steps of the prompts, the runs and the tool calls.                  *)
(***************************************************************************)

LEMMA PromptTypes ==
  ASSUME TypeOK, NEW p \in Prompts, OfPrompt(p)
  PROVE  TypeOK'
<1>1. \A pc \in Pcs : [prompt EXCEPT ![p].pc = pc] \in [Prompts -> PromptType]
  BY GoType
<1>2. CASE ActivateClient(p)
  <2>1. prompt \in [Prompts -> PromptType] /\ active \in Clients \cup {NoClient}
    BY Zenon DEF TypeOK
  <2>2. [prompt[p] EXCEPT !.pc = "active", !.previous = active] \in PromptType /\ prompt[p].client \in Clients \cup {NoClient}
    BY <2>1 DEF PromptType
  <2>3. [prompt EXCEPT ![p] = [prompt[p] EXCEPT !.pc = "active", !.previous = active]] \in [Prompts -> PromptType]
    BY <2>1, <2>2
  <2>4. prompt' \in [Prompts -> PromptType] /\ active' \in Clients \cup {NoClient}
    BY <1>2, <2>2, <2>3 DEF ActivateClient
  <2> QED BY <1>2, <2>4, Zenon DEF ActivateClient, TypeOK, connections, ghosts, history
<1>3. CASE AddWaiter(p) \/ Refused(p) \/ PromptResolved(p)
  <2>1. prompt' \in [Prompts -> PromptType]
    BY <1>1, <1>3 DEF AddWaiter, Refused, PromptResolved, Go, Pcs
  <2>2. waiting' \subseteq Prompts
    BY <1>3 DEF AddWaiter, Refused, PromptResolved, TypeOK
  <2> QED BY <1>3, <2>1, <2>2, Zenon DEF AddWaiter, Refused, PromptResolved, TypeOK, connections, ghosts, history
<1>4. CASE enqueuePromptMessage(p)
  <2>1. prompt' \in [Prompts -> PromptType]
    BY <1>1, <1>4 DEF enqueuePromptMessage, Go, Pcs
  <2>2. messages' \subseteq Prompts /\ run' \in [Prompts -> {"none", "inbound", "running", "halted", "over"}]
    BY <1>4 DEF enqueuePromptMessage, TypeOK
  <2> QED BY <1>4, <2>1, <2>2, Zenon DEF enqueuePromptMessage, TypeOK, connections, ghosts, history
<1>5. CASE EchoPrompt(p) \/ RespondPrompt(p)
  <2>1. prompt' \in [Prompts -> PromptType]
    BY <1>1, <1>5 DEF EchoPrompt, RespondPrompt, Go, Pcs
  <2>2. PICK e \in Queued : writeClient(prompt[p].client, e)
    BY <1>5, EventTypes DEF EchoPrompt, RespondPrompt
  <2>3. queue \in [Clients -> Seq(Queued)] /\ prompt[p].client \in Clients \cup {NoClient}
    BY Zenon DEF TypeOK, Queued, PromptType
  <2>4. queue' \in [Clients -> Seq(Queued)] /\ \A d \in Clients : Len(queue'[d]) <= Capacity
    <3>1. CASE prompt[p].client \in Clients
      BY <2>2, <3>1, PutType
    <3>2. CASE prompt[p].client \notin Clients
      <4>1. queue' = queue
        BY <2>2, <2>3, <3>2 DEF writeClient
      <4> QED BY <4>1, Zenon DEF TypeOK, Queued
    <3> QED BY <3>1, <3>2
  <2> QED BY <1>5, <2>1, <2>4, Zenon DEF EchoPrompt, RespondPrompt, TypeOK, connections, session, ghosts, history, Queued
<1>6. CASE completeSessionPrompt(p)
  <2>1. prompt' \in [Prompts -> PromptType] /\ messages' = {}
    BY <1>1, <1>6 DEF completeSessionPrompt, Go, Pcs
  <2> QED BY <1>6, <2>1, Zenon DEF completeSessionPrompt, TypeOK, connections, ghosts, history
<1>7. CASE ReleaseClient(p)
  <2>1. prompt' \in [Prompts -> PromptType]
    BY <1>1, <1>7 DEF ReleaseClient, Go, Pcs
  <2>2. active' \in Clients \cup {NoClient}
    BY <1>7 DEF ReleaseClient, TypeOK, PromptType
  <2> QED BY <1>7, <2>1, <2>2, Zenon DEF ReleaseClient, TypeOK, connections, ghosts, history
<1> QED BY <1>2, <1>3, <1>4, <1>5, <1>6, <1>7, Zenon DEF OfPrompt

LEMMA RunTypes ==
  ASSUME TypeOK, NEW p \in Prompts, OfRun(p)
  PROVE  TypeOK'
<1>1. CASE StartRun(p) \/ EndRun(p)
  <2>1. run' \in [Prompts -> {"none", "inbound", "running", "halted", "over"}]
    BY <1>1 DEF StartRun, EndRun, TypeOK
  <2> QED BY <1>1, <2>1, Zenon DEF StartRun, EndRun, TypeOK, connections, session, ghosts, history
<1>2. CASE storeReply(p)
  <2>1. sent' \in Seq(Prompts) /\ Len(sent) + 1 \in 1..MaxSent
    BY <1>2, AcpServerAssumption DEF storeReply, TypeOK
  <2>2. /\ queue' \in [Clients -> Seq(Queued)] /\ \A d \in Clients : Len(queue'[d]) <= Capacity
        /\ clients' \subseteq clients
    BY <1>2, <2>1, EventTypes, BroadcastType DEF storeReply
  <2>3. clients' \subseteq Clients
    BY <2>2 DEF TypeOK
  <2> QED BY <1>2, <2>1, <2>2, <2>3, Zenon DEF storeReply, TypeOK, connections, session, Queued
<1>3. CASE notifyPromptComplete(p)
  <2>1. prompt' \in [Prompts -> PromptType]
    BY <1>3, AnsweredType DEF notifyPromptComplete, Answers
  <2>2. upTo' \in [Prompts -> Nat] /\ completed' \subseteq Prompts
    BY <1>3 DEF notifyPromptComplete, TypeOK
  <2> QED BY <1>3, <2>1, <2>2, Zenon DEF notifyPromptComplete, TypeOK, connections, session, history
<1> QED BY <1>1, <1>2, <1>3 DEF OfRun

LEMMA CallTypes ==
  ASSUME TypeOK, NEW t \in Tools, OfTool(t)
  PROVE  TypeOK'
<1>1. tool \in [Tools -> ToolType] /\ pending \subseteq Tools /\ active \in Clients \cup {NoClient} /\ queue \in [Clients -> Seq(Queued)]
  BY Zenon DEF TypeOK, Queued
<1>2. CASE \E p \in Prompts : AcquireClient(t, p)
  <2>1. tool' \in [Tools -> ToolType] /\ pending' \subseteq Tools
    BY <1>1, <1>2 DEF AcquireClient, ToolType
  <2> QED BY <1>2, <2>1, Zenon DEF AcquireClient, TypeOK, connections, session, ghosts, history
<1>3. CASE SendRequest(t)
  <2>1. tool' \in [Tools -> ToolType]
    BY <1>3, ToolTypes DEF SendRequest
  <2>2. queue' \in [Clients -> Seq(Queued)] /\ \A d \in Clients : Len(queue'[d]) <= Capacity
    <3>1. CASE tool[t].client \in Clients
      BY <1>3, <3>1, PutType, EventTypes DEF SendRequest
    <3>2. CASE tool[t].client \notin Clients
      <4>1. queue' = queue
        BY <1>1, <1>3, <3>2 DEF SendRequest, writeClient
      <4> QED BY <4>1, Zenon DEF TypeOK, Queued
    <3> QED BY <3>1, <3>2
  <2> QED BY <1>3, <2>1, <2>2, Zenon DEF SendRequest, TypeOK, connections, session, ghosts, history, Queued
<1>4. CASE ReceiveAnswer(t)
  <2>1. tool' \in [Tools -> ToolType] /\ pending' \subseteq Tools
    BY <1>1, <1>4, ToolTypes DEF ReceiveAnswer
  <2> QED BY <1>4, <2>1, Zenon DEF ReceiveAnswer, TypeOK, connections, session, ghosts, history
<1> QED BY <1>2, <1>3, <1>4 DEF OfTool

LEMMA TypeStep == TypeOK /\ [Next]_vars => TypeOK'
<1> SUFFICES ASSUME TypeOK, [Next]_vars PROVE TypeOK'
  OBVIOUS
<1>1. ASSUME NEW c \in Clients, OfClient(c) PROVE TypeOK'
  BY <1>1, ConnectionTypes, WriterTypes, ReaderTypes, Zenon DEF OfClient
<1>2. ASSUME UNCHANGED vars PROVE TypeOK'
  BY <1>2, Zenon DEF vars, TypeOK, connections, session, ghosts, history
<1> QED BY <1>1, <1>2, PromptTypes, RunTypes, CallTypes, Zenon DEF Next

\* Every reachable state is well-formed.
THEOREM TypeCorrect == Spec => []TypeOK
BY InitType, TypeStep, PTL DEF Spec

(***************************************************************************)
(* Requests to clients.  A registered client is one whose connection will  *)
(* still be unregistered, and a call that is under way has such a client.  *)
(***************************************************************************)

Here(c) == conn[c] \in {"serving", "leaving"}

RequestInv ==
  /\ \A c \in Clients : c \in clients => Here(c)
  /\ \A t \in Tools : tool[t].pc \in {"sends", "waits"} => tool[t].client \in Clients
  /\ NoOrphanRequest

LEMMA RequestInit == Init => RequestInv
BY DEF Init, RequestInv, NoOrphanRequest

\* Steps that leave connections, calls and pending requests alone.
LEMMA RequestFrame ==
  ASSUME RequestInv, UNCHANGED <<conn, tool, pending>>, clients' \subseteq clients
  PROVE  RequestInv'
BY DEF RequestInv, NoOrphanRequest, Here

\* Steps of the calls: a call that goes on, or loses its entry, has its answer or ends.
LEMMA RequestCalls ==
  ASSUME TypeOK, RequestInv, UNCHANGED <<conn, clients>>,
         \A t \in Tools :
           \/ /\ tool'[t].client = tool[t].client /\ tool'[t].answer = tool[t].answer
              /\ tool'[t].pc \in {"sends", "waits"} => tool[t].pc \in {"sends", "waits"}
              /\ t \in pending => t \in pending'
           \/ tool'[t].client = tool[t].client /\ tool'[t].pc = tool[t].pc /\ tool'[t].answer # "none"
           \/ tool'[t].pc = "done"
           \/ tool'[t].client \in clients /\ t \in pending'
  PROVE  RequestInv'
BY DEF RequestInv, NoOrphanRequest, Here, TypeOK

LEMMA RequestStep == TypeOK /\ RequestInv /\ [Next]_vars => RequestInv'
<1> SUFFICES ASSUME TypeOK, RequestInv, [Next]_vars PROVE RequestInv'
  OBVIOUS
<1>t. tool \in [Tools -> ToolType] /\ conn \in Conns /\ pending \subseteq Tools /\ clients \subseteq Clients
  BY Zenon DEF TypeOK, Conns
<1>1. ASSUME NEW c \in Clients, registerClient(c) \/ Lose(c) \/ writeQueuedFrames(c) PROVE RequestInv'
  <2>1. /\ \A d \in Clients : Here(d) => Here(d)'
        /\ \A d \in clients' : d \in clients \/ Here(d)'
    BY <1>1, <1>t DEF registerClient, Lose, writeQueuedFrames, Stop, Here, connections, Conns
  <2>2. UNCHANGED <<tool, pending>>
    BY <1>1, Zenon DEF registerClient, Lose, writeQueuedFrames
  <2> QED BY <2>1, <2>2, <1>t DEF RequestInv, NoOrphanRequest, Here
<1>2. ASSUME NEW c \in Clients, unregisterClient(c) PROVE RequestInv'
  <2>1. \A d \in Clients : d # c => conn'[d] = conn[d]
    BY <1>2, <1>t DEF unregisterClient, Conns
  <2>3. clients' = clients \ {c} /\ pending' = pending \ Removed(c) /\ Removed(c) = {t \in pending : tool[t].client = c}
    BY <1>2, Zenon DEF unregisterClient, Removed
  <2>2. ASSUME NEW t \in Tools
        PROVE  /\ tool'[t].pc = tool[t].pc /\ tool'[t].client = tool[t].client
               /\ t \in Removed(c) => tool'[t].answer # "none"
               /\ t \notin Removed(c) => tool'[t] = tool[t]
    <3>1. tool' = Told(Removed(c))
      BY <1>2, Zenon DEF unregisterClient
    <3>2. tool'[t] = IF t \in Removed(c) /\ tool[t].answer = "none" THEN [tool[t] EXCEPT !.answer = "error"] ELSE tool[t]
      BY <3>1, Zenon DEF Told
    <3>3. tool[t] \in ToolType
      BY <1>t, Zenon
    <3>4. LET r == [tool[t] EXCEPT !.answer = "error"]
          IN  r.pc = tool[t].pc /\ r.client = tool[t].client /\ r.answer = "error"
      BY <3>3 DEF ToolType
    <3> HIDE DEF Removed
    <3> QED BY <3>2, <3>4
  <2>4. ASSUME NEW t \in Tools, tool'[t].pc \in {"sends", "waits"}
        PROVE  /\ tool'[t].client \in Clients
               /\ tool'[t].answer = "none" => t \in pending' /\ conn'[tool'[t].client] \in {"serving", "leaving"}
    <3>1. tool[t].client \in Clients
      BY <2>2, <2>4, Zenon DEF RequestInv
    <3>2. ASSUME tool'[t].answer = "none"
          PROVE  t \in pending' /\ conn'[tool'[t].client] \in {"serving", "leaving"}
      <4>1. t \notin Removed(c) /\ tool'[t] = tool[t]
        BY <2>2, <3>2, Zenon
      <4>2. t \in pending /\ conn[tool[t].client] \in {"serving", "leaving"}
        BY <2>2, <2>4, <3>2, <4>1, Zenon DEF RequestInv, NoOrphanRequest
      <4>3. tool[t].client # c
        BY <2>3, <4>1, <4>2, Zenon
      <4> QED BY <2>1, <2>3, <3>1, <4>1, <4>2, <4>3, Zenon
    <3> QED BY <2>2, <3>1, <3>2, Zenon
  <2>5. \A d \in Clients : d \in clients' => Here(d)'
    BY <2>1, <2>3 DEF RequestInv, Here
  <2> QED BY <2>4, <2>5 DEF RequestInv, NoOrphanRequest, Here
<1>3. ASSUME NEW c \in Clients, cancelSessionPrompts(c) \/ Halted(c) \/ OtherRequest(c) \/ Respond(c)
      PROVE  RequestInv'
  BY <1>3, RequestFrame, Zenon DEF cancelSessionPrompts, Halted, OtherRequest, Respond
<1>4. ASSUME NEW c \in Clients, NEW p \in Prompts, dispatchAcpRequestFrame(c, p) PROVE RequestInv'
  BY <1>4, RequestFrame, Zenon DEF dispatchAcpRequestFrame, connections
<1>5. ASSUME NEW c \in Clients, NEW p \in Prompts, cancelAcpThread(c, p) PROVE RequestInv'
  <2>1. CASE UNCHANGED <<tool, pending>>
    BY <1>5, <2>1, RequestFrame, Zenon DEF cancelAcpThread
  <2>2. CASE Aborted(p)
    <3>1. \A t \in Tools : /\ t \in Calls(p) => tool'[t].pc = "done"
                           /\ t \notin Calls(p) => tool'[t] = tool[t] /\ (t \in pending => t \in pending')
      BY <1>t, <2>2 DEF Aborted, ToolType
    <3>2. UNCHANGED <<conn, clients>>
      BY <1>5, Zenon DEF cancelAcpThread
    <3> QED BY <3>1, <3>2, RequestCalls
  <2> QED BY <1>5, <2>1, <2>2, Zenon DEF cancelAcpThread
<1>6. ASSUME NEW c \in Clients, NEW t \in Tools, resolveClientResponse(c, t) PROVE RequestInv'
  <2>1. UNCHANGED <<conn, clients>>
    BY <1>6, Zenon DEF resolveClientResponse
  <2>2. CASE t \in pending
    <3>1. /\ tool'[t].client = tool[t].client /\ tool'[t].pc = tool[t].pc /\ tool'[t].answer # "none"
          /\ \A u \in Tools : u # t => tool'[u] = tool[u] /\ (u \in pending => u \in pending')
      BY <1>t, <1>6, <2>2 DEF resolveClientResponse, ToolType
    <3> QED BY <2>1, <3>1, RequestCalls
  <2>3. CASE t \notin pending
    <3>1. UNCHANGED <<tool, pending>>
      BY <1>6, <2>3, Zenon DEF resolveClientResponse
    <3> QED BY <2>1, <3>1, RequestFrame, Zenon
  <2> QED BY <2>2, <2>3
<1>7. ASSUME NEW p \in Prompts, OfPrompt(p) PROVE RequestInv'
  BY <1>7, RequestFrame, Zenon
  DEF OfPrompt, ActivateClient, AddWaiter, enqueuePromptMessage, Refused, EchoPrompt, PromptResolved,
      completeSessionPrompt, ReleaseClient, RespondPrompt, connections
<1>8. ASSUME NEW p \in Prompts, OfRun(p) PROVE RequestInv'
  <2>1. UNCHANGED <<conn, tool, pending>>
    BY <1>8, Zenon DEF OfRun, StartRun, storeReply, notifyPromptComplete, EndRun, connections
  <2>2. clients' \subseteq clients
    BY <1>8 DEF OfRun, StartRun, storeReply, notifyPromptComplete, EndRun, broadcast
  <2> QED BY <2>1, <2>2, RequestFrame, Zenon
<1>9. ASSUME NEW t \in Tools, OfTool(t) PROVE RequestInv'
  <2>1. UNCHANGED <<conn, clients>>
    BY <1>9, Zenon DEF OfTool, AcquireClient, SendRequest, ReceiveAnswer, connections
  <2>2. CASE \E p \in Prompts : AcquireClient(t, p)
    BY <1>t, <2>1, <2>2, RequestCalls DEF AcquireClient
  <2>3. CASE SendRequest(t)
    BY <1>t, <2>1, <2>3, RequestCalls DEF SendRequest, ToolType
  <2>4. CASE ReceiveAnswer(t)
    BY <1>t, <2>1, <2>4, RequestCalls DEF ReceiveAnswer, ToolType
  <2> QED BY <1>9, <2>2, <2>3, <2>4 DEF OfTool
<1>10. ASSUME UNCHANGED vars PROVE RequestInv'
  BY <1>10, RequestFrame, Zenon DEF vars, connections
<1> QED BY <1>1, <1>2, <1>3, <1>4, <1>5, <1>6, <1>7, <1>8, <1>9, <1>10, Zenon DEF Next, OfClient

\* A call without an answer waits for a client that is still to be unregistered.
THEOREM NoRequestIsOrphaned == Spec => []NoOrphanRequest
<1>1. RequestInv => NoOrphanRequest
  BY DEF RequestInv
<1> QED BY <1>1, RequestInit, RequestStep, TypeCorrect, PTL DEF Spec

(***************************************************************************)
(* Completions.  A prompt that may still be completed has a waiter, and no *)
(* run has begun, let alone completed, before the message is there.        *)
(***************************************************************************)

CompletionInv ==
  /\ \A p \in Prompts : prompt[p].pc \in {"appends", "echoes", "waits"} => p \in waiting
  /\ \A p \in Prompts : prompt[p].pc \in {"idle", "fired", "active", "appends"} => run[p] = "none"
  /\ \A p \in completed : run[p] # "none"
  /\ NoLostCompletion

LEMMA CompletionInit == Init => CompletionInv
BY DEF Init, CompletionInv, NoLostCompletion

\* Steps that leave every prompt where it is and take no answer back.
LEMMA CompletionFrame ==
  ASSUME TypeOK, CompletionInv, UNCHANGED <<waiting, completed>>,
         \A p \in Prompts : /\ prompt'[p].pc = prompt[p].pc
                            /\ prompt[p].waiter # NoPrompt => prompt'[p].waiter # NoPrompt
                            /\ run[p] = "none" <=> run'[p] = "none"
  PROVE  CompletionInv'
BY DEF CompletionInv, NoLostCompletion, TypeOK

\* A prompt goes on to where no completion is awaited, or on from "echoes" to "waits".
LEMMA CompletionGo ==
  ASSUME TypeOK, CompletionInv, UNCHANGED <<run, completed>>, NEW p \in Prompts,
         NEW pc \in Pcs, Go(p, pc),
         \/ pc = "waits" /\ prompt[p].pc = "echoes" /\ waiting' = waiting
         \/ pc \in {"completes", "leaves", "responds", "done"} /\ waiting' \in {waiting, waiting \ {p}}
  PROVE  CompletionInv'
<1>1. \A q \in Prompts : /\ q # p => prompt'[q] = prompt[q]
                         /\ prompt'[p].pc = pc /\ prompt'[p].waiter = prompt[p].waiter
  BY DEF Go, TypeOK, PromptType
<1>2. \A q \in Prompts : q # p => (q \in waiting <=> q \in waiting')
  OBVIOUS
<1>3. completed \subseteq Prompts
  BY Zenon DEF TypeOK
<1>4. CASE pc = "waits" /\ prompt[p].pc = "echoes" /\ waiting' = waiting
  BY <1>1, <1>3, <1>4 DEF CompletionInv, NoLostCompletion
<1>5. CASE pc \in {"completes", "leaves", "responds", "done"}
  BY <1>1, <1>2, <1>3, <1>5 DEF CompletionInv, NoLostCompletion
<1> QED BY <1>4, <1>5

\* Answering waiters moves no prompt and takes no answer back.
LEMMA AnsweredFields ==
  ASSUME TypeOK, NEW ps, NEW a \in Prompts \cup {Cancelled}, NEW p \in Prompts
  PROVE  /\ Answered(ps, a)[p].pc = prompt[p].pc
         /\ prompt[p].waiter # NoPrompt \/ p \in ps => Answered(ps, a)[p].waiter # NoPrompt
<1>1. prompt[p] \in PromptType
  BY Zenon DEF TypeOK
<1>2. [prompt[p] EXCEPT !.waiter = a].pc = prompt[p].pc /\ [prompt[p] EXCEPT !.waiter = a].waiter = a
  BY <1>1 DEF PromptType
<1>3. a # NoPrompt
  BY AcpServerAssumption
<1> QED BY <1>2, <1>3 DEF Answered

LEMMA CompletionStep == TypeOK /\ CompletionInv /\ [Next]_vars => CompletionInv'
<1> SUFFICES ASSUME TypeOK, CompletionInv, [Next]_vars PROVE CompletionInv'
  OBVIOUS
<1>t. prompt \in [Prompts -> PromptType] /\ run \in [Prompts -> {"none", "inbound", "running", "halted", "over"}]
      /\ completed \subseteq Prompts
  BY Zenon DEF TypeOK
<1>0. ASSUME UNCHANGED <<prompt, run, waiting, completed>> PROVE CompletionInv'
  BY <1>0, CompletionFrame, Zenon
<1>1. ASSUME NEW c \in Clients,
             \/ registerClient(c) \/ Lose(c) \/ writeQueuedFrames(c) \/ unregisterClient(c)
             \/ Halted(c) \/ OtherRequest(c) \/ Respond(c) \/ \E t \in Tools : resolveClientResponse(c, t)
      PROVE  CompletionInv'
  BY <1>0, <1>1, Zenon DEF registerClient, Lose, writeQueuedFrames, unregisterClient, Halted, OtherRequest, Respond,
      resolveClientResponse, session, ghosts
<1>2. ASSUME NEW c \in Clients, cancelSessionPrompts(c) PROVE CompletionInv'
  <2>1. prompt' = Answered(waiting, Cancelled) /\ UNCHANGED <<run, waiting, completed>>
    BY <1>2, Zenon DEF cancelSessionPrompts, ghosts
  <2> QED BY <2>1, AnsweredFields, CompletionFrame
<1>3. ASSUME NEW c \in Clients, NEW p \in Prompts, dispatchAcpRequestFrame(c, p) PROVE CompletionInv'
  <2>1. \A q \in Prompts : /\ q # p => prompt'[q] = prompt[q]
                           /\ prompt'[p].pc = "fired" /\ prompt[p].pc = "idle"
    BY <1>3, <1>t DEF dispatchAcpRequestFrame, PromptType
  <2>2. UNCHANGED <<run, waiting, completed>>
    BY <1>3, Zenon DEF dispatchAcpRequestFrame, session, ghosts
  <2> QED BY <1>t, <2>1, <2>2 DEF CompletionInv, NoLostCompletion
<1>4. ASSUME NEW c \in Clients, NEW p \in Prompts, cancelAcpThread(c, p) PROVE CompletionInv'
  <2>1. \A q \in Prompts : run[q] = "none" <=> run'[q] = "none"
    BY <1>4, <1>t DEF cancelAcpThread
  <2>2. UNCHANGED <<prompt, waiting, completed>>
    BY <1>4, Zenon DEF cancelAcpThread, session, ghosts
  <2> QED BY <2>1, <2>2, CompletionFrame
<1>5. ASSUME NEW p \in Prompts, ActivateClient(p) PROVE CompletionInv'
  <2>1. \A q \in Prompts : /\ q # p => prompt'[q] = prompt[q]
                           /\ prompt'[p].pc = "active" /\ prompt[p].pc = "fired"
    BY <1>5, <1>t DEF ActivateClient, At, PromptType
  <2>2. UNCHANGED <<run, waiting, completed>>
    BY <1>5, Zenon DEF ActivateClient, ghosts
  <2> QED BY <1>t, <2>1, <2>2 DEF CompletionInv, NoLostCompletion
<1>6. ASSUME NEW p \in Prompts, AddWaiter(p) PROVE CompletionInv'
  <2>1. \A q \in Prompts : /\ q # p => prompt'[q] = prompt[q]
                           /\ prompt'[p].pc = "appends" /\ prompt[p].pc = "active"
    BY <1>6, <1>t DEF AddWaiter, At, Go, PromptType
  <2>2. waiting' = waiting \cup {p} /\ UNCHANGED <<run, completed>>
    BY <1>6, Zenon DEF AddWaiter, ghosts
  <2> QED BY <1>t, <2>1, <2>2 DEF CompletionInv, NoLostCompletion
\* The message appears: its run may begin, and none has before.
<1>7. ASSUME NEW p \in Prompts, enqueuePromptMessage(p) PROVE CompletionInv'
  <2>1. \A q \in Prompts : /\ q # p => prompt'[q] = prompt[q] /\ run'[q] = run[q]
                           /\ prompt'[p].pc = "echoes" /\ prompt[p].pc = "appends" /\ run'[p] = "inbound"
    BY <1>7, <1>t DEF enqueuePromptMessage, At, Go, PromptType
  <2>2. UNCHANGED <<waiting, completed>>
    BY <1>7, Zenon DEF enqueuePromptMessage, ghosts
  <2>3. p \notin completed
    BY <2>1 DEF CompletionInv
  <2> QED BY <1>t, <2>1, <2>2, <2>3 DEF CompletionInv, NoLostCompletion
<1>8. ASSUME NEW p \in Prompts, Refused(p) \/ EchoPrompt(p) \/ completeSessionPrompt(p) \/ ReleaseClient(p) \/ RespondPrompt(p)
      PROVE  CompletionInv'
  <2>1. UNCHANGED <<run, completed>>
    BY <1>8, Zenon DEF Refused, EchoPrompt, completeSessionPrompt, ReleaseClient, RespondPrompt, ghosts
  <2>2. \/ Go(p, "waits") /\ prompt[p].pc = "echoes" /\ waiting' = waiting
        \/ \E pc \in {"leaves", "responds", "done"} : Go(p, pc) /\ waiting' \in {waiting, waiting \ {p}}
    BY <1>8 DEF Refused, EchoPrompt, completeSessionPrompt, ReleaseClient, RespondPrompt, session, At
  <2> QED BY <2>1, <2>2, CompletionGo DEF Pcs
<1>9. ASSUME NEW p \in Prompts, PromptResolved(p) PROVE CompletionInv'
  <2>1. waiting' = waiting \ {p} /\ UNCHANGED <<run, completed>>
    BY <1>9, Zenon DEF PromptResolved, ghosts
  <2>2. \E pc \in {"leaves", "completes"} : Go(p, pc)
    BY <1>9 DEF PromptResolved
  <2> QED BY <2>1, <2>2, CompletionGo DEF Pcs
<1>10. ASSUME NEW p \in Prompts, StartRun(p) \/ storeReply(p) \/ EndRun(p) PROVE CompletionInv'
  <2>1. \A q \in Prompts : run[q] = "none" <=> run'[q] = "none"
    BY <1>10, <1>t DEF StartRun, storeReply, EndRun
  <2>2. UNCHANGED <<prompt, waiting, completed>>
    BY <1>10, Zenon DEF StartRun, storeReply, EndRun, session, ghosts
  <2> QED BY <2>1, <2>2, CompletionFrame
\* A prompt that waits for this completion has a waiter, which is answered.
<1>11. ASSUME NEW p \in Prompts, notifyPromptComplete(p) PROVE CompletionInv'
  <2>1. /\ prompt' = Answered(waiting, p) /\ completed' = completed \cup {p} /\ run[p] = "running"
        /\ UNCHANGED <<run, waiting>>
    BY <1>11, Zenon DEF notifyPromptComplete, session
  <2>2. \A q \in Prompts : /\ prompt'[q].pc = prompt[q].pc
                           /\ prompt[q].waiter # NoPrompt \/ q \in waiting => prompt'[q].waiter # NoPrompt
    BY <2>1, AnsweredFields
  <2> QED BY <1>t, <2>1, <2>2 DEF CompletionInv, NoLostCompletion
<1>12. ASSUME NEW t \in Tools, OfTool(t) PROVE CompletionInv'
  BY <1>0, <1>12, Zenon DEF OfTool, AcquireClient, SendRequest, ReceiveAnswer, session, ghosts
<1>13. ASSUME UNCHANGED vars PROVE CompletionInv'
  BY <1>0, <1>13, Zenon DEF vars, session, ghosts
<1> QED BY <1>1, <1>2, <1>3, <1>4, <1>5, <1>6, <1>7, <1>8, <1>9, <1>10, <1>11, <1>12, <1>13, Zenon
        DEF Next, OfClient, OfPrompt, OfRun

\* A prompt does not miss the completion of its own reply: the waiter is there
\* before the message, and the message before the run.
THEOREM CompletionIsNotLost == Spec => []NoLostCompletion
<1>1. CompletionInv => NoLostCompletion
  BY DEF CompletionInv
<1> QED BY <1>1, CompletionInit, CompletionStep, TypeCorrect, PTL DEF Spec

\* Whoever waits, a tool call or a prompt, can be woken, for any clients, prompts,
\* calls and capacity (unregisterClient, withPromptWaiter).
THEOREM Woken == Spec => []WaitersCanBeWoken
BY TypeCorrect, NoRequestIsOrphaned, CompletionIsNotLost, PTL DEF WaitersCanBeWoken

(***************************************************************************)
(* What a client reads.  A queue of a client whose connection follows the  *)
(* session holds the parts that were broadcast and not yet received, one   *)
(* after the other, and a response only behind the parts its reply had     *)
(* when the prompt was completed; a client that fell behind has nothing in *)
(* front of the order to leave.                                            *)
(***************************************************************************)

IsPart(e)     == e.kind = "part"
IsResponse(e) == e.kind = "response"

\* The parts in a queue are those after the b-th, up to the s-th.
InOrder(q, b, s) ==
  /\ \A j \in 1..Len(q) : IsPart(q[j]) => q[j].n \in (b + 1)..s
  /\ \A j \in 1..Len(q) : IsPart(q[j]) => q[j].n = b + 1 \/ \E i \in 1..(j - 1) : IsPart(q[i]) /\ q[i].n = q[j].n - 1
  /\ \A j \in 1..Len(q) : \A i \in 1..(j - 1) : IsPart(q[i]) /\ IsPart(q[j]) => q[i].n < q[j].n
  /\ s = b \/ \E j \in 1..Len(q) : IsPart(q[j]) /\ q[j].n = s

\* A response comes behind the parts that f says.
Behind(q, b, f) ==
  \A j \in 1..Len(q) : IsResponse(q[j]) =>
    f[q[j].n] <= b \/ \E i \in 1..(j - 1) : IsPart(q[i]) /\ f[q[j].n] <= q[i].n

Numbered == [Prompts -> Nat]

\* Something is put into a queue: the next part ...
LEMMA AppendPart ==
  ASSUME NEW q \in Seq(Queued), NEW b \in Nat, NEW s \in Nat, NEW f \in Numbered, NEW e \in Queued,
         InOrder(q, b, s), Behind(q, b, f), IsPart(e), e.n = s + 1
  PROVE  InOrder(Append(q, e), b, s + 1) /\ Behind(Append(q, e), b, f)
<1> DEFINE r == Append(q, e)
<1>1. /\ Len(q) \in Nat /\ Len(r) = Len(q) + 1 /\ r[Len(q) + 1] = e
      /\ \A j \in 1..Len(q) : r[j] = q[j]
  OBVIOUS
<1> HIDE DEF r
<1>2. \A j \in 1..(Len(q) + 1) : j \in 1..Len(q) \/ j = Len(q) + 1
  BY <1>1
<1>3. \A j \in 1..(Len(q) + 1) : \A i \in 1..(j - 1) : i \in 1..Len(q)
  BY <1>1
<1>4. \A j \in 1..Len(q) : IsPart(q[j]) => q[j].n \in (b + 1)..s
  BY DEF InOrder
<1>5. b <= s
  BY <1>4 DEF InOrder
<1>6. \A j \in 1..Len(r) : IsPart(r[j]) => r[j].n \in (b + 1)..(s + 1)
  BY <1>1, <1>2, <1>4, <1>5
<1>7. ASSUME NEW j \in 1..Len(r), IsPart(r[j])
      PROVE  r[j].n = b + 1 \/ \E i \in 1..(j - 1) : IsPart(r[i]) /\ r[i].n = r[j].n - 1
  <2>1. CASE j \in 1..Len(q)
    BY <1>1, <1>3, <1>7, <2>1 DEF InOrder
  <2>2. CASE j = Len(q) + 1
    <3>1. CASE s = b
      BY <1>1, <2>2, <3>1
    <3>2. ASSUME NEW i \in 1..Len(q), IsPart(q[i]), q[i].n = s
          PROVE  r[j].n = b + 1 \/ \E k \in 1..(j - 1) : IsPart(r[k]) /\ r[k].n = r[j].n - 1
      <4>1. i \in 1..(j - 1) /\ r[i] = q[i] /\ r[j].n - 1 = s
        BY <1>1, <2>2, <3>2
      <4> QED BY <3>2, <4>1
    <3> QED BY <3>1, <3>2 DEF InOrder
  <2> QED BY <1>1, <1>2, <2>1, <2>2
<1>8. ASSUME NEW j \in 1..Len(r), NEW i \in 1..(j - 1), IsPart(r[i]), IsPart(r[j]) PROVE r[i].n < r[j].n
  <2>1. i \in 1..Len(q) /\ r[i] = q[i] /\ q[i].n \in (b + 1)..s
    BY <1>1, <1>3, <1>4, <1>8
  <2>2. CASE j \in 1..Len(q)
    BY <1>1, <1>8, <2>1, <2>2 DEF InOrder
  <2>3. CASE j = Len(q) + 1
    BY <1>1, <2>1, <2>3
  <2> QED BY <1>1, <1>2, <2>2, <2>3
<1>9. \E j \in 1..Len(r) : IsPart(r[j]) /\ r[j].n = s + 1
  BY <1>1
<1>10. InOrder(r, b, s + 1)
  BY <1>6, <1>7, <1>8, <1>9 DEF InOrder
<1>11. Behind(r, b, f)
  <2> SUFFICES ASSUME NEW j \in 1..Len(r), IsResponse(r[j])
               PROVE  f[r[j].n] <= b \/ \E i \in 1..(j - 1) : IsPart(r[i]) /\ f[r[j].n] <= r[i].n
    BY DEF Behind
  <2>1. j \in 1..Len(q) /\ r[j] = q[j]
    BY <1>1, <1>2 DEF IsPart, IsResponse
  <2> QED BY <1>1, <1>3, <2>1 DEF Behind
<1> QED BY <1>10, <1>11 DEF r

\* ... or anything else, a response once all its parts are there.
LEMMA AppendOther ==
  ASSUME NEW q \in Seq(Queued), NEW b \in Nat, NEW s \in Nat, NEW f \in Numbered, NEW e \in Queued,
         InOrder(q, b, s), Behind(q, b, f), ~ IsPart(e), IsResponse(e) => f[e.n] <= s /\ f[e.n] \in Nat
  PROVE  InOrder(Append(q, e), b, s) /\ Behind(Append(q, e), b, f)
<1> DEFINE r == Append(q, e)
<1>1. /\ Len(q) \in Nat /\ Len(r) = Len(q) + 1 /\ r[Len(q) + 1] = e
      /\ \A j \in 1..Len(q) : r[j] = q[j]
  OBVIOUS
<1> HIDE DEF r
<1>2. \A j \in 1..(Len(q) + 1) : j \in 1..Len(q) \/ j = Len(q) + 1
  BY <1>1
<1>3. \A j \in 1..(Len(q) + 1) : \A i \in 1..(j - 1) : i \in 1..Len(q)
  BY <1>1
<1>4. \A j \in 1..Len(r) : IsPart(r[j]) => j \in 1..Len(q) /\ r[j] = q[j]
  BY <1>1, <1>2
<1>5. ASSUME NEW j \in 1..Len(q), IsPart(q[j]), q[j].n = s PROVE \E i \in 1..Len(r) : IsPart(r[i]) /\ r[i].n = s
  BY <1>1, <1>5
<1>6. ASSUME NEW j \in 1..Len(q), IsPart(q[j])
      PROVE  q[j].n = b + 1 \/ \E i \in 1..(j - 1) : IsPart(r[i]) /\ r[i].n = q[j].n - 1
  BY <1>1, <1>3, <1>6 DEF InOrder
<1>7. InOrder(r, b, s)
  BY <1>1, <1>3, <1>4, <1>5, <1>6 DEF InOrder
<1>8. Behind(r, b, f)
  <2> SUFFICES ASSUME NEW j \in 1..Len(r), IsResponse(r[j])
               PROVE  f[r[j].n] <= b \/ \E i \in 1..(j - 1) : IsPart(r[i]) /\ f[r[j].n] <= r[i].n
    BY DEF Behind
  <2>1. CASE j \in 1..Len(q)
    BY <1>1, <1>3, <2>1 DEF Behind
  <2>2. CASE j = Len(q) + 1
    <3>1. r[j] = e /\ f[e.n] <= s
      BY <1>1, <2>2
    <3>2. CASE s = b
      BY <3>1, <3>2
    <3>3. ASSUME NEW i \in 1..Len(q), IsPart(q[i]), q[i].n = s
          PROVE  \E k \in 1..(j - 1) : IsPart(r[k]) /\ f[r[j].n] <= r[k].n
      BY <1>1, <2>2, <3>1, <3>3
    <3> QED BY <3>2, <3>3 DEF InOrder
  <2> QED BY <1>1, <1>2, <2>1, <2>2
<1> QED BY <1>7, <1>8 DEF r

\* The first event of a queue is taken out: the next part, or anything else.
LEMMA TakePart ==
  ASSUME NEW q \in Seq(Queued), q # <<>>, NEW b \in Nat, NEW s \in Nat, NEW f \in Numbered,
         InOrder(q, b, s), Behind(q, b, f), IsPart(Head(q))
  PROVE  Head(q).n = b + 1 /\ InOrder(Tail(q), b + 1, s) /\ Behind(Tail(q), b + 1, f)
<1> DEFINE r == Tail(q)
<1>1. /\ Len(q) \in Nat \ {0} /\ Len(r) = Len(q) - 1 /\ Head(q) = q[1]
      /\ \A j \in 1..(Len(q) - 1) : r[j] = q[j + 1]
  OBVIOUS
<1> HIDE DEF r
<1>2. \A j \in 1..(Len(q) - 1) : j + 1 \in 1..Len(q) /\ 1 \in 1..((j + 1) - 1)
  BY <1>1
<1>3. 1 \in 1..Len(q) /\ ~ \E i \in 1..(1 - 1) : TRUE
  BY <1>1
<1>4. q[1].n = b + 1
  BY <1>1, <1>3 DEF InOrder
<1>5. ASSUME NEW j \in 1..Len(r), IsPart(r[j]) PROVE r[j].n \in (b + 1 + 1)..s
  <2>1. j + 1 \in 1..Len(q) /\ 1 \in 1..((j + 1) - 1) /\ r[j] = q[j + 1]
    BY <1>1, <1>2
  <2>2. q[1].n < q[j + 1].n /\ q[j + 1].n \in (b + 1)..s
    BY <1>1, <1>5, <2>1 DEF InOrder
  <2> QED BY <1>4, <2>1, <2>2
<1>6. ASSUME NEW j \in 1..Len(r), IsPart(r[j])
      PROVE  r[j].n = b + 1 + 1 \/ \E i \in 1..(j - 1) : IsPart(r[i]) /\ r[i].n = r[j].n - 1
  <2>1. j + 1 \in 1..Len(q) /\ r[j] = q[j + 1] /\ r[j].n \in (b + 1 + 1)..s
    BY <1>1, <1>2, <1>5, <1>6
  <2>2. PICK i \in 1..((j + 1) - 1) : IsPart(q[i]) /\ q[i].n = q[j + 1].n - 1
    BY <1>6, <2>1 DEF InOrder
  <2>3. CASE i = 1
    BY <1>4, <2>1, <2>2, <2>3
  <2>4. CASE i # 1
    <3>1. i - 1 \in 1..(j - 1) /\ r[i - 1] = q[i]
      BY <1>1, <2>4
    <3> QED BY <2>1, <2>2, <3>1
  <2> QED BY <2>3, <2>4
<1>7. ASSUME NEW j \in 1..Len(r), NEW i \in 1..(j - 1), IsPart(r[i]), IsPart(r[j]) PROVE r[i].n < r[j].n
  <2>1. j + 1 \in 1..Len(q) /\ i + 1 \in 1..((j + 1) - 1) /\ r[j] = q[j + 1] /\ r[i] = q[i + 1]
    BY <1>1
  <2> QED BY <1>7, <2>1 DEF InOrder
<1>8. s = b + 1 \/ \E j \in 1..Len(r) : IsPart(r[j]) /\ r[j].n = s
  <2>1. q[1].n \in (b + 1)..s
    BY <1>1, <1>3 DEF InOrder
  <2>2. PICK j \in 1..Len(q) : IsPart(q[j]) /\ q[j].n = s
    BY <2>1 DEF InOrder
  <2>3. CASE j = 1
    BY <1>4, <2>2, <2>3
  <2>4. CASE j # 1
    <3>1. j - 1 \in 1..Len(r) /\ r[j - 1] = q[j]
      BY <1>1, <2>4
    <3> QED BY <2>2, <3>1
  <2> QED BY <2>3, <2>4
<1>9. InOrder(r, b + 1, s)
  BY <1>5, <1>6, <1>7, <1>8 DEF InOrder
<1>10. ASSUME NEW j \in 1..Len(r), IsResponse(r[j]), f[r[j].n] \in Nat
       PROVE  f[r[j].n] <= b + 1 \/ \E i \in 1..(j - 1) : IsPart(r[i]) /\ f[r[j].n] <= r[i].n
  <2>1. j + 1 \in 1..Len(q) /\ r[j] = q[j + 1]
    BY <1>1, <1>2
  <2>2. CASE f[r[j].n] <= b
    BY <1>10, <2>2
  <2>3. ASSUME NEW i \in 1..((j + 1) - 1), IsPart(q[i]), f[r[j].n] <= q[i].n
        PROVE  f[r[j].n] <= b + 1 \/ \E k \in 1..(j - 1) : IsPart(r[k]) /\ f[r[j].n] <= r[k].n
    <3>1. CASE i = 1
      BY <1>4, <2>3, <3>1
    <3>2. CASE i # 1
      <4>1. i - 1 \in 1..(j - 1) /\ r[i - 1] = q[i]
        BY <1>1, <3>2
      <4> QED BY <2>3, <4>1
    <3> QED BY <3>1, <3>2
  <2> QED BY <1>10, <2>1, <2>2, <2>3 DEF Behind
<1>11. \A j \in 1..Len(r) : IsResponse(r[j]) => f[r[j].n] \in Nat
  <2>1. \A j \in 1..Len(r) : r[j] \in Queued
    BY <1>1
  <2>2. \A e \in Queued : IsResponse(e) => e.n \in Prompts
    BY DEF Queued, Events, IsResponse, Other, Disconnect
  <2> QED BY <2>1, <2>2 DEF Numbered
<1> QED BY <1>1, <1>4, <1>9, <1>10, <1>11 DEF r, Behind

LEMMA TakeOther ==
  ASSUME NEW q \in Seq(Queued), q # <<>>, NEW b \in Nat, NEW s \in Nat, NEW f \in Numbered,
         InOrder(q, b, s), Behind(q, b, f), ~ IsPart(Head(q))
  PROVE  /\ InOrder(Tail(q), b, s) /\ Behind(Tail(q), b, f)
         /\ IsResponse(Head(q)) => f[Head(q).n] <= b
<1> DEFINE r == Tail(q)
<1>1. /\ Len(q) \in Nat \ {0} /\ Len(r) = Len(q) - 1 /\ Head(q) = q[1]
      /\ \A j \in 1..(Len(q) - 1) : r[j] = q[j + 1]
  OBVIOUS
<1> HIDE DEF r
<1>2. \A j \in 1..Len(r) : j + 1 \in 1..Len(q) /\ r[j] = q[j + 1]
  BY <1>1
<1>3. \A j \in 1..Len(r) : \A i \in 1..((j + 1) - 1) : i # 1 => i - 1 \in 1..(j - 1) /\ r[i - 1] = q[i]
  BY <1>1
<1>4. ASSUME NEW j \in 1..Len(r), IsPart(r[j])
      PROVE  r[j].n = b + 1 \/ \E i \in 1..(j - 1) : IsPart(r[i]) /\ r[i].n = r[j].n - 1
  <2>1. q[j + 1].n = b + 1 \/ \E i \in 1..((j + 1) - 1) : IsPart(q[i]) /\ q[i].n = q[j + 1].n - 1
    BY <1>2, <1>4 DEF InOrder
  <2> QED BY <1>1, <1>2, <1>3, <2>1
<1>5. ASSUME NEW j \in 1..Len(r), NEW i \in 1..(j - 1), IsPart(r[i]), IsPart(r[j]) PROVE r[i].n < r[j].n
  <2>1. j + 1 \in 1..Len(q) /\ i + 1 \in 1..((j + 1) - 1) /\ r[j] = q[j + 1] /\ r[i] = q[i + 1]
    BY <1>1
  <2> QED BY <1>5, <2>1 DEF InOrder
<1>6. s = b \/ \E j \in 1..Len(r) : IsPart(r[j]) /\ r[j].n = s
  <2>1. ASSUME NEW j \in 1..Len(q), IsPart(q[j]), q[j].n = s PROVE \E k \in 1..Len(r) : IsPart(r[k]) /\ r[k].n = s
    <3>1. j - 1 \in 1..Len(r) /\ r[j - 1] = q[j]
      BY <1>1, <2>1
    <3> QED BY <2>1, <3>1
  <2> QED BY <2>1 DEF InOrder
<1>7. \A j \in 1..Len(r) : IsPart(r[j]) => r[j].n \in (b + 1)..s
  BY <1>2 DEF InOrder
<1>8. InOrder(r, b, s)
  BY <1>4, <1>5, <1>6, <1>7 DEF InOrder
<1>9. ASSUME NEW j \in 1..Len(r), IsResponse(r[j])
      PROVE  f[r[j].n] <= b \/ \E i \in 1..(j - 1) : IsPart(r[i]) /\ f[r[j].n] <= r[i].n
  <2>1. f[r[j].n] <= b \/ \E i \in 1..((j + 1) - 1) : IsPart(q[i]) /\ f[r[j].n] <= q[i].n
    BY <1>2, <1>9 DEF Behind
  <2> QED BY <1>1, <1>3, <2>1
<1>10. IsResponse(q[1]) => f[q[1].n] <= b
  BY <1>1 DEF Behind
<1> QED BY <1>1, <1>8, <1>9, <1>10 DEF r, Behind

Place(c)   == since[c] + got[c]
Follows(c) == conn[c] = "serving" /\ c \in clients

NewInv == \A c \in Clients : conn[c] = "new" =>
  c \notin clients /\ got[c] = 0 /\ \A j \in 1..Len(queue[c]) : ~ IsPart(queue[c][j]) /\ ~ IsResponse(queue[c][j])
SlowInv == \A c \in Clients : conn[c] = "serving" /\ c \notin clients => queue[c] # <<>> /\ Head(queue[c]) = Disconnect
FollowInv == \A c \in Clients : Follows(c) => InOrder(queue[c], Place(c), Len(sent)) /\ Behind(queue[c], Place(c), upTo)
QueueInv == NewInv /\ SlowInv /\ FollowInv

\* Who prompts has connected; who waits has not been answered, let alone been told so.
PromptInv ==
  /\ \A p \in Prompts : /\ prompt[p].pc # "idle" => prompt[p].client \in Clients /\ conn[prompt[p].client] # "new"
                        /\ p \in waiting => prompt[p].pc \in {"appends", "echoes", "waits"}
                        /\ upTo[p] <= Len(sent)
DoneInv == \A c \in Clients : \A j \in 1..Len(queue[c]) : IsResponse(queue[c][j]) => prompt[queue[c][j].n].pc = "done"

ReplyInv == QueueInv /\ PromptInv /\ DoneInv /\ RepliesArriveWhole

LEMMA ReplyInit == Init => ReplyInv
<1> SUFFICES ASSUME Init PROVE ReplyInv
  OBVIOUS
<1>1. QueueInv
  BY DEF Init, QueueInv, NewInv, SlowInv, FollowInv, Follows
<1>2. PromptInv /\ DoneInv
  BY DEF Init, PromptInv, DoneInv
<1> QED BY <1>1, <1>2 DEF Init, ReplyInv, RepliesArriveWhole, NoSilentLoss, ReplyBeforeResponse

\* The types the following argument is about.
LEMMA QueueTypes ==
  ASSUME TypeOK
  PROVE  /\ queue \in [Clients -> Seq(Queued)] /\ clients \subseteq Clients /\ conn \in Conns
         /\ since \in [Clients -> Nat] /\ got \in [Clients -> Nat] /\ upTo \in Numbered /\ Len(sent) \in Nat
         /\ prompt \in [Prompts -> PromptType] /\ waiting \subseteq Prompts
         /\ \A c \in Clients : Place(c) \in Nat
<1>1. /\ queue \in [Clients -> Seq(Queued)] /\ clients \subseteq Clients /\ conn \in Conns
      /\ since \in [Clients -> Nat] /\ got \in [Clients -> Nat] /\ upTo \in Numbered /\ sent \in Seq(Prompts)
      /\ prompt \in [Prompts -> PromptType] /\ waiting \subseteq Prompts
  BY Zenon DEF TypeOK, Queued, Conns, Numbered
<1> QED BY <1>1 DEF Place

\* A step that touches no queue, no connection and no count.
LEMMA QueueFrame ==
  ASSUME QueueInv, UNCHANGED <<conn, clients, queue, since, got, sent, upTo>>
  PROVE  QueueInv'
BY DEF QueueInv, NewInv, SlowInv, FollowInv, Follows, Place

\* Something other than a part is put into the queue of a client.
LEMMA QueuePut ==
  ASSUME TypeOK, QueueInv, PromptInv, NEW c \in Clients, NEW e \in Queued, ~ IsPart(e), writeClient(c, e),
         UNCHANGED <<conn, clients, since, got, sent, upTo>>,
         IsResponse(e) => conn[c] # "new" /\ e.n \in Prompts
  PROVE  QueueInv'
<1>1. queue' = [queue EXCEPT ![c] = Append(queue[c], e)]
  BY DEF writeClient
<1>2. queue'[c] = Append(queue[c], e) /\ \A d \in Clients : d # c => queue'[d] = queue[d]
  BY <1>1, QueueTypes
<1>3. queue[c] \in Seq(Queued)
  BY QueueTypes
<1>4. \A d \in Clients : Place(d)' = Place(d)
  BY DEF Place
<1>5. NewInv'
  <2>1. ASSUME conn[c] = "new", NEW j \in 1..Len(queue'[c]) PROVE ~ IsPart(queue'[c][j]) /\ ~ IsResponse(queue'[c][j])
    <3>1. (j \in 1..Len(queue[c]) /\ queue'[c][j] = queue[c][j]) \/ queue'[c][j] = e
      BY <1>2, <1>3
    <3> QED BY <2>1, <3>1 DEF QueueInv, NewInv
  <2> QED BY <1>2, <2>1 DEF QueueInv, NewInv
<1>6. SlowInv'
  <2>1. queue[c] # <<>> => Append(queue[c], e) # <<>> /\ Head(Append(queue[c], e)) = Head(queue[c])
    BY <1>3
  <2> QED BY <1>2, <2>1 DEF QueueInv, SlowInv
<1>7. FollowInv'
  <2>1. ASSUME Follows(c) PROVE InOrder(queue'[c], Place(c), Len(sent)) /\ Behind(queue'[c], Place(c), upTo)
    <3>1. InOrder(queue[c], Place(c), Len(sent)) /\ Behind(queue[c], Place(c), upTo)
      BY <2>1 DEF QueueInv, FollowInv
    <3>2. Place(c) \in Nat /\ Len(sent) \in Nat /\ upTo \in Numbered
      BY QueueTypes
    <3>3. IsResponse(e) => upTo[e.n] <= Len(sent) /\ upTo[e.n] \in Nat
      BY <3>2 DEF PromptInv, Numbered
    <3> QED BY <1>2, <1>3, <3>1, <3>2, <3>3, AppendOther
  <2> QED BY <1>2, <1>4, <2>1 DEF QueueInv, FollowInv, Follows
<1> QED BY <1>5, <1>6, <1>7 DEF QueueInv

\* A connection begins, ends or is forgotten.
LEMMA QueueConnections ==
  ASSUME TypeOK, QueueInv, RequestInv, NEW c \in Clients, registerClient(c) \/ Lose(c) \/ unregisterClient(c)
  PROVE  QueueInv'
<1>1. UNCHANGED <<queue, got, sent, upTo>>
  BY DEF registerClient, Lose, unregisterClient, ghosts, history
<1>2. \A d \in Clients : d # c => conn'[d] = conn[d] /\ since'[d] = since[d] /\ (d \in clients' <=> d \in clients)
  BY QueueTypes DEF registerClient, Lose, Stop, unregisterClient, Conns, ghosts, history
<1>3. CASE registerClient(c)
  <2>1. conn[c] = "new" /\ conn'[c] = "serving" /\ c \in clients' /\ since'[c] = Len(sent)
    BY <1>3, QueueTypes DEF registerClient, Conns
  <2>2. got[c] = 0 /\ \A j \in 1..Len(queue[c]) : ~ IsPart(queue[c][j]) /\ ~ IsResponse(queue[c][j])
    BY <2>1 DEF QueueInv, NewInv
  <2>3. since'[c] + got'[c] = Len(sent)
    BY <1>1, <2>1, <2>2, QueueTypes
  <2>4. InOrder(queue[c], Len(sent), Len(sent)) /\ Behind(queue[c], Len(sent), upTo)
    BY <2>2 DEF InOrder, Behind
  <2>5. NewInv' /\ SlowInv'
    BY <1>1, <1>2, <2>1 DEF QueueInv, NewInv, SlowInv
  <2>6. FollowInv'
    BY <1>1, <1>2, <2>1, <2>3, <2>4 DEF QueueInv, FollowInv, Follows, Place
  <2> QED BY <2>5, <2>6 DEF QueueInv
<1>4. CASE Lose(c) \/ unregisterClient(c)
  <2>1. conn'[c] \in {"leaving", "gone"}
    BY <1>4, QueueTypes DEF Lose, Stop, unregisterClient, Conns
  <2> QED BY <1>1, <1>2, <2>1 DEF QueueInv, NewInv, SlowInv, FollowInv, Follows, Place
<1> QED BY <1>3, <1>4

\* A client reads an event.
LEMMA QueueRead ==
  ASSUME TypeOK, QueueInv, RepliesArriveWhole, NEW c \in Clients, writeQueuedFrames(c)
  PROVE  QueueInv' /\ RepliesArriveWhole'
<1> DEFINE e == Head(queue[c])
<1>1. /\ conn[c] = "serving" /\ queue[c] # <<>> /\ queue' = [queue EXCEPT ![c] = Tail(queue[c])]
      /\ UNCHANGED <<clients, sent, since, upTo>>
      /\ IF e = Disconnect THEN Stop(c) ELSE UNCHANGED connections
      /\ got' = IF e.kind = "part" THEN [got EXCEPT ![c] = got[c] + 1] ELSE got
      /\ wrong' = IF \/ e.kind = "part" /\ e.n # since[c] + got[c] + 1
                     \/ e.kind = "response" /\ since[c] + got[c] < upTo[e.n]
                  THEN wrong \cup {e} ELSE wrong
  BY DEF writeQueuedFrames
<1>2. /\ queue'[c] = Tail(queue[c]) /\ got'[c] = (IF IsPart(e) THEN got[c] + 1 ELSE got[c])
      /\ \A d \in Clients : d # c => queue'[d] = queue[d] /\ got'[d] = got[d]
  BY <1>1, QueueTypes DEF IsPart
<1>3. queue[c] \in Seq(Queued) /\ Place(c) \in Nat /\ Len(sent) \in Nat /\ upTo \in Numbered /\ e \in Queued
  BY <1>1, QueueTypes
<1>4. CASE e = Disconnect
  <2>1. conn' = [conn EXCEPT ![c] = "leaving"]
    BY <1>1, <1>4 DEF Stop
  <2>2. conn'[c] = "leaving" /\ \A d \in Clients : d # c => conn'[d] = conn[d]
    BY <2>1, QueueTypes DEF Conns
  <2>3. wrong' = wrong
    BY <1>1, <1>4 DEF Disconnect
  <2> QED BY <1>1, <1>2, <2>2, <2>3
         DEF QueueInv, NewInv, SlowInv, FollowInv, Follows, Place, RepliesArriveWhole, NoSilentLoss, ReplyBeforeResponse
<1>5. CASE e # Disconnect
  <2>1. c \in clients /\ UNCHANGED conn
    BY <1>1, <1>5 DEF QueueInv, SlowInv, connections
  <2>2. InOrder(queue[c], Place(c), Len(sent)) /\ Behind(queue[c], Place(c), upTo)
    BY <1>1, <2>1 DEF QueueInv, FollowInv, Follows
  <2>3. Place(c)' = IF IsPart(e) THEN Place(c) + 1 ELSE Place(c)
    BY <1>1, <1>2, QueueTypes DEF Place
  <2>4. CASE IsPart(e)
    <3>1. /\ e.n = Place(c) + 1 /\ InOrder(Tail(queue[c]), Place(c) + 1, Len(sent))
          /\ Behind(Tail(queue[c]), Place(c) + 1, upTo)
      BY <1>1, <1>3, <2>2, <2>4, TakePart
    <3>2. wrong' = wrong
      BY <1>1, <2>4, <3>1 DEF IsPart, Place
    <3>3. InOrder(queue'[c], Place(c)', Len(sent')) /\ Behind(queue'[c], Place(c)', upTo')
      BY <1>1, <1>2, <2>3, <2>4, <3>1
    <3> QED BY <1>1, <1>2, <2>1, <3>2, <3>3
           DEF QueueInv, NewInv, SlowInv, FollowInv, Follows, Place, RepliesArriveWhole, NoSilentLoss, ReplyBeforeResponse
  <2>5. CASE ~ IsPart(e)
    <3>1. /\ InOrder(Tail(queue[c]), Place(c), Len(sent)) /\ Behind(Tail(queue[c]), Place(c), upTo)
          /\ IsResponse(e) => upTo[e.n] <= Place(c)
      BY <1>1, <1>3, <2>2, <2>5, TakeOther
    <3>2. IsResponse(e) => e.n \in Prompts
      BY <1>3 DEF Queued, Events, IsResponse, Other, Disconnect
    <3>3. wrong' = wrong
      BY <1>1, <1>3, <2>5, <3>1, <3>2 DEF IsPart, IsResponse, Place, Numbered
    <3>4. InOrder(queue'[c], Place(c)', Len(sent')) /\ Behind(queue'[c], Place(c)', upTo')
      BY <1>1, <1>2, <2>3, <2>5, <3>1
    <3> QED BY <1>1, <1>2, <2>1, <3>3, <3>4
           DEF QueueInv, NewInv, SlowInv, FollowInv, Follows, Place, RepliesArriveWhole, NoSilentLoss, ReplyBeforeResponse
  <2> QED BY <2>4, <2>5
<1> QED BY <1>4, <1>5

\* A part is broadcast.
LEMMA QueueBroadcast ==
  ASSUME TypeOK, QueueInv, RequestInv, NEW p \in Prompts, storeReply(p)
  PROVE  QueueInv'
<1> DEFINE s == Len(sent)
           e == Part(s + 1)
<1>1. /\ UNCHANGED <<conn, since, got, upTo>> /\ s < MaxSent /\ Len(sent') = s + 1
      /\ queue' = [d \in Clients |-> IF d \notin clients THEN queue[d] ELSE IF HasRoom(d) THEN Append(queue[d], e) ELSE Overflowed]
      /\ clients' = {d \in clients : HasRoom(d)}
  <2>1. sent \in Seq(Prompts) /\ sent' = Append(sent, p)
    BY DEF TypeOK, storeReply
  <2> QED BY <2>1 DEF storeReply, broadcast, connections
<1>2. e \in Queued /\ IsPart(e) /\ e.n = s + 1 /\ s \in Nat
  <2>1. s \in Nat /\ MaxSent \in Nat
    BY QueueTypes, AcpServerAssumption
  <2>2. s + 1 \in 1..MaxSent
    BY <1>1, <2>1
  <2> QED BY <2>1, <2>2, EventTypes DEF IsPart, Part
<1>3. \A d \in Clients : Place(d)' = Place(d)
  BY <1>1 DEF Place
<1> HIDE DEF s, e
<1>4. NewInv'
  BY <1>1 DEF QueueInv, NewInv
<1>5. SlowInv'
  <2>1. Overflowed # <<>> /\ Head(Overflowed) = Disconnect
    BY DEF Overflowed
  <2> QED BY <1>1, <2>1 DEF QueueInv, SlowInv
<1>6. ASSUME NEW c \in Clients, Follows(c)'
      PROVE  InOrder(queue'[c], Place(c)', Len(sent')) /\ Behind(queue'[c], Place(c)', upTo')
  <2>1. Follows(c) /\ HasRoom(c) /\ queue'[c] = Append(queue[c], e)
    BY <1>1, <1>6 DEF Follows
  <2>2. InOrder(queue[c], Place(c), s) /\ Behind(queue[c], Place(c), upTo)
    BY <2>1 DEF QueueInv, FollowInv, s
  <2>3. queue[c] \in Seq(Queued) /\ Place(c) \in Nat /\ upTo \in Numbered
    BY QueueTypes
  <2>4. InOrder(Append(queue[c], e), Place(c), s + 1) /\ Behind(Append(queue[c], e), Place(c), upTo)
    BY <1>2, <2>2, <2>3, AppendPart
  <2> QED BY <1>1, <1>3, <2>1, <2>4
<1>7. FollowInv'
  BY <1>6 DEF FollowInv
<1> QED BY <1>4, <1>5, <1>7 DEF QueueInv

\* A prompt is completed: nobody has been told of a prompt that still waits.
LEMMA QueueComplete ==
  ASSUME TypeOK, QueueInv, PromptInv, DoneInv, NEW p \in Prompts, notifyPromptComplete(p)
  PROVE  QueueInv' /\ \A q \in Prompts : upTo'[q] <= Len(sent)
<1>1. /\ UNCHANGED <<conn, clients, queue, since, got, sent>> /\ prompt' = Answered(waiting, p)
      /\ upTo' = [q \in Prompts |-> IF prompt'[q].waiter # prompt[q].waiter THEN Len(sent) ELSE upTo[q]]
  BY DEF notifyPromptComplete, connections, history
<1>2. \A q \in Prompts : q \notin waiting => prompt'[q] = prompt[q]
  BY <1>1 DEF Answered
<1>3. \A q \in Prompts : prompt[q].pc = "done" => upTo'[q] = upTo[q]
  BY <1>1, <1>2 DEF PromptInv
<1>4. ASSUME NEW c \in Clients, NEW j \in 1..Len(queue[c]), IsResponse(queue[c][j]) PROVE upTo'[queue[c][j].n] = upTo[queue[c][j].n]
  <2>1. queue[c][j] \in Queued
    BY QueueTypes
  <2>2. queue[c][j].n \in Prompts
    BY <1>4, <2>1 DEF Queued, Events, IsResponse, Other, Disconnect
  <2> QED BY <1>3, <1>4, <2>2 DEF DoneInv
<1>5. NewInv' /\ SlowInv'
  BY <1>1 DEF QueueInv, NewInv, SlowInv
<1>6. FollowInv'
  <2> SUFFICES ASSUME NEW c \in Clients, Follows(c)' PROVE InOrder(queue[c], Place(c), Len(sent)) /\ Behind(queue[c], Place(c), upTo')
    BY <1>1 DEF FollowInv, Place
  <2>1. InOrder(queue[c], Place(c), Len(sent)) /\ Behind(queue[c], Place(c), upTo)
    BY <1>1 DEF QueueInv, FollowInv, Follows
  <2> QED BY <1>4, <2>1 DEF Behind
<1>7. \A q \in Prompts : upTo'[q] <= Len(sent)
  <2>1. Len(sent) \in Nat
    BY QueueTypes
  <2> QED BY <1>1, <2>1 DEF PromptInv
<1> QED BY <1>5, <1>6, <1>7 DEF QueueInv

\* What a step does to the prompts: none becomes idle, forgets its client or waits without
\* being at a step that waits, and what is done stays so.
Ongoing ==
  /\ \A q \in Prompts : prompt'[q].pc # "idle" =>
       \/ prompt[q].pc # "idle" /\ prompt'[q].client = prompt[q].client
       \/ prompt'[q].client \in Clients /\ conn[prompt'[q].client] = "serving"
  /\ \A q \in Prompts : q \in waiting' => prompt'[q].pc \in {"appends", "echoes", "waits"}
  /\ \A q \in Prompts : prompt[q].pc = "done" => prompt'[q].pc = "done"
  /\ \A c \in Clients : conn[c] # "new" => conn'[c] # "new"

LEMMA GoFields ==
  ASSUME TypeOK, NEW p \in Prompts, NEW pc, Go(p, pc)
  PROVE  /\ \A q \in Prompts : q # p => prompt'[q] = prompt[q]
         /\ prompt'[p].pc = pc /\ prompt'[p].client = prompt[p].client
<1>1. prompt \in [Prompts -> PromptType]
  BY QueueTypes
<1> QED BY <1>1 DEF Go, PromptType

LEMMA AnsweredPlaces ==
  ASSUME TypeOK, NEW ps, NEW a, NEW q \in Prompts
  PROVE  Answered(ps, a)[q].pc = prompt[q].pc /\ Answered(ps, a)[q].client = prompt[q].client
<1>1. prompt[q] \in PromptType
  BY QueueTypes
<1>2. [prompt[q] EXCEPT !.waiter = a].pc = prompt[q].pc /\ [prompt[q] EXCEPT !.waiter = a].client = prompt[q].client
  BY <1>1 DEF PromptType
<1> QED BY <1>2 DEF Answered

LEMMA OngoingStep == TypeOK /\ PromptInv /\ [Next]_vars => Ongoing
<1> SUFFICES ASSUME TypeOK, PromptInv, [Next]_vars PROVE Ongoing
  OBVIOUS
<1>t. prompt \in [Prompts -> PromptType] /\ conn \in Conns /\ waiting \subseteq Prompts
  BY QueueTypes
<1>w. \A q \in Prompts : q \in waiting => prompt[q].pc \in {"appends", "echoes", "waits"}
  BY DEF PromptInv
<1>a. ASSUME UNCHANGED waiting, \A q \in Prompts : prompt'[q].pc = prompt[q].pc /\ prompt'[q].client = prompt[q].client,
             \A c \in Clients : conn[c] # "new" => conn'[c] # "new"
      PROVE  Ongoing
  BY <1>a, <1>w DEF Ongoing
<1>s. ASSUME UNCHANGED <<prompt, waiting>>, \A c \in Clients : conn[c] # "new" => conn'[c] # "new" PROVE Ongoing
  BY <1>a, <1>s
<1>u. ASSUME UNCHANGED <<prompt, waiting, conn>> PROVE Ongoing
  BY <1>s, <1>u
<1>g. ASSUME NEW p \in Prompts, NEW pc, UNCHANGED conn, prompt[p].pc \notin {"idle", "done"}, Go(p, pc),
             \/ waiting' = waiting \ {p}
             \/ waiting' = waiting /\ (pc \in {"appends", "echoes", "waits"} \/ prompt[p].pc \notin {"appends", "echoes", "waits"})
             \/ waiting' = waiting \cup {p} /\ pc \in {"appends", "echoes", "waits"}
      PROVE  Ongoing
  BY <1>g, <1>w, GoFields DEF Ongoing
<1>1. ASSUME NEW c \in Clients, registerClient(c) \/ Lose(c) \/ writeQueuedFrames(c) \/ unregisterClient(c) PROVE Ongoing
  <2>1. UNCHANGED <<prompt, waiting>>
    BY <1>1 DEF registerClient, Lose, writeQueuedFrames, unregisterClient, session
  <2>2. UNCHANGED conn \/ \E p \in {"serving", "leaving", "gone"} : conn' = [conn EXCEPT ![c] = p]
    BY <1>1 DEF registerClient, Lose, writeQueuedFrames, unregisterClient, Stop, connections
  <2>3. \A d \in Clients : conn[d] # "new" => conn'[d] # "new"
    BY <1>t, <2>2 DEF Conns
  <2> QED BY <1>s, <2>1, <2>3
<1>2. ASSUME NEW c \in Clients, Halted(c) \/ OtherRequest(c) \/ Respond(c) PROVE Ongoing
  BY <1>2, <1>u, Zenon DEF Halted, OtherRequest, Respond, session
<1>3. ASSUME NEW c \in Clients, cancelSessionPrompts(c) PROVE Ongoing
  <2>1. prompt' = Answered(waiting, Cancelled) /\ UNCHANGED <<waiting, conn>>
    BY <1>3 DEF cancelSessionPrompts
  <2> QED BY <1>a, <2>1, AnsweredPlaces
<1>4. ASSUME NEW c \in Clients, NEW p \in Prompts, dispatchAcpRequestFrame(c, p) PROVE Ongoing
  <2>1. /\ conn[c] = "serving" /\ prompt[p].pc = "idle" /\ UNCHANGED <<waiting, conn>>
        /\ prompt' = [prompt EXCEPT ![p].pc = "fired", ![p].client = c]
    BY <1>4 DEF dispatchAcpRequestFrame, Frame, connections, session
  <2>2. prompt'[p].client = c /\ prompt'[p].pc = "fired" /\ \A q \in Prompts : q # p => prompt'[q] = prompt[q]
    BY <1>t, <2>1 DEF PromptType
  <2> QED BY <1>w, <2>1, <2>2 DEF Ongoing
<1>5. ASSUME NEW c \in Clients, NEW p \in Prompts, cancelAcpThread(c, p) PROVE Ongoing
  BY <1>5, <1>u, Zenon DEF cancelAcpThread, session
<1>6. ASSUME NEW c \in Clients, NEW t \in Tools, resolveClientResponse(c, t) PROVE Ongoing
  BY <1>6, <1>u, Zenon DEF resolveClientResponse, session
<1>7. ASSUME NEW p \in Prompts, ActivateClient(p) PROVE Ongoing
  <2>1. /\ prompt[p].pc = "fired" /\ UNCHANGED <<waiting, conn>>
        /\ prompt' = [prompt EXCEPT ![p].pc = "active", ![p].previous = active]
    BY <1>7 DEF ActivateClient, At, connections
  <2>2. /\ prompt'[p].client = prompt[p].client /\ prompt'[p].pc = "active"
        /\ \A q \in Prompts : q # p => prompt'[q] = prompt[q]
    BY <1>t, <2>1 DEF PromptType
  <2> QED BY <1>w, <2>1, <2>2 DEF Ongoing
<1>8. ASSUME NEW p \in Prompts, AddWaiter(p) \/ enqueuePromptMessage(p) \/ Refused(p) \/ EchoPrompt(p) PROVE Ongoing
  <2>1. /\ UNCHANGED conn /\ prompt[p].pc \in {"active", "appends", "echoes"}
        /\ \/ waiting' = waiting \cup {p} /\ Go(p, "appends")
           \/ waiting' = waiting /\ \E pc \in {"echoes", "waits"} : Go(p, pc)
           \/ waiting' = waiting \ {p} /\ Go(p, "leaves")
    BY <1>8 DEF AddWaiter, enqueuePromptMessage, Refused, EchoPrompt, At, connections, session
  <2> QED BY <1>g, <2>1
<1>9. ASSUME NEW p \in Prompts, PromptResolved(p) PROVE Ongoing
  <2>1. /\ UNCHANGED conn /\ prompt[p].pc = "waits" /\ waiting' = waiting \ {p}
        /\ \E pc \in {"leaves", "completes"} : Go(p, pc)
    BY <1>9 DEF PromptResolved, At, connections
  <2> QED BY <1>g, <2>1
<1>10. ASSUME NEW p \in Prompts, completeSessionPrompt(p) \/ ReleaseClient(p) \/ RespondPrompt(p) PROVE Ongoing
  <2>1. /\ UNCHANGED <<conn, waiting>> /\ prompt[p].pc \in {"completes", "leaves", "responds"}
        /\ \E pc \in {"leaves", "responds", "done"} : Go(p, pc)
    BY <1>10 DEF completeSessionPrompt, ReleaseClient, RespondPrompt, At, connections, session
  <2> QED BY <1>g, <2>1
<1>11. ASSUME NEW p \in Prompts, StartRun(p) \/ storeReply(p) \/ EndRun(p) PROVE Ongoing
  BY <1>11, <1>u, Zenon DEF StartRun, storeReply, EndRun, session, connections
<1>12. ASSUME NEW p \in Prompts, notifyPromptComplete(p) PROVE Ongoing
  <2>1. prompt' = Answered(waiting, p) /\ UNCHANGED <<waiting, conn>>
    BY <1>12 DEF notifyPromptComplete, connections, session
  <2> QED BY <1>a, <2>1, AnsweredPlaces
<1>13. ASSUME NEW t \in Tools, OfTool(t) PROVE Ongoing
  BY <1>13, <1>u, Zenon DEF OfTool, AcquireClient, SendRequest, ReceiveAnswer, session, connections
<1>14. ASSUME UNCHANGED vars PROVE Ongoing
  BY <1>14, <1>u, Zenon DEF vars, session, connections
<1> QED BY <1>1, <1>2, <1>3, <1>4, <1>5, <1>6, <1>7, <1>8, <1>9, <1>10, <1>11, <1>12, <1>13, <1>14, Zenon
       DEF Next, OfClient, OfPrompt, OfRun

\* The responses in the queues are those of prompts that are done.
LEMMA DonePut ==
  ASSUME TypeOK, Ongoing, DoneInv, NEW c \in Clients, NEW e \in Queued, writeClient(c, e), IsResponse(e) => prompt'[e.n].pc = "done"
  PROVE  DoneInv'
<1>1. queue'[c] = Append(queue[c], e) /\ \A d \in Clients : d # c => queue'[d] = queue[d]
  BY QueueTypes DEF writeClient
<1>2. \A d \in Clients : queue[d] \in Seq(Queued)
  BY QueueTypes
<1>3. \A f \in Queued : IsResponse(f) => f.n \in Prompts
  BY DEF Queued, Events, IsResponse, Other, Disconnect
<1> SUFFICES ASSUME NEW d \in Clients, NEW j \in 1..Len(queue'[d]), IsResponse(queue'[d][j])
             PROVE  prompt'[queue'[d][j].n].pc = "done"
  BY DEF DoneInv
<1>4. (j \in 1..Len(queue[d]) /\ queue'[d][j] = queue[d][j]) \/ queue'[d][j] = e
  BY <1>1, <1>2
<1>5. ASSUME j \in 1..Len(queue[d]), queue'[d][j] = queue[d][j] PROVE prompt'[queue'[d][j].n].pc = "done"
  <2>1. queue[d][j].n \in Prompts
    BY <1>2, <1>3, <1>5
  <2> QED BY <1>5, <2>1 DEF DoneInv, Ongoing
<1> QED BY <1>4, <1>5

LEMMA DoneStep ==
  ASSUME TypeOK, Ongoing, DoneInv,
         \/ UNCHANGED queue
         \/ \E c \in Clients : writeQueuedFrames(c)
         \/ \E p \in Prompts : storeReply(p)
  PROVE  DoneInv'
<1>1. \A d \in Clients : queue[d] \in Seq(Queued)
  BY QueueTypes
<1>2. \A f \in Queued : IsResponse(f) => f.n \in Prompts
  BY DEF Queued, Events, IsResponse, Other, Disconnect
<1>3. ASSUME NEW d \in Clients, NEW j \in 1..Len(queue'[d]), IsResponse(queue'[d][j])
      PROVE  \E i \in 1..Len(queue[d]) : queue[d][i] = queue'[d][j]
  <2>1. CASE UNCHANGED queue
    BY <1>3, <2>1
  <2>2. ASSUME NEW c \in Clients, writeQueuedFrames(c) PROVE \E i \in 1..Len(queue[d]) : queue[d][i] = queue'[d][j]
    <3>1. queue[c] # <<>> /\ queue' = [queue EXCEPT ![c] = Tail(queue[c])]
      BY <2>2 DEF writeQueuedFrames
    <3>2. CASE d = c
      <4>1. queue'[d] = Tail(queue[d]) /\ queue[d] # <<>>
        BY <3>1, <3>2, QueueTypes
      <4>2. j + 1 \in 1..Len(queue[d]) /\ queue'[d][j] = queue[d][j + 1]
        BY <1>1, <1>3, <4>1
      <4> QED BY <4>2
    <3>3. CASE d # c
      BY <1>3, <3>1, <3>3, QueueTypes
    <3> QED BY <3>2, <3>3
  <2>3. ASSUME NEW p \in Prompts, storeReply(p) PROVE \E i \in 1..Len(queue[d]) : queue[d][i] = queue'[d][j]
    <3> DEFINE e == Part(Len(sent) + 1)
    <3>1. queue'[d] = queue[d] \/ queue'[d] = Append(queue[d], e) \/ queue'[d] = <<Disconnect>>
      BY <2>3 DEF storeReply, broadcast, Overflowed
    <3>2. ~ IsResponse(e) /\ ~ IsResponse(Disconnect)
      BY DEF IsResponse, Part, Disconnect
    <3> HIDE DEF e
    <3>3. CASE queue'[d] = queue[d]
      BY <1>3, <3>3
    <3>4. CASE queue'[d] = Append(queue[d], e)
      <4>1. (j \in 1..Len(queue[d]) /\ queue'[d][j] = queue[d][j]) \/ queue'[d][j] = e
        BY <1>1, <1>3, <3>4
      <4> QED BY <1>3, <3>2, <4>1
    <3>5. CASE queue'[d] = <<Disconnect>>
      BY <1>3, <3>2, <3>5
    <3> QED BY <3>1, <3>3, <3>4, <3>5
  <2> QED BY <2>1, <2>2, <2>3
<1> SUFFICES ASSUME NEW d \in Clients, NEW j \in 1..Len(queue'[d]), IsResponse(queue'[d][j])
             PROVE  prompt'[queue'[d][j].n].pc = "done"
  BY DEF DoneInv
<1>4. PICK i \in 1..Len(queue[d]) : queue[d][i] = queue'[d][j]
  BY <1>3
<1>5. queue[d][i].n \in Prompts
  BY <1>1, <1>2, <1>4
<1> QED BY <1>4, <1>5 DEF DoneInv, Ongoing

LEMMA PromptStep ==
  ASSUME TypeOK, PromptInv, Ongoing,
         \/ UNCHANGED upTo /\ Len(sent) <= Len(sent') /\ Len(sent') \in Nat
         \/ UNCHANGED sent /\ \A q \in Prompts : upTo'[q] <= Len(sent)
  PROVE  PromptInv'
<1>1. \A q \in Prompts : upTo'[q] <= Len(sent')
  BY QueueTypes DEF PromptInv, Numbered
<1> QED BY <1>1 DEF PromptInv, Ongoing

LEMMA ReplyStep == TypeOK /\ RequestInv /\ ReplyInv /\ [Next]_vars => ReplyInv'
<1> SUFFICES ASSUME TypeOK, RequestInv, ReplyInv, [Next]_vars PROVE ReplyInv'
  OBVIOUS
<1>i. QueueInv /\ PromptInv /\ DoneInv /\ RepliesArriveWhole
  BY DEF ReplyInv
<1>o. Ongoing
  BY <1>i, OngoingStep
<1>w. ASSUME UNCHANGED wrong PROVE RepliesArriveWhole'
  BY <1>i, <1>w DEF RepliesArriveWhole, NoSilentLoss, ReplyBeforeResponse
<1>l. Len(sent) \in Nat
  BY QueueTypes
<1>p. ASSUME UNCHANGED <<upTo, sent>> PROVE PromptInv'
  BY <1>i, <1>l, <1>o, <1>p, PromptStep
<1>f. ASSUME UNCHANGED <<conn, clients, queue, since, got, sent, upTo, wrong>> PROVE ReplyInv'
  BY <1>f, <1>i, <1>o, <1>p, <1>w, DoneStep, QueueFrame DEF ReplyInv
<1>e. ASSUME NEW c \in Clients, NEW e \in Queued, ~ IsPart(e), writeClient(c, e),
             UNCHANGED <<conn, clients, since, got, sent, upTo, wrong>>,
             IsResponse(e) => conn[c] # "new" /\ e.n \in Prompts /\ prompt'[e.n].pc = "done"
      PROVE  ReplyInv'
  <2>1. QueueInv'
    BY <1>e, <1>i, QueuePut
  <2>2. DoneInv'
    BY <1>e, <1>i, <1>o, DonePut
  <2> QED BY <1>e, <1>p, <1>w, <2>1, <2>2 DEF ReplyInv
<1>q. /\ Other \in Queued /\ ~ IsPart(Other) /\ ~ IsResponse(Other)
      /\ \A p \in Prompts : /\ Response(p) \in Queued /\ ~ IsPart(Response(p))
                            /\ Response(p).n = p
      /\ \A t \in Tools : Request(t) \in Queued /\ ~ IsPart(Request(t)) /\ ~ IsResponse(Request(t))
  BY EventTypes DEF IsPart, IsResponse, Other, Response, Request
<1>1. ASSUME NEW c \in Clients, registerClient(c) \/ Lose(c) \/ unregisterClient(c) PROVE ReplyInv'
  <2>1. UNCHANGED <<queue, sent, upTo, wrong>>
    BY <1>1 DEF registerClient, Lose, unregisterClient, ghosts, history
  <2> QED BY <1>1, <1>i, <1>o, <1>p, <1>w, <2>1, QueueConnections, DoneStep DEF ReplyInv
<1>2. ASSUME NEW c \in Clients, writeQueuedFrames(c) PROVE ReplyInv'
  <2>1. UNCHANGED <<sent, upTo>>
    BY <1>2 DEF writeQueuedFrames
  <2> QED BY <1>2, <1>i, <1>o, <1>p, <2>1, QueueRead, DoneStep DEF ReplyInv
<1>3. ASSUME NEW c \in Clients, Halted(c) \/ OtherRequest(c) \/ cancelSessionPrompts(c) PROVE ReplyInv'
  BY <1>3, <1>f, Zenon DEF Halted, OtherRequest, cancelSessionPrompts, ghosts, history
<1>4. ASSUME NEW c \in Clients, NEW p \in Prompts, dispatchAcpRequestFrame(c, p) \/ cancelAcpThread(c, p) PROVE ReplyInv'
  BY <1>4, <1>f, Zenon DEF dispatchAcpRequestFrame, cancelAcpThread, connections, ghosts, history
<1>5. ASSUME NEW c \in Clients, NEW t \in Tools, resolveClientResponse(c, t) PROVE ReplyInv'
  BY <1>5, <1>f, Zenon DEF resolveClientResponse, ghosts, history
<1>6. ASSUME NEW c \in Clients, Respond(c) PROVE ReplyInv'
  <2>1. writeClient(c, Other) /\ UNCHANGED <<conn, clients, since, got, sent, upTo, wrong>>
    BY <1>6 DEF Respond, ghosts, history
  <2> QED BY <1>e, <1>q, <2>1
<1>7. ASSUME NEW p \in Prompts, ActivateClient(p) \/ AddWaiter(p) \/ enqueuePromptMessage(p) \/ Refused(p)
             \/ PromptResolved(p) \/ completeSessionPrompt(p) \/ ReleaseClient(p)
      PROVE  ReplyInv'
  BY <1>7, <1>f, Zenon DEF ActivateClient, AddWaiter, enqueuePromptMessage, Refused, PromptResolved, completeSessionPrompt,
                           ReleaseClient, connections, ghosts, history
<1>8. ASSUME NEW p \in Prompts, EchoPrompt(p) PROVE ReplyInv'
  <2>1. /\ writeClient(prompt[p].client, Other) /\ prompt[p].pc = "echoes"
        /\ UNCHANGED <<conn, clients, since, got, sent, upTo, wrong>>
    BY <1>8 DEF EchoPrompt, At, connections, ghosts, history
  <2>2. PICK c \in Clients : c = prompt[p].client
    BY <1>i, <2>1 DEF PromptInv
  <2> QED BY <1>e, <1>q, <2>1, <2>2
<1>9. ASSUME NEW p \in Prompts, RespondPrompt(p) PROVE ReplyInv'
  <2>1. /\ writeClient(prompt[p].client, Response(p)) /\ prompt[p].pc = "responds" /\ Go(p, "done")
        /\ UNCHANGED <<conn, clients, since, got, sent, upTo, wrong>>
    BY <1>9 DEF RespondPrompt, At, connections, ghosts, history
  <2>2. PICK c \in Clients : c = prompt[p].client /\ conn[c] # "new"
    BY <1>i, <2>1 DEF PromptInv
  <2>3. prompt'[p].pc = "done"
    BY <2>1, GoFields
  <2>4. PICK e \in Queued : e = Response(p)
    BY <1>q
  <2> QED BY <1>e, <1>q, <2>1, <2>2, <2>3, <2>4
<1>10. ASSUME NEW p \in Prompts, StartRun(p) \/ EndRun(p) PROVE ReplyInv'
  BY <1>10, <1>f, Zenon DEF StartRun, EndRun, connections, ghosts, history
<1>11. ASSUME NEW p \in Prompts, storeReply(p) PROVE ReplyInv'
  <2>1. UNCHANGED <<upTo, wrong>> /\ Len(sent) <= Len(sent') /\ Len(sent') \in Nat
    <3>1. sent \in Seq(Prompts) /\ sent' = Append(sent, p)
      BY <1>11 DEF TypeOK, storeReply
    <3> QED BY <1>11, <3>1 DEF storeReply
  <2> QED BY <1>11, <1>i, <1>o, <1>w, <2>1, QueueBroadcast, DoneStep, PromptStep DEF ReplyInv
<1>12. ASSUME NEW p \in Prompts, notifyPromptComplete(p) PROVE ReplyInv'
  <2>1. UNCHANGED <<queue, sent, wrong>>
    BY <1>12 DEF notifyPromptComplete, history
  <2> QED BY <1>12, <1>i, <1>o, <1>w, <2>1, QueueComplete, DoneStep, PromptStep DEF ReplyInv
<1>13. ASSUME NEW t \in Tools, OfTool(t) PROVE ReplyInv'
  <2>1. CASE (\E p \in Prompts : AcquireClient(t, p)) \/ ReceiveAnswer(t)
    BY <1>f, <2>1, Zenon DEF AcquireClient, ReceiveAnswer, connections, ghosts, history
  <2>2. CASE SendRequest(t)
    <3>1. /\ writeClient(tool[t].client, Request(t)) /\ tool[t].pc = "sends"
          /\ UNCHANGED <<conn, clients, since, got, sent, upTo, wrong>>
      BY <2>2 DEF SendRequest, connections, ghosts, history
    <3>2. PICK c \in Clients : c = tool[t].client
      BY <3>1 DEF RequestInv
    <3>3. PICK e \in Queued : e = Request(t)
      BY <1>q
    <3> QED BY <1>e, <1>q, <3>1, <3>2, <3>3
  <2> QED BY <1>13, <2>1, <2>2 DEF OfTool
<1>14. ASSUME UNCHANGED vars PROVE ReplyInv'
  BY <1>14, <1>f, Zenon DEF vars, connections, ghosts, history
<1> QED BY <1>1, <1>2, <1>3, <1>4, <1>5, <1>6, <1>7, <1>8, <1>9, <1>10, <1>11, <1>12, <1>13, <1>14, Zenon
       DEF Next, OfClient, OfPrompt, OfRun

\* A client that follows a session reads every part that is broadcast, in order and without
\* a gap, and no response before the parts its reply had when the prompt was completed
\* (broadcastClient, drainTBQueue, completeMessageEdit): it is disconnected rather than
\* left with a hole.
THEOREM ArriveWhole == Spec => []RepliesArriveWhole
<1>1. ReplyInv => RepliesArriveWhole
  BY DEF ReplyInv
<1>2. TypeOK /\ RequestInv /\ ReplyInv /\ [Next]_vars => (TypeOK /\ RequestInv /\ ReplyInv)'
  BY TypeStep, RequestStep, ReplyStep
<1>3. Init => TypeOK /\ RequestInv /\ ReplyInv
  BY InitType, RequestInit, ReplyInit
<1> QED BY <1>1, <1>2, <1>3, PTL DEF Spec
=============================================================================
