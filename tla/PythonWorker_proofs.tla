------------------------- MODULE PythonWorker_proofs -------------------------
(***************************************************************************)
(* The two Python services.  PythonWorker, for any program, any limits of  *)
(* the captures and of the frames, and any number of batches; then the     *)
(* parts of the FM domain service, for any requests, texts, dates, groups, *)
(* limits and times.                                                       *)
(***************************************************************************)
EXTENDS PythonWorker, DomainService, SequenceTheorems, FiniteSetTheorems, WellFoundedInduction, TLAPS

Requests == [id : Nat, batch : Nat]
Frames   == [kind : {"tools"}, batch : Nat] \cup [kind : Terminal]

\* The channel, and what the supervisor has done with it, are typed.
ChannelType ==
  /\ up \in Seq(Frames) /\ down \in Seq(Requests)
  /\ requests \in Seq(Requests) /\ answers \in Seq(Requests) /\ got \in Seq(Requests)
  /\ asked \in Nat /\ nextId \in Nat

Serving == sup \in {"loop", "host"}

\* No terminal frame is among the first n frames on the way up.
ToolsOnly(n) == \A j \in 1..n : up[j].kind = "tools"

\* A batch that is on its way up, with no terminal frame before it, is the next one
\* after those that were relayed and those ahead of it.
UpInv ==
  Serving /\ terminal = "none" =>
    /\ \A i \in 1..Len(up) : ToolsOnly(i) => up[i].batch = Len(requests) + i
    /\ ToolsOnly(Len(up)) => asked = Len(requests) + Len(up)

\* The supervisor numbers what it relays, and waits for the answer to the last.
RelayInv ==
  /\ \A i \in 1..Len(requests) : requests[i] = [id |-> i, batch |-> i]
  /\ sup = "loop" => nextId = Len(requests) + 1 /\ answers = <<>>
  /\ sup = "host" => /\ nextId = Len(requests) /\ Len(requests) > 0
                     /\ answers = <<>> \/ answers = <<requests[Len(requests)]>>

\* What was answered and is not taken is on its way down, behind what was taken.
Answered == Len(requests) - (IF sup = "host" THEN 1 ELSE 0)
DownInv ==
  ~crossed =>
    /\ \A i \in 1..Len(got) : i <= Len(requests) /\ got[i] = requests[i]
    /\ \A i \in 1..Len(down) : Len(got) + i <= Len(requests) /\ down[i] = requests[Len(got) + i]
    /\ Serving => Len(got) + Len(down) = Answered

\* Only a copy of the program asks for a copy of it.
CopyInv == twin = "asking" => crossed

IInv == ChannelType /\ UpInv /\ RelayInv /\ DownInv /\ CopyInv

LEMMA InitInv == Init => IInv
<1> SUFFICES ASSUME Init PROVE IInv
  OBVIOUS
<1>1. ChannelType
  BY DEF Init, ChannelType
<1>2. UpInv /\ RelayInv /\ DownInv /\ CopyInv
  BY DEF Init, UpInv, ToolsOnly, RelayInv, DownInv, Answered, CopyInv
<1> QED BY <1>1, <1>2 DEF IInv

\* Nothing else the program, the supervisor and the host do touches the channel.
Elsewhere ==
  /\ UNCHANGED <<up, down, requests, answers, got, asked, nextId, terminal, crossed>>
  /\ sup' = sup \/ ~Serving'
  /\ twin' = "asking" => twin = "asking"

\* What a step does to the channel.
LEMMA Steps ==
  [Next]_vars =>
    \/ RunTools \/ TwinAsks \/ TakeResults \/ TwinTakes \/ ControlTools \/ ControlTerminal \/ ControlInvalid
    \/ FallThrough \/ TwinEnds \/ (\E k \in Terminal \ {"fallthrough"} : Conclude(k)) \/ HostResponse \/ Answer
    \/ Elsewhere
<1> USE DEF procVars, supVars, hostVars, Elsewhere
<1>1. Prints \/ Flush \/ Raises \/ Exit \/ Killed \/ TwinPrints \/ HostCloses \/ UNCHANGED vars => Elsewhere
  BY DEF Prints, Flush, Put, Raises, Exit, Killed, TwinPrints, HostCloses, vars
<1>2. LeaveBehind => Elsewhere
  BY DEF LeaveBehind
<1>3. ControlEnds \/ HostGone \/ Reap => Elsewhere
  BY DEF ControlEnds, HostGone, RaiseError, Reap, Serving
<1>4. ASSUME NEW p \in {"stdout", "stderr"}, ReadChunk(p) \/ PipeEnds(p) PROVE Elsewhere
  BY <1>4 DEF ReadChunk, PipeEnds
<1> QED BY <1>1, <1>2, <1>3, <1>4 DEF Next, Program, Supervisor

\* The host answers what it was asked last.
LEMMA AnswerIs == ChannelType /\ RelayInv /\ Answer => answers' = <<requests[Len(requests)]>> /\ requests[Len(requests)] \in Requests
BY DEF ChannelType, RelayInv, Answer, Last

LEMMA NextType == ChannelType /\ RelayInv /\ [Next]_vars => ChannelType'
<1> SUFFICES ASSUME ChannelType, RelayInv, [Next]_vars PROVE ChannelType'
  OBVIOUS
<1> USE DEF ChannelType, procVars, supVars, hostVars
<1>f. /\ \A n \in Nat : [kind |-> "tools", batch |-> n + 1] \in Frames
      /\ \A k \in Terminal : [kind |-> k] \in Frames
      /\ "fallthrough" \in Terminal
  BY DEF Frames, Terminal
<1>a. ASSUME NEW f \in Frames, up' = Append(up, f) PROVE up' \in Seq(Frames)
  BY <1>a
<1>1. ASSUME RunTools \/ TwinAsks PROVE ChannelType'
  <2>1. /\ up' = Append(up, [kind |-> "tools", batch |-> asked + 1]) /\ asked' = asked + 1
        /\ UNCHANGED <<down, requests, answers, got, nextId>>
    BY <1>1 DEF RunTools, TwinAsks
  <2>2. up' \in Seq(Frames)
    BY <2>1, <1>f, <1>a
  <2> QED BY <2>1, <2>2
<1>2. ASSUME FallThrough \/ TwinEnds \/ \E k \in Terminal \ {"fallthrough"} : Conclude(k) PROVE ChannelType'
  <2>1. UNCHANGED <<down, requests, answers, got, asked, nextId>> /\ (up' = up \/ \E k \in Terminal : up' = Append(up, [kind |-> k]))
    <3>1. CASE FallThrough
      BY <3>1, <1>f DEF FallThrough
    <3>2. CASE TwinEnds
      BY <3>2 DEF TwinEnds
    <3>3. ASSUME NEW k \in Terminal \ {"fallthrough"}, Conclude(k)
          PROVE  /\ UNCHANGED <<down, requests, answers, got, asked, nextId>>
                 /\ \E l \in Terminal : up' = Append(up, [kind |-> l])
      BY <3>3 DEF Conclude
    <3> QED BY <1>2, <3>1, <3>2, <3>3
  <2>2. up' \in Seq(Frames)
    BY <2>1, <1>f, <1>a
  <2> QED BY <2>1, <2>2
<1>3. ASSUME TakeResults PROVE ChannelType'
  <2>1. down # <<>> /\ got' = Append(got, Head(down)) /\ down' = Tail(down) /\ UNCHANGED <<up, requests, answers, asked, nextId>>
    BY <1>3 DEF TakeResults
  <2>2. Head(down) \in Requests /\ Tail(down) \in Seq(Requests)
    BY <2>1
  <2> QED BY <2>1, <2>2
<1>4. ASSUME TwinTakes PROVE ChannelType'
  BY <1>4 DEF TwinTakes
<1>5. ASSUME ControlTools PROVE ChannelType'
  <2>1. /\ up # <<>> /\ Head(up).kind = "tools" /\ up' = Tail(up)
        /\ requests' = Append(requests, [id |-> nextId, batch |-> Head(up).batch])
        /\ UNCHANGED <<down, answers, got, asked, nextId>>
    BY <1>5 DEF ControlTools
  <2>2. Head(up) \in Frames /\ Tail(up) \in Seq(Frames)
    BY <2>1
  <2>3. [id |-> nextId, batch |-> Head(up).batch] \in Requests
    BY <2>1, <2>2 DEF Frames, Requests, Terminal
  <2> QED BY <2>1, <2>2, <2>3
<1>6. ASSUME ControlTerminal \/ ControlInvalid PROVE ChannelType'
  <2>1. up # <<>> /\ up' = Tail(up) /\ UNCHANGED <<down, requests, answers, got, asked, nextId>>
    BY <1>6 DEF ControlTerminal, ControlInvalid, RaiseError
  <2> QED BY <2>1
<1>7. ASSUME HostResponse PROVE ChannelType'
  <2>1. answers # <<>> /\ answers' = Tail(answers) /\ UNCHANGED <<up, requests, got, asked>>
    BY <1>7 DEF HostResponse
  <2>2. \/ down' = Append(down, Head(answers)) /\ nextId' = nextId + 1
        \/ UNCHANGED <<down, nextId>>
    BY <1>7 DEF HostResponse
  <2>3. Head(answers) \in Requests /\ Tail(answers) \in Seq(Requests)
    BY <2>1
  <2>4. CASE down' = Append(down, Head(answers)) /\ nextId' = nextId + 1
    <3>1. down' \in Seq(Requests)
      BY <2>3, <2>4
    <3>2. nextId' \in Nat
      BY <2>4
    <3> QED BY <2>1, <2>3, <3>1, <3>2
  <2>5. CASE UNCHANGED <<down, nextId>>
    BY <2>1, <2>3, <2>5
  <2> QED BY <2>2, <2>4, <2>5
<1>8. ASSUME Answer PROVE ChannelType'
  <2>1. /\ answers' = <<requests[Len(requests)]>> /\ requests[Len(requests)] \in Requests
        /\ UNCHANGED <<up, down, requests, got, asked, nextId>>
    BY <1>8, AnswerIs DEF Answer
  <2> QED BY <2>1
<1>9. ASSUME Elsewhere PROVE ChannelType'
  BY <1>9 DEF Elsewhere
<1> QED BY <1>1, <1>2, <1>3, <1>4, <1>5, <1>6, <1>7, <1>8, <1>9, Steps

\* The order in which batches go up.
LEMMA NextUp == ChannelType /\ UpInv /\ [Next]_vars => UpInv'
<1> SUFFICES ASSUME ChannelType, UpInv, [Next]_vars PROVE UpInv'
  OBVIOUS
<1> USE DEF procVars, supVars, hostVars
<1> DEFINE ToolsAhead(n) == \A j \in 1..n : up'[j].kind = "tools"
<1>t. up \in Seq(Frames) /\ requests \in Seq(Requests) /\ Len(up) \in Nat /\ Len(requests) \in Nat /\ asked \in Nat
  BY DEF ChannelType
<1>u. ASSUME Serving, terminal = "none"
      PROVE  /\ \A i \in 1..Len(up) : ToolsOnly(i) => up[i].batch = Len(requests) + i
             /\ ToolsOnly(Len(up)) => asked = Len(requests) + Len(up)
  BY <1>u DEF UpInv
<1>g. ASSUME ~Serving' \/ terminal' # "none" PROVE UpInv'
  BY <1>g DEF UpInv
<1>a. ASSUME NEW f \in Frames, up' = Append(up, f), UNCHANGED <<sup, terminal, requests>>,
             f.kind = "tools" => f.batch = asked + 1 /\ asked' = asked + 1,
             Serving, terminal = "none"
      PROVE  UpInv'
  <2>1. /\ Len(up') = Len(up) + 1 /\ up'[Len(up) + 1] = f
        /\ \A i \in 1..Len(up) : up'[i] = up[i]
    BY <1>a, <1>t
  <2>2. \A i \in 1..Len(up) : ToolsAhead(i) <=> ToolsOnly(i)
    BY <1>t, <2>1 DEF ToolsOnly
  <2>3. ToolsAhead(Len(up) + 1) => ToolsOnly(Len(up)) /\ f.kind = "tools"
    BY <1>t, <2>1 DEF ToolsOnly
  <2>4. ASSUME NEW i \in 1..(Len(up) + 1), ToolsAhead(i) PROVE up'[i].batch = Len(requests) + i
    <3>1. CASE i \in 1..Len(up)
      BY <1>a, <1>u, <2>1, <2>2, <2>4, <3>1
    <3>2. CASE i = Len(up) + 1
      <4>1. asked = Len(requests) + Len(up) /\ f.batch = asked + 1
        BY <1>a, <1>u, <2>3, <2>4, <3>2
      <4>2. up'[i] = f
        BY <2>1, <3>2
      <4>3. f.batch = Len(requests) + i
        BY <1>t, <3>2, <4>1
      <4> QED BY <4>2, <4>3
    <3> QED BY <1>t, <3>1, <3>2
  <2>5. ToolsAhead(Len(up) + 1) => asked' = Len(requests) + (Len(up) + 1)
    BY <1>a, <1>t, <1>u, <2>3
  <2> QED BY <1>a, <2>1, <2>4, <2>5 DEF UpInv, ToolsOnly
<1>s. ASSUME ~(Serving /\ terminal = "none"), UNCHANGED <<sup, terminal>> PROVE UpInv'
  BY <1>s, <1>g DEF Serving
<1>1. ASSUME RunTools \/ TwinAsks PROVE UpInv'
  <2>1. /\ up' = Append(up, [kind |-> "tools", batch |-> asked + 1]) /\ asked' = asked + 1
        /\ UNCHANGED <<sup, terminal, requests>>
    BY <1>1 DEF RunTools, TwinAsks
  <2>2. [kind |-> "tools", batch |-> asked + 1] \in Frames
    BY <1>t DEF Frames
  <2> QED BY <1>a, <1>s, <2>1, <2>2
<1>2. ASSUME FallThrough \/ TwinEnds \/ \E k \in Terminal \ {"fallthrough"} : Conclude(k) PROVE UpInv'
  <2>1. /\ UNCHANGED <<sup, terminal, requests, asked>>
        /\ up' = up \/ \E k \in Terminal : up' = Append(up, [kind |-> k])
    <3>1. CASE FallThrough
      BY <3>1 DEF FallThrough, Terminal
    <3>2. CASE TwinEnds
      BY <3>2 DEF TwinEnds
    <3>3. ASSUME NEW k \in Terminal \ {"fallthrough"}, Conclude(k)
          PROVE  /\ UNCHANGED <<sup, terminal, requests, asked>>
                 /\ \E l \in Terminal : up' = Append(up, [kind |-> l])
      BY <3>3 DEF Conclude
    <3> QED BY <1>2, <3>1, <3>2, <3>3
  <2>2. CASE up' = up
    BY <2>1, <2>2 DEF UpInv, ToolsOnly, Serving
  <2>3. ASSUME NEW k \in Terminal, up' = Append(up, [kind |-> k]) PROVE UpInv'
    <3>1. [kind |-> k] \in Frames /\ [kind |-> k].kind # "tools"
      BY <2>3 DEF Frames, Terminal
    <3> QED BY <1>a, <1>s, <2>1, <2>3, <3>1
  <2> QED BY <2>1, <2>2, <2>3
<1>3. ASSUME ControlTools PROVE UpInv'
  <2>1. /\ sup = "loop" /\ terminal = "none" /\ terminal' = "none" /\ up # <<>> /\ Head(up).kind = "tools" /\ up' = Tail(up)
        /\ requests' = Append(requests, [id |-> nextId, batch |-> Head(up).batch]) /\ UNCHANGED asked
    BY <1>3 DEF ControlTools
  <2>2. /\ Len(up) \in Nat \ {0} /\ Len(up') = Len(up) - 1 /\ Len(requests') = Len(requests) + 1
        /\ Head(up) = up[1] /\ \A i \in 1..(Len(up) - 1) : up'[i] = up[i + 1]
    BY <1>t, <2>1
  <2>3. ASSUME NEW i \in 0..(Len(up) - 1), ToolsAhead(i) PROVE ToolsOnly(i + 1)
    <3>1. ASSUME NEW j \in 1..(i + 1) PROVE up[j].kind = "tools"
      <4>1. CASE j = 1
        BY <2>1, <2>2, <4>1
      <4>2. CASE j # 1
        <5>1. j - 1 \in 1..i /\ j - 1 \in 1..(Len(up) - 1) /\ (j - 1) + 1 = j
          BY <2>2, <4>2
        <5> QED BY <2>2, <2>3, <5>1 DEF ToolsOnly
      <4> QED BY <4>1, <4>2
    <3> QED BY <3>1 DEF ToolsOnly
  <2>4. Serving
    BY <2>1 DEF Serving
  <2>5. ASSUME NEW i \in 1..(Len(up) - 1), ToolsAhead(i) PROVE up'[i].batch = Len(requests') + i
    <3>1. i \in 0..(Len(up) - 1) /\ i + 1 \in 1..Len(up)
      BY <2>2
    <3>2. up[i + 1].batch = Len(requests) + (i + 1)
      BY <1>u, <2>1, <2>3, <2>4, <2>5, <3>1
    <3> QED BY <1>t, <2>2, <3>2
  <2>6. ASSUME ToolsAhead(Len(up) - 1) PROVE asked' = Len(requests') + (Len(up) - 1)
    <3>1. Len(up) - 1 \in 0..(Len(up) - 1) /\ (Len(up) - 1) + 1 = Len(up)
      BY <2>2
    <3>2. asked = Len(requests) + Len(up)
      BY <1>u, <2>1, <2>3, <2>4, <2>6, <3>1
    <3>3. Len(requests) + Len(up) = (Len(requests) + 1) + (Len(up) - 1)
      BY <1>t
    <3> QED BY <2>1, <2>2, <3>2, <3>3
  <2> QED BY <2>1, <2>2, <2>5, <2>6 DEF UpInv, ToolsOnly
<1>4. ASSUME ControlTerminal PROVE UpInv'
  <2>1. Head(up) \in Frames /\ Head(up).kind # "tools" /\ terminal' = Head(up).kind
    BY <1>4, <1>t DEF ControlTerminal
  <2>2. terminal' # "none"
    BY <2>1 DEF Frames, Terminal
  <2> QED BY <1>g, <2>2
<1>5. ASSUME ControlInvalid PROVE UpInv'
  BY <1>5, <1>g DEF ControlInvalid, RaiseError, Serving
<1>6. ASSUME HostResponse PROVE UpInv'
  <2>1. sup = "host" /\ UNCHANGED <<up, requests, asked, terminal>>
    BY <1>6 DEF HostResponse
  <2>2. Serving
    BY <2>1 DEF Serving
  <2> QED BY <1>u, <2>1, <2>2 DEF UpInv, ToolsOnly
<1>7. ASSUME TakeResults \/ TwinTakes \/ Answer PROVE UpInv'
  <2>1. UNCHANGED <<up, requests, asked, terminal, sup>>
    BY <1>7 DEF TakeResults, TwinTakes, Answer
  <2> QED BY <2>1 DEF UpInv, ToolsOnly, Serving
<1>8. ASSUME Elsewhere PROVE UpInv'
  <2>1. CASE ~Serving'
    BY <1>g, <2>1
  <2>2. CASE sup' = sup
    BY <1>8, <2>2 DEF Elsewhere, UpInv, ToolsOnly, Serving
  <2> QED BY <1>8, <2>1, <2>2 DEF Elsewhere
<1> QED BY <1>1, <1>2, <1>3, <1>4, <1>5, <1>6, <1>7, <1>8, Steps

\* The numbers under which batches are relayed, and their answers.
LEMMA NextRelay == ChannelType /\ UpInv /\ RelayInv /\ [Next]_vars => RelayInv'
<1> SUFFICES ASSUME ChannelType, UpInv, RelayInv, [Next]_vars PROVE RelayInv'
  OBVIOUS
<1> USE DEF procVars, supVars, hostVars
<1>t. /\ up \in Seq(Frames) /\ requests \in Seq(Requests) /\ answers \in Seq(Requests)
      /\ Len(requests) \in Nat /\ nextId \in Nat
  BY DEF ChannelType
<1>r. /\ \A i \in 1..Len(requests) : requests[i] = [id |-> i, batch |-> i]
      /\ sup = "loop" => nextId = Len(requests) + 1 /\ answers = <<>>
      /\ sup = "host" => /\ nextId = Len(requests) /\ Len(requests) > 0
                         /\ answers = <<>> \/ answers = <<requests[Len(requests)]>>
  BY DEF RelayInv
<1>g. ASSUME UNCHANGED requests, ~Serving' PROVE RelayInv'
  BY <1>g, <1>r DEF RelayInv, Serving
<1>s. ASSUME UNCHANGED <<requests, answers, nextId>>, sup' = sup \/ ~Serving' PROVE RelayInv'
  BY <1>s, <1>r, <1>g DEF RelayInv
<1>1. ASSUME ControlTools PROVE RelayInv'
  <2>1. /\ sup = "loop" /\ sup' = "host" /\ terminal = "none" /\ up # <<>> /\ Head(up).kind = "tools"
        /\ requests' = Append(requests, [id |-> nextId, batch |-> Head(up).batch]) /\ UNCHANGED <<nextId, answers>>
    BY <1>1 DEF ControlTools
  <2>2. Len(up) \in Nat \ {0} /\ Head(up) = up[1]
    BY <1>t, <2>1
  <2>3. up[1].batch = Len(requests) + 1
    BY <2>1, <2>2 DEF UpInv, Serving, ToolsOnly
  <2>4. /\ Len(requests') = Len(requests) + 1 /\ \A i \in 1..Len(requests) : requests'[i] = requests[i]
        /\ requests'[Len(requests) + 1] = [id |-> nextId, batch |-> Head(up).batch]
    BY <1>t, <2>1
  <2>5. requests'[Len(requests) + 1] = [id |-> Len(requests) + 1, batch |-> Len(requests) + 1]
    BY <1>r, <2>1, <2>2, <2>3, <2>4
  <2>6. ASSUME NEW i \in 1..(Len(requests) + 1) PROVE requests'[i] = [id |-> i, batch |-> i]
    <3>1. i \in 1..Len(requests) \/ i = Len(requests) + 1
      BY <1>t
    <3> QED BY <1>r, <2>4, <2>5, <3>1
  <2> QED BY <1>r, <1>t, <2>1, <2>4, <2>6 DEF RelayInv
<1>2. ASSUME HostResponse PROVE RelayInv'
  <2>1. sup = "host" /\ answers # <<>> /\ answers' = Tail(answers) /\ UNCHANGED requests
    BY <1>2 DEF HostResponse
  <2>2. answers' = <<>>
    <3>1. answers = <<requests[Len(requests)]>>
      BY <1>r, <2>1
    <3>2. Len(answers) = 1 /\ Len(answers') = 0 /\ answers' \in Seq(Requests)
      BY <1>t, <2>1, <3>1
    <3> QED BY <3>2
  <2>3. CASE nextId' = nextId + 1 /\ sup' = "loop"
    BY <1>r, <2>1, <2>2, <2>3 DEF RelayInv
  <2>4. CASE sup' = "raised"
    BY <1>g, <2>1, <2>4 DEF Serving
  <2> QED BY <1>2, <2>3, <2>4 DEF HostResponse, RaiseError
<1>3. ASSUME Answer PROVE RelayInv'
  <2>1. sup = "host" /\ answers' = <<requests[Len(requests)]>> /\ UNCHANGED <<sup, requests, nextId>>
    BY <1>3, AnswerIs DEF Answer
  <2> QED BY <1>r, <2>1 DEF RelayInv
<1>4. ASSUME ControlInvalid PROVE RelayInv'
  BY <1>4, <1>g DEF ControlInvalid, RaiseError, Serving
<1>5. ASSUME RunTools \/ TwinAsks \/ TakeResults \/ TwinTakes \/ ControlTerminal \/ FallThrough \/ TwinEnds
             \/ \E k \in Terminal \ {"fallthrough"} : Conclude(k)
      PROVE  RelayInv'
  BY <1>5, <1>s DEF RunTools, TwinAsks, TakeResults, TwinTakes, ControlTerminal, FallThrough, TwinEnds, Conclude
<1>6. ASSUME Elsewhere PROVE RelayInv'
  BY <1>6, <1>s DEF Elsewhere
<1> QED BY <1>1, <1>2, <1>3, <1>4, <1>5, <1>6, Steps

\* The order in which answers come down.
LEMMA NextDown == ChannelType /\ RelayInv /\ DownInv /\ CopyInv /\ [Next]_vars => DownInv' /\ CopyInv'
<1> SUFFICES ASSUME ChannelType, RelayInv, DownInv, CopyInv, [Next]_vars PROVE DownInv' /\ CopyInv'
  OBVIOUS
<1> USE DEF procVars, supVars, hostVars
<1>t. /\ requests \in Seq(Requests) /\ answers \in Seq(Requests) /\ down \in Seq(Requests) /\ got \in Seq(Requests)
      /\ Len(requests) \in Nat /\ Len(down) \in Nat /\ Len(got) \in Nat
  BY DEF ChannelType
<1>d. ASSUME ~crossed
      PROVE  /\ \A i \in 1..Len(got) : i <= Len(requests) /\ got[i] = requests[i]
             /\ \A i \in 1..Len(down) : Len(got) + i <= Len(requests) /\ down[i] = requests[Len(got) + i]
             /\ sup = "loop" => Len(got) + Len(down) = Len(requests)
             /\ sup = "host" => Len(got) + Len(down) = Len(requests) - 1
  BY <1>d, <1>t DEF DownInv, Answered, Serving
<1>g. ASSUME ~crossed' => /\ \A i \in 1..Len(got') : i <= Len(requests') /\ got'[i] = requests'[i]
                          /\ \A i \in 1..Len(down') : Len(got') + i <= Len(requests') /\ down'[i] = requests'[Len(got') + i]
                          /\ sup' = "loop" => Len(got') + Len(down') = Len(requests')
                          /\ sup' = "host" => Len(got') + Len(down') = Len(requests') - 1,
             requests' \in Seq(Requests)
      PROVE  DownInv'
  <2>1. Len(requests') \in Nat
    BY <1>g
  <2> QED BY <1>g, <2>1 DEF DownInv, Answered, Serving
<1>s. ASSUME UNCHANGED <<requests, down, got, crossed>>, sup' = sup \/ ~Serving' PROVE DownInv'
  <2>1. sup' \in {"loop", "host"} => sup' = sup
    BY <1>s DEF Serving
  <2> QED BY <1>d, <1>g, <1>s, <1>t, <2>1
<1>1. ASSUME TwinAsks \/ TwinTakes PROVE DownInv' /\ CopyInv'
  <2>1. crossed'
    BY <1>1 DEF TwinAsks, TwinTakes, CopyInv
  <2> QED BY <2>1 DEF DownInv, CopyInv
<1>c. ASSUME ~(TwinAsks \/ TwinTakes) PROVE CopyInv'
  <2>1. RunTools \/ TakeResults \/ ControlTools \/ ControlTerminal \/ ControlInvalid \/ FallThrough
        \/ TwinEnds \/ (\E k \in Terminal \ {"fallthrough"} : Conclude(k)) \/ HostResponse \/ Answer \/ Elsewhere
    BY <1>c, Steps
  <2>2. crossed' = crossed /\ (twin' = "asking" => twin = "asking")
    BY <2>1 DEF RunTools, TakeResults, ControlTools, ControlTerminal, ControlInvalid, FallThrough, TwinEnds,
                Conclude, HostResponse, Answer, Elsewhere
  <2> QED BY <2>2 DEF CopyInv
<1>2. ASSUME TakeResults PROVE DownInv'
  <2>1. down # <<>> /\ got' = Append(got, Head(down)) /\ down' = Tail(down) /\ UNCHANGED <<requests, crossed, sup>>
    BY <1>2 DEF TakeResults
  <2>2. /\ Len(got') = Len(got) + 1 /\ got'[Len(got) + 1] = down[1] /\ \A i \in 1..Len(got) : got'[i] = got[i]
        /\ Len(down') = Len(down) - 1 /\ \A i \in 1..(Len(down) - 1) : down'[i] = down[i + 1]
        /\ 1 \in 1..Len(down)
    BY <1>t, <2>1
  <2>3. ASSUME ~crossed, NEW i \in 1..(Len(got) + 1) PROVE i <= Len(requests) /\ got'[i] = requests[i]
    <3>1. CASE i \in 1..Len(got)
      BY <1>d, <2>2, <2>3, <3>1
    <3>2. CASE i = Len(got) + 1
      BY <1>d, <2>2, <2>3, <3>2
    <3> QED BY <1>t, <3>1, <3>2
  <2>4. ASSUME ~crossed, NEW i \in 1..(Len(down) - 1)
        PROVE  (Len(got) + 1) + i <= Len(requests) /\ down'[i] = requests[(Len(got) + 1) + i]
    <3>1. i + 1 \in 1..Len(down) /\ Len(got) + (i + 1) = (Len(got) + 1) + i
      BY <1>t
    <3> QED BY <1>d, <2>2, <2>4, <3>1
  <2>5. (Len(got) + 1) + (Len(down) - 1) = Len(got) + Len(down)
    BY SMTT(30), <1>t
  <2> QED BY <1>d, <1>g, <1>t, <2>1, <2>2, <2>3, <2>4, <2>5
<1>3. ASSUME ControlTools PROVE DownInv'
  <2>1. /\ sup = "loop" /\ sup' = "host" /\ requests' = Append(requests, [id |-> nextId, batch |-> Head(up).batch])
        /\ UNCHANGED <<down, got, crossed>>
    BY <1>3 DEF ControlTools
  <2>2. requests' \in Seq(Requests)
    BY NextType DEF ChannelType
  <2>3. Len(requests') = Len(requests) + 1 /\ \A i \in 1..Len(requests) : requests'[i] = requests[i]
    BY <1>t, <2>1
  <2>4. ASSUME ~crossed, NEW i \in 1..Len(got) PROVE i <= Len(requests) + 1 /\ got[i] = requests'[i]
    <3>1. i <= Len(requests) /\ i \in 1..Len(requests)
      BY <1>d, <1>t, <2>4
    <3> QED BY <1>d, <1>t, <2>3, <2>4, <3>1
  <2>5. ASSUME ~crossed, NEW i \in 1..Len(down)
        PROVE  Len(got) + i <= Len(requests) + 1 /\ down[i] = requests'[Len(got) + i]
    <3>1. Len(got) + i <= Len(requests) /\ Len(got) + i \in 1..Len(requests)
      BY SMTT(30), <1>d, <1>t, <2>5
    <3> QED BY <1>d, <1>t, <2>3, <2>5, <3>1
  <2>6. Len(requests) = (Len(requests) + 1) - 1
    BY <1>t
  <2> QED BY <1>d, <1>g, <2>1, <2>2, <2>3, <2>4, <2>5, <2>6
<1>4. ASSUME HostResponse PROVE DownInv'
  <2>1. sup = "host" /\ answers # <<>> /\ UNCHANGED <<requests, got, crossed>>
    BY <1>4 DEF HostResponse
  <2>2. Len(requests) > 0 /\ Head(answers) = requests[Len(requests)] /\ Head(answers) \in Requests
    BY <1>t, <2>1 DEF RelayInv
  <2>3. CASE down' = Append(down, Head(answers)) /\ sup' = "loop"
    <3>1. /\ Len(down') = Len(down) + 1 /\ down'[Len(down) + 1] = requests[Len(requests)]
          /\ \A i \in 1..Len(down) : down'[i] = down[i]
      BY <1>t, <2>2, <2>3
    <3>2. ASSUME ~crossed PROVE Len(got) + (Len(down) + 1) = Len(requests)
      BY <1>d, <1>t, <2>1, <3>2
    <3>3. ASSUME ~crossed, NEW i \in 1..(Len(down) + 1)
          PROVE  Len(got) + i <= Len(requests) /\ down'[i] = requests[Len(got) + i]
      <4>1. CASE i \in 1..Len(down)
        BY <1>d, <3>1, <3>3, <4>1
      <4>2. CASE i = Len(down) + 1
        BY <1>t, <3>1, <3>2, <3>3, <4>2
      <4> QED BY <1>t, <4>1, <4>2
    <3> QED BY <1>d, <1>g, <1>t, <2>1, <2>3, <3>1, <3>2, <3>3
  <2>4. CASE sup' = "raised" /\ UNCHANGED down
    BY <1>s, <2>1, <2>4 DEF Serving
  <2> QED BY <1>4, <2>3, <2>4 DEF HostResponse, RaiseError
<1>5. ASSUME ControlInvalid PROVE DownInv'
  BY <1>5, <1>s DEF ControlInvalid, RaiseError, Serving
<1>6. ASSUME RunTools \/ ControlTerminal \/ FallThrough \/ TwinEnds \/ Answer
             \/ \E k \in Terminal \ {"fallthrough"} : Conclude(k)
      PROVE  DownInv'
  BY <1>6, <1>s DEF RunTools, ControlTerminal, FallThrough, TwinEnds, Answer, Conclude
<1>7. ASSUME Elsewhere PROVE DownInv'
  BY <1>7, <1>s DEF Elsewhere
<1> QED BY <1>1, <1>2, <1>3, <1>4, <1>5, <1>6, <1>7, <1>c, Steps

\* The host sees the batches of a program in order, numbered 1, 2, ..., and a program
\* that asks alone is handed the answer to each (ChildClient.run, consume_event).
THEOREM InOrder == Spec => []BatchesAreServedInOrder
<1>1. IInv /\ [Next]_vars => IInv'
  BY NextType, NextUp, NextRelay, NextDown DEF IInv
<1>2. IInv => BatchesAreServedInOrder
  <2> SUFFICES ASSUME IInv PROVE BatchesAreServedInOrder
    OBVIOUS
  <2>1. DOMAIN requests = 1..Len(requests) /\ DOMAIN got = 1..Len(got)
    BY DEF IInv, ChannelType
  <2> QED BY <2>1 DEF IInv, RelayInv, DownInv, BatchesAreServedInOrder
<1> QED BY <1>1, <1>2, InitInv, PTL DEF Spec

(***************************************************************************)
(* What the host is told: places in a sequence, and the characters of bytes. *)
(***************************************************************************)

Less == {p \in Nat \X Nat : p[1] < p[2]}

LEMMA LessIsWellFounded == IsWellFoundedOn(Less, Nat)
BY NatLessThanWellFounded DEF OpToRel, Less

\* A non-empty set of natural numbers has a smallest one.
LEMMA Smallest == \A S \in SUBSET Nat : S # {} => \E n \in S : \A m \in S : n <= m
<1> SUFFICES ASSUME NEW S \in SUBSET Nat, S # {} PROVE \E n \in S : \A m \in S : n <= m
  OBVIOUS
<1>1. PICK n \in S : \A m \in S : ~(<<m, n>> \in Less)
  BY LessIsWellFounded, WFMin
<1>2. \A m \in S : ~(m < n)
  BY <1>1 DEF Less
<1> QED BY <1>2

\* How many of a set of places are among the first n.
Among(S, n) == Cardinality(S \cap 1..n)

LEMMA AmongFinite == ASSUME NEW S, NEW n \in Nat PROVE IsFiniteSet(S \cap 1..n)
<1>1. IsFiniteSet(1..n)
  BY FS_Interval
<1>2. S \cap 1..n \in SUBSET (1..n)
  OBVIOUS
<1> QED BY <1>1, <1>2, FS_Subset

LEMMA AmongStep ==
  \A S : \A n \in Nat :
    /\ Among(S, n) \in Nat /\ Among(S, n) <= n /\ Among(S, 0) = 0
    /\ Among(S, n + 1) = IF n + 1 \in S THEN Among(S, n) + 1 ELSE Among(S, n)
<1> TAKE S
<1> TAKE n \in Nat
<1>1. IsFiniteSet(1..n) /\ Cardinality(1..n) = n
  BY FS_Interval
<1>2. IsFiniteSet(S \cap 1..n) /\ Cardinality(S \cap 1..n) <= n
  BY <1>1, FS_Subset
<1>3. Cardinality(S \cap 1..n) \in Nat
  BY <1>2, FS_CardinalityType
<1>4. S \cap 1..0 = {}
  OBVIOUS
<1>5. Among(S, n) \in 0..n /\ Among(S, 0) = 0
  BY <1>2, <1>3, <1>4, FS_EmptySet DEF Among
<1>8. Among(S, n) \in Nat /\ Among(S, n) <= n
  BY <1>2, <1>3 DEF Among
<1>6. ASSUME n + 1 \in S PROVE Among(S, n + 1) = Among(S, n) + 1
  <2>1. S \cap 1..(n + 1) = (S \cap 1..n) \cup {n + 1} /\ n + 1 \notin S \cap 1..n
    BY <1>6
  <2>2. Cardinality((S \cap 1..n) \cup {n + 1}) = Cardinality(S \cap 1..n) + 1
    BY <2>1, <1>2, FS_AddElement
  <2> QED BY <2>1, <2>2 DEF Among
<1>7. ASSUME n + 1 \notin S PROVE Among(S, n + 1) = Among(S, n)
  <2>1. S \cap 1..(n + 1) = S \cap 1..n
    BY <1>7
  <2> QED BY <2>1 DEF Among
<1> QED BY <1>5, <1>6, <1>7, <1>8

LEMMA AmongGrows ==
  ASSUME NEW S, NEW m \in Nat, NEW n \in Nat, m <= n
  PROVE  Among(S, m) <= Among(S, n) /\ (m < n /\ n \in S => Among(S, m) < Among(S, n))
<1>1. IsFiniteSet(S \cap 1..n) /\ IsFiniteSet(S \cap 1..m)
  BY AmongFinite
<1>2. S \cap 1..m \in SUBSET (S \cap 1..n)
  OBVIOUS
<1>3. Among(S, m) <= Among(S, n) /\ (Among(S, n) = Among(S, m) => S \cap 1..n = S \cap 1..m)
  BY <1>1, <1>2, FS_Subset DEF Among
<1>4. m < n /\ n \in S => S \cap 1..n # S \cap 1..m
  <2>1. ASSUME m < n, n \in S PROVE n \in S \cap 1..n /\ n \notin S \cap 1..m
    BY <2>1
  <2> QED BY <2>1
<1>5. Among(S, m) \in Nat /\ Among(S, n) \in Nat
  BY AmongStep
<1> QED BY <1>3, <1>4, <1>5

\* The k-th place of a set, and no other, has k of them up to it.
LEMMA Nth ==
  ASSUME NEW S, NEW n \in Nat, NEW k \in 1..Among(S, n)
  PROVE  /\ \E i \in S \cap 1..n : Among(S, i) = k
         /\ \A i, j \in S \cap Nat : Among(S, i) = k /\ Among(S, j) = k => i = j
<1> DEFINE A(i) == Among(S, i)
           T == {i \in Nat : k <= A(i)}
<1>s. \A j \in Nat : A(j) \in Nat /\ A(j + 1) = IF j + 1 \in S THEN A(j) + 1 ELSE A(j)
  BY AmongStep
<1>z. A(0) = 0
  BY AmongStep
<1>g. \A i, j \in Nat : i < j /\ j \in S => A(i) < A(j)
  BY AmongGrows
<1>k. k \in 1..A(n)
  OBVIOUS
<1> HIDE DEF A
<1>0. n \in T
  BY <1>s, <1>k
<1>1. PICK i \in T : \A j \in T : i <= j
  BY <1>0, Smallest
<1>2. i \in Nat /\ i # 0 /\ i <= n /\ A(i) >= k
  BY <1>0, <1>1, <1>z, <1>k, <1>s
<1>3. i - 1 \in Nat /\ i - 1 \notin T /\ (i - 1) + 1 = i
  BY <1>1, <1>2
<1>4. i \in S /\ A(i) = k
  BY <1>2, <1>3, <1>s, <1>k
<1>5. ASSUME NEW a \in S \cap Nat, NEW b \in S \cap Nat, A(a) = k, A(b) = k PROVE a = b
  <2>1. A(a) = A(b) /\ A(a) \in Nat /\ a \in Nat /\ b \in Nat
    BY <1>5, <1>s
  <2>2. ~(a < b) /\ ~(b < a)
    BY <2>1, <1>g
  <2> QED BY <2>1, <2>2
<1> QED BY <1>2, <1>4, <1>5 DEF A

\* What is printed, and the bytes of it.
Symbols == Chars \cup {"w", "L", "C", "m", "d", "a"}

LEMMA BytesStep ==
  \A text \in Seq(Symbols) : \A i \in Nat :
    /\ Bytes(text, i) \in Nat /\ Bytes(text, 0) = 0
    /\ i <= Len(text) => Bytes(text, i) = i + Among({j \in 1..Len(text) : text[j] = "w"}, i)
    /\ i < Len(text) => Bytes(text, i + 1) = Bytes(text, i) + IF text[i + 1] = "w" THEN 2 ELSE 1
<1> SUFFICES ASSUME NEW text \in Seq(Symbols), NEW i \in Nat
             PROVE  /\ Bytes(text, i) \in Nat /\ Bytes(text, 0) = 0
                    /\ i <= Len(text) => Bytes(text, i) = i + Among({j \in 1..Len(text) : text[j] = "w"}, i)
                    /\ i < Len(text) => Bytes(text, i + 1) = Bytes(text, i) + IF text[i + 1] = "w" THEN 2 ELSE 1
  OBVIOUS
<1> DEFINE W == {j \in 1..Len(text) : text[j] = "w"}
           B(k) == {j \in 1..k : text[j] = "w"}
<1>1. B(0) = {} /\ \A k \in Nat : B(k) = B(k) \cap 1..k
  OBVIOUS
<1>2. Cardinality(B(i)) \in Nat
  <2>1. Among(B(i), i) \in Nat
    BY AmongStep
  <2> QED BY <1>1, <2>1 DEF Among
<1>3. Bytes(text, i) \in Nat /\ Bytes(text, 0) = 0
  BY <1>1, <1>2, FS_EmptySet DEF Bytes
<1>4. \A k \in Nat : k <= Len(text) => B(k) = W \cap 1..k
  OBVIOUS
<1>5. \A k \in Nat : k <= Len(text) => Bytes(text, k) = k + Among(W, k)
  BY <1>4 DEF Bytes, Among
<1>6. ASSUME i < Len(text) PROVE Bytes(text, i + 1) = Bytes(text, i) + IF text[i + 1] = "w" THEN 2 ELSE 1
  <2>1. Among(W, i) \in Nat /\ Among(W, i + 1) = IF i + 1 \in W THEN Among(W, i) + 1 ELSE Among(W, i)
    BY AmongStep
  <2>2. i + 1 \in W <=> text[i + 1] = "w"
    BY <1>6
  <2>3. Bytes(text, i) = i + Among(W, i) /\ Bytes(text, i + 1) = i + 1 + Among(W, i + 1)
    BY <1>5, <1>6
  <2> QED BY <2>1, <2>2, <2>3
<1> QED BY <1>3, <1>5, <1>6

LEMMA BytesNext ==
  \A text \in Seq(Symbols) : \A i \in 1..Len(text) :
    Bytes(text, i) = Bytes(text, i - 1) + IF text[i] = "w" THEN 2 ELSE 1
<1> SUFFICES ASSUME NEW text \in Seq(Symbols), NEW i \in 1..Len(text)
             PROVE  Bytes(text, i) = Bytes(text, i - 1) + IF text[i] = "w" THEN 2 ELSE 1
  OBVIOUS
<1>1. i - 1 \in Nat /\ i - 1 < Len(text) /\ (i - 1) + 1 = i
  OBVIOUS
<1>2. \A k \in Nat : k < Len(text) => Bytes(text, k + 1) = Bytes(text, k) + IF text[k + 1] = "w" THEN 2 ELSE 1
  BY BytesStep
<1> QED BY <1>1, <1>2

LEMMA BytesType == \A text \in Seq(Symbols) : \A i \in Nat : Bytes(text, i) \in Nat
BY BytesStep

\* A longer beginning takes more bytes.
LEMMA BytesGrow ==
  \A text \in Seq(Symbols) : \A i, j \in 0..Len(text) : i < j => Bytes(text, i) + (j - i) <= Bytes(text, j)
<1> SUFFICES ASSUME NEW text \in Seq(Symbols), NEW i \in 0..Len(text), NEW j \in 0..Len(text), i < j
             PROVE  Bytes(text, i) + (j - i) <= Bytes(text, j)
  OBVIOUS
<1> DEFINE W == {k \in 1..Len(text) : text[k] = "w"}
<1>1. Bytes(text, i) = i + Among(W, i) /\ Bytes(text, j) = j + Among(W, j)
  BY BytesStep
<1>2. Among(W, i) <= Among(W, j)
  BY AmongGrows
<1>3. Among(W, i) \in Nat /\ Among(W, j) \in Nat
  BY AmongStep
<1> QED BY <1>1, <1>2, <1>3

LEMMA BytesSame ==
  \A s, t, i : (\A j \in 1..i : s[j] = t[j]) => Bytes(s, i) = Bytes(t, i)
<1> SUFFICES ASSUME NEW s, NEW t, NEW i, \A j \in 1..i : s[j] = t[j] PROVE Bytes(s, i) = Bytes(t, i)
  OBVIOUS
<1>1. {j \in 1..i : s[j] = "w"} = {j \in 1..i : t[j] = "w"}
  OBVIOUS
<1> QED BY <1>1 DEF Bytes

\* Every byte is of one character.
LEMMA ByteOf ==
  \A text \in Seq(Symbols) : \A b \in 1..Bytes(text, Len(text)) :
    /\ \E i \in 1..Len(text) : Bytes(text, i - 1) < b /\ b <= Bytes(text, i)
    /\ \A i, j \in 1..Len(text) : Bytes(text, i - 1) < b /\ b <= Bytes(text, i)
         /\ Bytes(text, j - 1) < b /\ b <= Bytes(text, j) => i = j
<1> SUFFICES ASSUME NEW text \in Seq(Symbols), NEW b \in 1..Bytes(text, Len(text))
             PROVE  /\ \E i \in 1..Len(text) : Bytes(text, i - 1) < b /\ b <= Bytes(text, i)
                    /\ \A i, j \in 1..Len(text) : Bytes(text, i - 1) < b /\ b <= Bytes(text, i)
                         /\ Bytes(text, j - 1) < b /\ b <= Bytes(text, j) => i = j
  OBVIOUS
<1> DEFINE E(i) == Bytes(text, i)
           T == {i \in Nat : b <= E(i)}
<1>s. \A i \in Nat : E(i) \in Nat
  BY BytesStep
<1>z. E(0) = 0
  BY BytesStep, 0 \in Nat
<1>g. \A i, j \in 0..Len(text) : i < j => E(i) < E(j)
  <2> SUFFICES ASSUME NEW i \in 0..Len(text), NEW j \in 0..Len(text), i < j PROVE E(i) < E(j)
    OBVIOUS
  <2>1. E(i) + (j - i) <= E(j)
    BY BytesGrow
  <2>2. E(i) \in Nat /\ E(j) \in Nat
    BY <1>s
  <2> HIDE DEF E
  <2> QED BY <2>1, <2>2
<1>b. b \in 1..E(Len(text)) /\ Len(text) \in Nat
  OBVIOUS
<1> HIDE DEF E
<1>0. Len(text) \in T
  BY <1>b, <1>s
<1>1. PICK i \in T : \A j \in T : i <= j
  BY <1>0, Smallest
<1>2. i \in Nat /\ i # 0 /\ i <= Len(text) /\ b <= E(i)
  BY <1>0, <1>1, <1>z, <1>b, <1>s
<1>3. i - 1 \in Nat /\ i - 1 \notin T
  BY <1>1, <1>2
<1>4. E(i - 1) < b
  BY <1>3, <1>s, <1>b
<1>5. ASSUME NEW k \in 1..Len(text), NEW j \in 1..Len(text), E(k - 1) < b, b <= E(k), E(j - 1) < b, b <= E(j) PROVE k = j
  <2>1. ASSUME NEW x \in 1..Len(text), NEW y \in 1..Len(text), x < y, b <= E(x), E(y - 1) < b PROVE FALSE
    <3>1. x <= y - 1 /\ x \in 0..Len(text) /\ y - 1 \in 0..Len(text) /\ E(x) \in Nat /\ E(y - 1) \in Nat
      BY <2>1, <1>b, <1>s
    <3>2. E(x) <= E(y - 1)
      BY <3>1, <1>g
    <3> QED BY <3>1, <3>2, <2>1, <1>b
  <2> QED BY <1>5, <2>1, <1>b
<1>6. i \in 1..Len(text)
  BY <1>2, <1>b
<1> QED BY <1>2, <1>4, <1>5, <1>6 DEF E

LEMMA EncodeAt ==
  \A text \in Seq(Symbols) : \A i \in 1..Len(text) : \A b \in Nat :
    Bytes(text, i - 1) < b /\ b <= Bytes(text, i) =>
      /\ b \in 1..Bytes(text, Len(text))
      /\ Encode(text)[b] = IF text[i] # "w" THEN text[i] ELSE IF b = Bytes(text, i) THEN "C" ELSE "L"
<1> SUFFICES ASSUME NEW text \in Seq(Symbols), NEW i \in 1..Len(text), NEW b \in Nat, Bytes(text, i - 1) < b, b <= Bytes(text, i)
             PROVE  /\ b \in 1..Bytes(text, Len(text))
                    /\ Encode(text)[b] = IF text[i] # "w" THEN text[i] ELSE IF b = Bytes(text, i) THEN "C" ELSE "L"
  OBVIOUS
<1>1. Bytes(text, i) \in Nat /\ Bytes(text, i - 1) \in Nat /\ Bytes(text, Len(text)) \in Nat
  <2>1. \A k \in Nat : Bytes(text, k) \in Nat
    BY BytesStep
  <2>2. i \in Nat /\ i - 1 \in Nat /\ Len(text) \in Nat
    OBVIOUS
  <2> QED BY <2>1, <2>2
<1>2. Bytes(text, i) <= Bytes(text, Len(text))
  <2>1. i < Len(text) => Bytes(text, i) + (Len(text) - i) <= Bytes(text, Len(text))
    BY BytesGrow
  <2> QED BY <2>1, <1>1
<1>3. b \in 1..Bytes(text, Len(text))
  BY <1>1, <1>2
<1> DEFINE Of == CHOOSE j \in 1..Len(text) : Bytes(text, j - 1) < b /\ b <= Bytes(text, j)
<1>4. Of = i
  BY <1>3, ByteOf
<1>5. Encode(text)[b] = IF text[Of] # "w" THEN text[Of] ELSE IF b = Bytes(text, Of) THEN "C" ELSE "L"
  BY <1>3 DEF Encode
<1> QED BY <1>3, <1>4, <1>5

LEMMA EncodeType ==
  \A text \in Seq(Symbols) : Encode(text) \in Seq(Symbols) /\ Len(Encode(text)) = Bytes(text, Len(text))
<1> SUFFICES ASSUME NEW text \in Seq(Symbols)
             PROVE  Encode(text) \in Seq(Symbols) /\ Len(Encode(text)) = Bytes(text, Len(text))
  OBVIOUS
<1>1. Bytes(text, Len(text)) \in Nat
  <2>1. \A k \in Nat : Bytes(text, k) \in Nat
    BY BytesStep
  <2> QED BY <2>1
<1>2. ASSUME NEW b \in 1..Bytes(text, Len(text)) PROVE Encode(text)[b] \in Symbols
  <2>1. PICK i \in 1..Len(text) : Bytes(text, i - 1) < b /\ b <= Bytes(text, i)
    BY ByteOf
  <2>2. Encode(text)[b] \in {text[i], "L", "C"}
    BY <1>1, <2>1, EncodeAt
  <2> QED BY <2>2 DEF Symbols
<1>3. Encode(text) = [b \in 1..Bytes(text, Len(text)) |-> Encode(text)[b]]
  BY DEF Encode
<1>4. Encode(text) \in [1..Bytes(text, Len(text)) -> Symbols]
  BY <1>2, <1>3
<1> QED BY <1>1, <1>4

LEMMA EncodeMarker ==
  \A text \in Seq(Symbols) : Encode(text \o Marker) = Encode(text) \o Marker
<1> SUFFICES ASSUME NEW text \in Seq(Symbols) PROVE Encode(text \o Marker) = Encode(text) \o Marker
  OBVIOUS
<1> DEFINE n == Len(text)
           more == text \o Marker
<1>1. /\ more \in Seq(Symbols) /\ Len(more) = n + 1 /\ n \in Nat /\ more[n + 1] = "m"
      /\ \A i \in 1..n : more[i] = text[i]
      /\ n = Len(text)
  BY DEF Marker, Symbols
<1> HIDE DEF n, more
<1>2. \A i \in 0..n : Bytes(more, i) = Bytes(text, i) /\ Bytes(text, i) \in Nat
  <2> SUFFICES ASSUME NEW i \in 0..n PROVE Bytes(more, i) = Bytes(text, i) /\ Bytes(text, i) \in Nat
    OBVIOUS
  <2>1. \A j \in 1..i : more[j] = text[j]
    BY <1>1
  <2>2. \A k \in Nat : Bytes(text, k) \in Nat
    BY BytesStep
  <2>3. Bytes(more, i) = Bytes(text, i)
    BY <2>1, BytesSame
  <2> QED BY <2>2, <2>3, <1>1
<1>3. Bytes(more, n + 1) = Bytes(text, n) + 1
  <2>1. Bytes(more, n + 1) = Bytes(more, n) + IF more[n + 1] = "w" THEN 2 ELSE 1
    <3>1. n + 1 \in 1..Len(more) /\ (n + 1) - 1 = n
      BY <1>1
    <3>2. Bytes(more, n + 1) = Bytes(more, (n + 1) - 1) + IF more[n + 1] = "w" THEN 2 ELSE 1
      BY <1>1, <3>1, BytesNext
    <3> QED BY <3>1, <3>2
  <2> QED BY <2>1, <1>1, <1>2
<1> DEFINE B == Bytes(text, n)
<1>4. /\ Encode(text) \in Seq(Symbols) /\ Len(Encode(text)) = B
      /\ Encode(more) \in Seq(Symbols) /\ Len(Encode(more)) = B + 1 /\ B \in Nat
  <2>1. Encode(more) \in Seq(Symbols) /\ Len(Encode(more)) = Bytes(more, Len(more))
    BY <1>1, EncodeType
  <2>2. Encode(text) \in Seq(Symbols) /\ Len(Encode(text)) = Bytes(text, Len(text))
    BY EncodeType
  <2>3. B \in Nat
    BY <1>1, <1>2
  <2> QED BY <2>1, <2>2, <2>3, <1>1, <1>3
<1>5. ASSUME NEW b \in 1..B PROVE Encode(more)[b] = Encode(text)[b]
  <2>1. PICK i \in 1..n : Bytes(text, i - 1) < b /\ b <= Bytes(text, i)
    <3>1. b \in 1..Bytes(text, Len(text))
      BY <1>1 DEF B
    <3>2. \E i \in 1..Len(text) : Bytes(text, i - 1) < b /\ b <= Bytes(text, i)
      BY <3>1, ByteOf
    <3> QED BY <3>2, <1>1
  <2>2. i \in 0..n /\ i - 1 \in 0..n /\ i \in 1..Len(more) /\ b \in Nat /\ more[i] = text[i]
    BY <1>1, <1>4
  <2>3. Bytes(more, i - 1) < b /\ b <= Bytes(more, i) /\ Bytes(more, i) = Bytes(text, i)
    BY <2>1, <2>2, <1>2
  <2>4. Encode(text)[b] = IF text[i] # "w" THEN text[i] ELSE IF b = Bytes(text, i) THEN "C" ELSE "L"
    BY <2>1, <2>2, <1>1, EncodeAt
  <2>5. Encode(more)[b] = IF more[i] # "w" THEN more[i] ELSE IF b = Bytes(more, i) THEN "C" ELSE "L"
    BY <2>2, <2>3, <1>1, EncodeAt
  <2> QED BY <2>2, <2>3, <2>4, <2>5
<1>6. Encode(more)[B + 1] = "m"
  <2>1. n + 1 \in 1..Len(more) /\ B + 1 \in Nat /\ Bytes(more, (n + 1) - 1) < B + 1 /\ B + 1 <= Bytes(more, n + 1)
    BY <1>1, <1>2, <1>3, <1>4
  <2>2. Encode(more)[B + 1] = IF more[n + 1] # "w" THEN more[n + 1] ELSE IF B + 1 = Bytes(more, n + 1) THEN "C" ELSE "L"
    BY <2>1, <1>1, EncodeAt
  <2> QED BY <2>2, <1>1
<1> DEFINE left == Encode(more)
           right == Encode(text) \o Marker
<1> HIDE DEF B
<1>7. /\ right \in Seq(Symbols) /\ Len(right) = B + 1
      /\ \A b \in 1..B : right[b] = Encode(text)[b]
      /\ right[B + 1] = "m"
  BY <1>4 DEF Marker, Symbols
<1>8. \A b \in 1..(B + 1) : left[b] = right[b]
  BY <1>4, <1>5, <1>6, <1>7
<1> HIDE DEF left, right
<1>9. left = right
  BY <1>4, <1>7, <1>8 DEF left
<1> QED BY <1>9 DEF left, right, more

\* Where the characters of some bytes begin, and what they are.
LEMMA DecodeAt ==
  \A bytes \in Seq(Symbols) :
    /\ Decode(bytes) \in Seq(Symbols) /\ Len(Decode(bytes)) = Among(Starts(bytes), Len(bytes))
    /\ \A i \in Starts(bytes) :
         /\ Among(Starts(bytes), i) \in 1..Len(Decode(bytes))
         /\ Decode(bytes)[Among(Starts(bytes), i)] = IF bytes[i] = "L" THEN "w" ELSE bytes[i]
    /\ \A k \in 1..Len(Decode(bytes)) : \E i \in Starts(bytes) : Among(Starts(bytes), i) = k
    /\ \A k \in 1..Len(Decode(bytes)) : Decode(bytes)[k] \notin {"L", "C"}
<1> SUFFICES ASSUME NEW bytes \in Seq(Symbols)
             PROVE  /\ Decode(bytes) \in Seq(Symbols) /\ Len(Decode(bytes)) = Among(Starts(bytes), Len(bytes))
                    /\ \A i \in Starts(bytes) :
                         /\ Among(Starts(bytes), i) \in 1..Len(Decode(bytes))
                         /\ Decode(bytes)[Among(Starts(bytes), i)] = IF bytes[i] = "L" THEN "w" ELSE bytes[i]
                    /\ \A k \in 1..Len(Decode(bytes)) : \E i \in Starts(bytes) : Among(Starts(bytes), i) = k
                    /\ \A k \in 1..Len(Decode(bytes)) : Decode(bytes)[k] \notin {"L", "C"}
  OBVIOUS
<1> DEFINE S == Starts(bytes)
           n == Among(S, Len(bytes))
           Start(k) == CHOOSE i \in S : Among(S, i) = k
<1>0. S \subseteq 1..Len(bytes) /\ Len(bytes) \in Nat
  BY DEF Starts
<1>1. Cardinality(S) = n /\ n \in Nat
  <2>1. S \cap 1..Len(bytes) = S
    BY <1>0
  <2> QED BY <2>1, <1>0, AmongStep DEF Among
<1>2. Decode(bytes) = [k \in 1..n |-> IF bytes[Start(k)] = "L" THEN "w" ELSE bytes[Start(k)]]
  BY <1>1 DEF Decode, Among
<1>3. ASSUME NEW i \in S PROVE Among(S, i) \in 1..n
  <2>1. i \in Nat /\ i - 1 \in Nat /\ (i - 1) + 1 = i /\ i <= Len(bytes)
    BY <1>0
  <2>2. Among(S, i - 1) \in Nat /\ Among(S, (i - 1) + 1) = Among(S, i - 1) + 1
    BY <2>1, AmongStep
  <2>3. Among(S, i) <= n
    BY <2>1, <1>0, AmongGrows
  <2> QED BY <2>1, <2>2, <2>3, <1>1
<1>4. ASSUME NEW k \in 1..n PROVE \E i \in S : Among(S, i) = k
  BY <1>0, Nth
<1>5. ASSUME NEW i \in S PROVE Start(Among(S, i)) = i
  <2>1. Among(S, i) \in 1..Among(S, Len(bytes)) /\ i \in S \cap Nat
    BY <1>0, <1>3
  <2>2. Start(Among(S, i)) \in S /\ Among(S, Start(Among(S, i))) = Among(S, i)
    OBVIOUS
  <2>3. Start(Among(S, i)) \in S \cap Nat
    BY <2>2, <1>0
  <2>4. \A x, y \in S \cap Nat : Among(S, x) = Among(S, i) /\ Among(S, y) = Among(S, i) => x = y
    BY <2>1, <1>0, Nth
  <2> QED BY <2>1, <2>2, <2>3, <2>4
<1>6. ASSUME NEW i \in S PROVE Decode(bytes)[Among(S, i)] = IF bytes[i] = "L" THEN "w" ELSE bytes[i]
  <2> HIDE DEF Start, n
  <2> QED BY <1>2, <1>3, <1>5
<1>7. ASSUME NEW k \in 1..n PROVE Decode(bytes)[k] \in Symbols /\ Decode(bytes)[k] \notin {"L", "C"}
  <2>1. PICK i \in S : Among(S, i) = k
    BY <1>4
  <2>2. Decode(bytes)[k] = IF bytes[i] = "L" THEN "w" ELSE bytes[i]
    BY <2>1, <1>6
  <2>3. bytes[i] \in Symbols /\ bytes[i] # "C"
    BY <1>0 DEF Starts
  <2> QED BY <2>2, <2>3 DEF Symbols
<1>8. Decode(bytes) \in [1..n -> Symbols]
  <2>1. Decode(bytes) = [k \in 1..n |-> Decode(bytes)[k]]
    BY <1>2
  <2> QED BY <2>1, <1>7
<1>9. Decode(bytes) \in Seq(Symbols) /\ Len(Decode(bytes)) = n
  BY <1>1, <1>8
<1> QED BY <1>3, <1>4, <1>6, <1>7, <1>9

\* Bytes of whole characters read back as those characters.
LEMMA DecodeEncode ==
  \A text \in Seq(Symbols) : (\A i \in 1..Len(text) : text[i] \notin {"L", "C"}) => Decode(Encode(text)) = text
<1> SUFFICES ASSUME NEW text \in Seq(Symbols), \A i \in 1..Len(text) : text[i] \notin {"L", "C"}
             PROVE  Decode(Encode(text)) = text
  OBVIOUS
<1> DEFINE bytes == Encode(text)
           S == Starts(bytes)
           E(i) == Bytes(text, i)
           n == Len(text)
<1>t. /\ bytes \in Seq(Symbols) /\ Len(bytes) = E(n) /\ n \in Nat /\ E(0) = 0
      /\ \A i \in Nat : E(i) \in Nat
      /\ E(n) \in Nat
  <2>1. bytes \in Seq(Symbols) /\ Len(bytes) = E(n) /\ n \in Nat
    BY EncodeType
  <2>2. \A i \in Nat : E(i) \in Nat
    BY BytesType
  <2>3. E(0) = 0
    BY BytesStep, 0 \in Nat
  <2> HIDE DEF bytes, E, n
  <2> QED BY <2>1, <2>2, <2>3
<1>n. \A i \in 1..n : E(i) = E(i - 1) + IF text[i] = "w" THEN 2 ELSE 1
  BY BytesNext
<1>e. \A i \in 1..n : \A b \in Nat : E(i - 1) < b /\ b <= E(i) =>
        /\ b \in 1..E(n)
        /\ bytes[b] = IF text[i] # "w" THEN text[i] ELSE IF b = E(i) THEN "C" ELSE "L"
  BY EncodeAt
<1>s. S = {i \in 1..Len(bytes) : bytes[i] \notin {"L", "C"} \/ (bytes[i] = "L" /\ i < Len(bytes) /\ bytes[i + 1] = "C")}
  BY DEF Starts
<1>a. \A i \in Nat : Among(S, i) \in Nat /\ Among(S, 0) = 0 /\ Among(S, i + 1) = IF i + 1 \in S THEN Among(S, i) + 1 ELSE Among(S, i)
  BY AmongStep
<1>d. /\ Decode(bytes) \in Seq(Symbols) /\ Len(Decode(bytes)) = Among(S, Len(bytes))
      /\ \A i \in S : Decode(bytes)[Among(S, i)] = IF bytes[i] = "L" THEN "w" ELSE bytes[i]
  BY <1>t, DecodeAt
<1>w. text \in Seq(Symbols) /\ n = Len(text)
  OBVIOUS
<1> HIDE DEF bytes, S, E, n
<1>1. ASSUME NEW i \in 1..n
      PROVE  /\ E(i - 1) + 1 \in S
             /\ bytes[E(i - 1) + 1] = IF text[i] = "w" THEN "L" ELSE text[i]
             /\ text[i] = "w" => E(i - 1) + 2 \notin S
  <2>0. i - 1 \in Nat /\ i \in Nat /\ E(i - 1) \in Nat /\ E(i) \in Nat /\ text[i] \notin {"L", "C"}
    BY <1>t, <1>w
  <2>1. CASE text[i] = "w"
    <3>1. E(i) = E(i - 1) + 2
      BY <1>n, <2>1
    <3>2. /\ E(i - 1) + 1 \in 1..E(n) /\ bytes[E(i - 1) + 1] = "L"
      BY <3>1, <2>0, <2>1, <1>e, E(i - 1) + 1 \in Nat, E(i - 1) < E(i - 1) + 1, E(i - 1) + 1 <= E(i), E(i - 1) + 1 # E(i)
    <3>3. E(i - 1) + 2 \in 1..E(n) /\ bytes[E(i - 1) + 2] = "C"
      BY <3>1, <2>0, <2>1, <1>e, E(i - 1) + 2 \in Nat, E(i - 1) < E(i - 1) + 2
    <3>4. E(i - 1) + 1 + 1 = E(i - 1) + 2 /\ E(i - 1) + 1 < E(n)
      <4>1. E(i - 1) + 2 <= E(n) /\ E(n) \in Nat
        BY <3>3, <1>t
      <4> QED BY <4>1, <2>0
    <3> QED BY <3>2, <3>3, <3>4, <2>1, <1>s, <1>t
  <2>2. CASE text[i] # "w"
    <3>1. E(i) = E(i - 1) + 1
      BY <1>n, <2>2
    <3>2. E(i - 1) + 1 \in 1..E(n) /\ bytes[E(i - 1) + 1] = text[i]
      BY <3>1, <2>0, <2>2, <1>e, E(i - 1) + 1 \in Nat, E(i - 1) < E(i - 1) + 1
    <3> QED BY <3>2, <2>0, <2>2, <1>s, <1>t
  <2> QED BY <2>1, <2>2
<1> DEFINE Bad == {i \in Nat : i <= n /\ Among(S, E(i)) # i}
<1>2. Bad = {}
  <2> SUFFICES ASSUME Bad # {} PROVE FALSE
    OBVIOUS
  <2>1. PICK i \in Bad : \A j \in Bad : i <= j
    BY Smallest
  <2>2. i # 0
    BY <2>1, <1>t, <1>a
  <2>3. i \in 1..n /\ i - 1 \in Nat /\ Among(S, E(i - 1)) = i - 1 /\ E(i - 1) \in Nat
    BY <2>1, <2>2, <1>t, SMTT(30)
  <2>4. Among(S, E(i - 1) + 1) = i
    BY <2>3, <1>1, <1>a
  <2>5. CASE text[i] = "w"
    <3>1. E(i) = E(i - 1) + 1 + 1 /\ E(i - 1) + 1 \in Nat /\ E(i - 1) + 1 + 1 \notin S
      BY <2>3, <2>5, <1>n, <1>1, E(i - 1) + 1 + 1 = E(i - 1) + 2
    <3>2. Among(S, E(i - 1) + 1 + 1) = Among(S, E(i - 1) + 1)
      BY <3>1, <1>a
    <3> QED BY <3>1, <3>2, <2>1, <2>4
  <2>6. CASE text[i] # "w"
    <3>1. E(i) = E(i - 1) + 1
      BY <2>3, <2>6, <1>n
    <3> QED BY <3>1, <2>1, <2>4
  <2> QED BY <2>5, <2>6
<1>3. ASSUME NEW i \in 1..n PROVE Among(S, E(i - 1) + 1) = i
  <2>1. i - 1 \in Nat /\ Among(S, E(i - 1)) = i - 1 /\ E(i - 1) \in Nat
    BY <1>2, <1>t, SMTT(30)
  <2> QED BY <2>1, <1>1, <1>a
<1>4. Len(Decode(bytes)) = n
  <2>1. n \in Nat /\ n <= n /\ n \notin Bad
    BY <1>2, <1>t, SMTT(30)
  <2>2. Among(S, E(n)) = n
    BY <2>1
  <2> QED BY <2>2, <1>d, <1>t
<1>5. ASSUME NEW i \in 1..n PROVE Decode(bytes)[i] = text[i]
  <2>1. Decode(bytes)[Among(S, E(i - 1) + 1)] = IF bytes[E(i - 1) + 1] = "L" THEN "w" ELSE bytes[E(i - 1) + 1]
    BY <1>1, <1>d
  <2> QED BY <2>1, <1>1, <1>3, <1>w
<1> DEFINE dec == Decode(bytes)
<1>6. dec \in Seq(Symbols) /\ Len(dec) = Len(text) /\ \A i \in 1..Len(text) : dec[i] = text[i]
  BY <1>4, <1>5, <1>d, <1>w
<1> HIDE DEF dec
<1>7. dec = text
  BY <1>6
<1> QED BY <1>7 DEF dec, bytes

\* The first bytes read as the first characters.
LEMMA DecodePrefix ==
  \A bytes \in Seq(Symbols) : \A n \in 0..Len(bytes) : IsPrefix(Decode(SubSeq(bytes, 1, n)), Decode(bytes))
<1> SUFFICES ASSUME NEW bytes \in Seq(Symbols), NEW n \in 0..Len(bytes)
             PROVE  IsPrefix(Decode(SubSeq(bytes, 1, n)), Decode(bytes))
  OBVIOUS
<1> DEFINE first == SubSeq(bytes, 1, n)
           S == Starts(bytes)
           F == Starts(first)
<1>t. /\ first \in Seq(Symbols) /\ Len(first) = n /\ n \in Nat /\ Len(bytes) \in Nat /\ n <= Len(bytes)
      /\ \A i \in 1..n : first[i] = bytes[i]
  OBVIOUS
<1> HIDE DEF first
<1>1. F \subseteq S \cap 1..n /\ \A i \in S : i < n => i \in F
  <2>1. F = {i \in 1..n : first[i] \notin {"L", "C"} \/ (first[i] = "L" /\ i < n /\ first[i + 1] = "C")}
    BY <1>t DEF Starts
  <2>2. S = {i \in 1..Len(bytes) : bytes[i] \notin {"L", "C"} \/ (bytes[i] = "L" /\ i < Len(bytes) /\ bytes[i + 1] = "C")}
    BY DEF Starts
  <2>3. ASSUME NEW i \in F PROVE i \in S \cap 1..n
    <3>1. i \in 1..n /\ i \in 1..Len(bytes) /\ (i < n => i + 1 \in 1..n /\ i < Len(bytes))
      BY <2>1, <1>t
    <3> QED BY <3>1, <2>1, <2>2, <1>t
  <2>4. ASSUME NEW i \in S, i < n PROVE i \in F
    <3>1. i \in 1..n /\ i + 1 \in 1..n
      BY <2>2, <2>4, <1>t
    <3> QED BY <3>1, <2>1, <2>2, <2>4, <1>t
  <2> QED BY <2>3, <2>4
<1>2. ASSUME NEW i \in F PROVE Among(F, i) = Among(S, i)
  <2>1. i \in 1..n
    BY <1>1
  <2>2. F \cap 1..i = S \cap 1..i
    <3>1. ASSUME NEW j \in S \cap 1..i PROVE j \in F
      BY <3>1, <2>1, <1>1, <1>t
    <3> QED BY <3>1, <1>1
  <2> QED BY <2>2 DEF Among
<1> DEFINE short == Decode(first)
           long == Decode(bytes)
<1>d. /\ short \in Seq(Symbols) /\ long \in Seq(Symbols) /\ Len(short) \in Nat /\ Len(long) \in Nat
      /\ \A i \in F : Among(F, i) \in 1..Len(short) /\ short[Among(F, i)] = IF first[i] = "L" THEN "w" ELSE first[i]
      /\ \A i \in S : Among(S, i) \in 1..Len(long) /\ long[Among(S, i)] = IF bytes[i] = "L" THEN "w" ELSE bytes[i]
      /\ \A k \in 1..Len(short) : \E i \in F : Among(F, i) = k
  BY <1>t, DecodeAt
<1> HIDE DEF short, long, S, F
<1>3. ASSUME NEW k \in 1..Len(short) PROVE k \in 1..Len(long) /\ short[k] = long[k]
  <2>1. PICK i \in F : Among(F, i) = k
    BY <1>d
  <2>2. i \in S /\ i \in 1..n /\ Among(S, i) = k /\ first[i] = bytes[i]
    BY <2>1, <1>1, <1>2, <1>t
  <2>3. short[k] = (IF first[i] = "L" THEN "w" ELSE first[i]) /\ long[k] = (IF bytes[i] = "L" THEN "w" ELSE bytes[i]) /\ k \in 1..Len(long)
    BY <2>1, <2>2, <1>d
  <2> QED BY <2>2, <2>3
<1>4. Len(short) <= Len(long)
  <2>1. CASE Len(short) = 0
    BY <2>1, <1>d
  <2>2. CASE Len(short) # 0
    <3>1. Len(short) \in 1..Len(short)
      BY <2>2, <1>d
    <3>2. Len(short) \in 1..Len(long)
      BY <3>1, <1>3
    <3> QED BY <3>2, <1>d
  <2> QED BY <2>1, <2>2
<1>5. SubSeq(short, 1, Len(short)) = SubSeq(long, 1, Len(short))
  <2>1. Len(SubSeq(short, 1, Len(short))) = Len(short) /\ Len(SubSeq(long, 1, Len(short))) = Len(short)
    BY <1>d, <1>4
  <2> QED BY <1>3, <1>4, <1>d
<1>6. IsPrefix(short, long)
  BY <1>4, <1>5 DEF IsPrefix
<1> QED BY <1>6 DEF short, long, first

Octets == Symbols \ {"w"}

LEMMA OctetsAreSymbols == \A bytes \in Seq(Octets) : bytes \in Seq(Symbols) /\ \A i \in 1..Len(bytes) : bytes[i] # "w"
BY DEF Octets

LEMMA EncodeOctets == \A text \in Seq(Symbols) : Encode(text) \in Seq(Octets)
<1> SUFFICES ASSUME NEW text \in Seq(Symbols) PROVE Encode(text) \in Seq(Octets)
  OBVIOUS
<1>1. /\ Encode(text) \in Seq(Symbols) /\ Len(Encode(text)) = Bytes(text, Len(text))
      /\ Bytes(text, Len(text)) \in Nat
  BY EncodeType, BytesType
<1>2. ASSUME NEW b \in 1..Bytes(text, Len(text)) PROVE Encode(text)[b] # "w"
  <2>1. PICK i \in 1..Len(text) : Bytes(text, i - 1) < b /\ b <= Bytes(text, i)
    BY ByteOf
  <2>2. b \in Nat
    BY <1>1
  <2>3. Encode(text)[b] = IF text[i] # "w" THEN text[i] ELSE IF b = Bytes(text, i) THEN "C" ELSE "L"
    BY <2>1, <2>2, EncodeAt
  <2> QED BY <2>3
<1> DEFINE e == Encode(text)
<1>3. e \in Seq(Symbols) /\ \A b \in 1..Len(e) : e[b] # "w"
  BY <1>1, <1>2
<1> HIDE DEF e
<1>4. e \in Seq(Octets)
  BY <1>3 DEF Octets
<1> QED BY <1>4 DEF e

\* What is read from some bytes takes no more than those bytes.
LEMMA DecodeShorter ==
  \A bytes \in Seq(Octets) : Bytes(Decode(bytes), Len(Decode(bytes))) <= Len(bytes)
<1> SUFFICES ASSUME NEW bytes \in Seq(Octets)
             PROVE  Bytes(Decode(bytes), Len(Decode(bytes))) <= Len(bytes)
  OBVIOUS
<1> DEFINE S == Starts(bytes)
           dec == Decode(bytes)
           A(i) == Among(S, i)
           n == Len(bytes)
           Half(i) == IF i \in S /\ bytes[i] = "L" THEN 1 ELSE 0
           Bad == {i \in Nat : i <= n /\ ~(Bytes(dec, A(i)) <= i + Half(i))}
<1>1. bytes \in Seq(Symbols) /\ n \in Nat /\ \A i \in 1..n : bytes[i] # "w"
  BY OctetsAreSymbols
<1>2. S = {i \in 1..n : bytes[i] \notin {"L", "C"} \/ (bytes[i] = "L" /\ i < n /\ bytes[i + 1] = "C")}
  BY DEF Starts
<1>3. /\ \A i \in Nat : A(i) \in Nat /\ A(i + 1) = IF i + 1 \in S THEN A(i) + 1 ELSE A(i)
      /\ A(0) = 0
  BY AmongStep, 0 \in Nat
<1>4. /\ dec \in Seq(Symbols) /\ Len(dec) = A(n)
      /\ \A i \in S : A(i) \in 1..Len(dec) /\ dec[A(i)] = IF bytes[i] = "L" THEN "w" ELSE bytes[i]
  BY <1>1, DecodeAt
<1>5. \A i \in Nat : Bytes(dec, i) \in Nat
  BY <1>4, BytesType
<1>6. Bytes(dec, 0) = 0
  BY <1>4, BytesStep, 0 \in Nat
<1>7. \A i \in 1..Len(dec) : Bytes(dec, i) = Bytes(dec, i - 1) + IF dec[i] = "w" THEN 2 ELSE 1
  BY <1>4, BytesNext
<1> HIDE DEF S, dec, A, n
<1>8. Bad = {}
  <2> SUFFICES ASSUME Bad # {} PROVE FALSE
    OBVIOUS
  <2>1. PICK i \in Bad : \A j \in Bad : i <= j
    BY Smallest
  <2>2. i # 0
    BY <2>1, <1>3, <1>6
  <2>3. i \in 1..n /\ i - 1 \in Nat /\ (i - 1) + 1 = i /\ i - 1 <= n /\ i - 1 \notin Bad
    BY <2>1, <2>2, <1>1
  <2>4. Bytes(dec, A(i - 1)) <= i - 1 + Half(i - 1)
    BY <2>3
  <2>5. A(i - 1) \in Nat /\ Bytes(dec, A(i - 1)) \in Nat /\ Half(i - 1) \in {0, 1} /\ Half(i) \in {0, 1}
    BY <2>3, <1>3, <1>5
  <2>6. CASE i \in S
    <3>1. A(i) = A(i - 1) + 1 /\ A(i) \in 1..Len(dec)
      BY <2>3, <2>6, <1>3, <1>4
    <3>2. Bytes(dec, A(i)) = Bytes(dec, A(i) - 1) + IF dec[A(i)] = "w" THEN 2 ELSE 1
      BY <3>1, <1>7
    <3>a. dec[A(i)] = (IF bytes[i] = "L" THEN "w" ELSE bytes[i]) /\ bytes[i] # "w"
      BY <2>3, <2>6, <1>1, <1>4
    <3>3. A(i) - 1 = A(i - 1) /\ (dec[A(i)] = "w" <=> bytes[i] = "L")
      BY <3>1, <3>a, <2>5
    <3>4. Half(i - 1) = 0
      BY <2>3, <2>6, <1>2
    <3>5. Bytes(dec, A(i)) <= i + Half(i)
      BY <3>2, <3>3, <3>4, <2>3, <2>4, <2>5, <2>6
    <3> QED BY <3>5, <2>1
  <2>7. CASE i \notin S
    <3>1. A(i) = A(i - 1) /\ Half(i) = 0
      BY <2>3, <2>7, <1>3
    <3>2. Bytes(dec, A(i)) <= i + Half(i)
      BY <3>1, <2>3, <2>4, <2>5
    <3> QED BY <3>2, <2>1
  <2> QED BY <2>6, <2>7
<1>9. Half(n) = 0
  BY <1>2, <1>1
<1>10. n \in Nat /\ n <= n /\ n \notin Bad
  BY <1>8, <1>1
<1>11. Bytes(dec, A(n)) <= n
  BY <1>9, <1>10
<1> QED BY <1>4, <1>11 DEF dec, n

Escaped(text) == {i \in 1..Len(text) : text[i] \in {"w", "z"}}

LEMMA JsonType ==
  /\ \A text \in Seq(Symbols) : JsonBytes(text) \in Nat /\ JsonBytes(text \o Marker) = JsonBytes(text) + 1
  /\ JsonBytes(<<>>) = 0 /\ JsonBytes(Marker) = 1 /\ JsonBytes(<<"d">>) = 1
<1>1. ASSUME NEW text \in Seq(Symbols) PROVE JsonBytes(text) \in Nat /\ JsonBytes(text \o Marker) = JsonBytes(text) + 1
  <2>1. /\ Len(text) \in Nat /\ Len(text \o Marker) = Len(text) + 1 /\ (text \o Marker)[Len(text) + 1] = "m"
        /\ \A i \in 1..Len(text) : (text \o Marker)[i] = text[i]
    BY DEF Marker
  <2>2. Escaped(text \o Marker) = Escaped(text)
    BY <2>1 DEF Escaped
  <2>3. Cardinality(Escaped(text)) \in Nat
    <3>1. Escaped(text) = Escaped(text) \cap 1..Len(text)
      BY DEF Escaped
    <3>2. Among(Escaped(text), Len(text)) \in Nat
      BY <2>1, AmongStep
    <3> QED BY <3>1, <3>2 DEF Among
  <2>4. JsonBytes(text) = Len(text) + Cardinality(Escaped(text)) /\ JsonBytes(text \o Marker) = Len(text \o Marker) + Cardinality(Escaped(text \o Marker))
    BY DEF JsonBytes, Escaped
  <2> QED BY <2>1, <2>2, <2>3, <2>4
<1>2. Escaped(Marker) = {} /\ Escaped(<<"d">>) = {} /\ Len(Marker) = 1 /\ Len(<<"d">>) = 1
  BY DEF Escaped, Marker
<1>3. Cardinality({}) = 0
  BY FS_EmptySet
<1>4. JsonBytes(Marker) = 1 /\ JsonBytes(<<"d">>) = 1
  BY <1>2, <1>3 DEF JsonBytes, Escaped
<1>5. Escaped(<<>>) = {} /\ Len(<<>>) = 0
  BY DEF Escaped
<1>6. JsonBytes(<<>>) = 0
  BY <1>3, <1>5 DEF JsonBytes, Escaped
<1> QED BY <1>1, <1>4, <1>6

\* A text that has no room in a frame is cut before its end, and fits then.
LEMMA FrameFits ==
  \A text \in Seq(Symbols) : ~(JsonBytes(text) <= Budget) =>
    \E n \in 0..(Len(text) - 1) : FitFrame(text) = SubSeq(text, 1, n) \o Marker /\ JsonBytes(FitFrame(text)) <= Budget
<1> SUFFICES ASSUME NEW text \in Seq(Symbols), ~(JsonBytes(text) <= Budget)
             PROVE  \E n \in 0..(Len(text) - 1) : FitFrame(text) = SubSeq(text, 1, n) \o Marker /\ JsonBytes(FitFrame(text)) <= Budget
  OBVIOUS
<1> DEFINE Fits == {0} \cup {n \in 1..Len(text) : JsonBytes(SubSeq(text, 1, n)) + JsonBytes(Marker) <= Budget}
           n == Max(Fits)
           Away == {d \in Nat : Len(text) - d \in Fits}
<1>b. Budget \in Nat /\ Budget >= 1 /\ Len(text) \in Nat
  BY WorkerAssumption
<1>1. Len(text) \in Away
  BY <1>b
<1>2. PICK d \in Away : \A e \in Away : d <= e
  BY <1>1, Smallest
<1>3. \A x \in Fits : Len(text) - x \in Away
  BY <1>b
<1>4. \A x \in Fits : Len(text) - d >= x
  BY <1>2, <1>3, <1>b
<1>5. n \in Fits
  BY <1>2, <1>4 DEF Max
<1>10. FitFrame(text) = SubSeq(text, 1, n) \o Marker
  BY DEF FitFrame
<1> HIDE DEF n
<1>6. n \in 0..Len(text)
  BY <1>5, <1>b
<1>7. SubSeq(text, 1, n) \in Seq(Symbols)
  BY <1>6, <1>b
<1>8. JsonBytes(SubSeq(text, 1, n)) + 1 <= Budget
  <2>1. CASE n = 0
    <3>1. SubSeq(text, 1, n) = <<>>
      BY <2>1
    <3>3. JsonBytes(<<>>) = 0
      BY JsonType
    <3>4. JsonBytes(SubSeq(text, 1, n)) = 0
      BY <3>1, <3>3
    <3> QED BY <3>4, <1>b
  <2>2. CASE n # 0
    BY <2>2, <1>5, JsonType
  <2> QED BY <2>1, <2>2
<1>9. ASSUME n = Len(text) PROVE FALSE
  <2>1. SubSeq(text, 1, n) = text
    BY <1>9
  <2>2. JsonBytes(text) + 1 <= Budget
    BY <2>1, <1>8
  <2>3. JsonBytes(text) \in Nat
    BY JsonType
  <2> QED BY <2>2, <2>3, <1>b
<1>11. JsonBytes(SubSeq(text, 1, n) \o Marker) <= Budget
  BY <1>7, <1>8, JsonType
<1>12. n \in 0..(Len(text) - 1)
  BY <1>6, <1>9, <1>b
<1> QED BY <1>10, <1>11, <1>12

\* What the host may be told of a program that printed some bytes.
Faithful(bytes, content) ==
  LET text == Decode(bytes) IN
  IF Len(bytes) <= Limit /\ JsonBytes(text) <= Budget THEN content = Said(text)
  ELSE /\ JsonBytes(content) <= Budget /\ Len(Encode(content)) <= Limit
       /\ Last(content) = "m" /\ IsPrefix(Front(content), text)

\* A beginning of a text, closed by the marker.
LEMMA Closed ==
  ASSUME NEW text \in Seq(Symbols), NEW x \in Seq(Symbols), IsPrefix(x, text), NEW n \in 0..Len(x), Bytes(x, n) + 1 <= Limit
  PROVE  LET content == SubSeq(x, 1, n) \o Marker
         IN  Len(Encode(content)) <= Limit /\ Last(content) = "m" /\ IsPrefix(Front(content), text)
<1> DEFINE cut == SubSeq(x, 1, n)
           content == cut \o Marker
<1>1. cut \in Seq(Symbols) /\ Len(cut) = n /\ n \in Nat /\ \A i \in 1..n : cut[i] = x[i]
  OBVIOUS
<1> HIDE DEF cut
<1>3. /\ content \in Seq(Symbols) /\ Len(content) = n + 1 /\ content[n + 1] = "m"
      /\ \A i \in 1..n : content[i] = cut[i]
  BY <1>1 DEF Marker, Symbols
<1>4. Len(Encode(content)) <= Limit
  <2>1. Encode(content) = Encode(cut) \o Marker
    BY <1>1, EncodeMarker
  <2>2. Encode(cut) \in Seq(Symbols) /\ Len(Encode(cut)) = Bytes(cut, n)
    BY <1>1, EncodeType
  <2>3. Bytes(cut, n) = Bytes(x, n)
    BY <1>1, BytesSame
  <2>4. Len(Encode(cut) \o Marker) = Bytes(x, n) + 1
    BY <2>2, <2>3 DEF Marker
  <2> QED BY <2>1, <2>4
<1> HIDE DEF content
<1>5. Last(content) = "m"
  BY <1>3, <1>1 DEF Last
<1>6. Front(content) \in Seq(Symbols) /\ Len(Front(content)) = n /\ \A i \in 1..n : Front(content)[i] = x[i]
  BY <1>1, <1>3 DEF Front
<1>7. n <= Len(text) /\ \A i \in 1..n : x[i] = text[i]
  <2>1. Len(x) <= Len(text) /\ SubSeq(x, 1, Len(x)) = SubSeq(text, 1, Len(x))
    BY DEF IsPrefix
  <2>2. \A i \in 1..Len(x) : SubSeq(x, 1, Len(x))[i] = x[i]
    OBVIOUS
  <2>3. \A i \in 1..Len(x) : SubSeq(text, 1, Len(x))[i] = text[i]
    BY <2>1
  <2> QED BY <2>1, <2>2, <2>3
<1> DEFINE front == Front(content)
<1>8. front \in Seq(Symbols) /\ Len(front) = n /\ \A i \in 1..n : front[i] = text[i]
  BY <1>6, <1>7
<1> HIDE DEF front
<1>9. IsPrefix(front, text)
  BY <1>1, <1>7, <1>8 DEF IsPrefix
<1> QED BY <1>4, <1>5, <1>9 DEF content, front, cut

\* What is captured: all of it, or whole characters and the marker.
Kept(bytes, data) ==
  IF Len(bytes) <= Limit THEN data = bytes
  ELSE data = Encode(Decode(SubSeq(bytes, 1, Limit - 1))) \o Marker

LEMMA KeptIsTold ==
  ASSUME NEW bytes \in Seq(Octets), NEW data, Kept(bytes, data)
  PROVE  Faithful(bytes, FitFrame(Said(Decode(data))))
<1> DEFINE text == Decode(bytes)
<1>b. Limit \in Nat /\ Limit >= 1 /\ Budget \in Nat /\ Budget >= 1
  BY WorkerAssumption
<1>1. bytes \in Seq(Symbols) /\ Len(bytes) \in Nat
  BY OctetsAreSymbols
<1>2. text \in Seq(Symbols) /\ Len(text) \in Nat /\ Bytes(text, Len(text)) <= Len(bytes)
  BY <1>1, DecodeAt, DecodeShorter
<1>3. CASE Len(bytes) <= Limit
  <2>1. data = bytes
    BY <1>3 DEF Kept
  <2>2. CASE JsonBytes(text) <= Budget
    <3>1. FitFrame(Said(text)) = Said(text)
      BY <2>2, <1>b, JsonType DEF FitFrame, Said
    <3> QED BY <3>1, <2>1, <2>2, <1>3 DEF Faithful
  <2>3. CASE ~(JsonBytes(text) <= Budget)
    <3>1. text # <<>> /\ Said(text) = text
      <4>1. text # <<>>
        BY <2>3, <1>b, JsonType
      <4> QED BY <4>1 DEF Said
    <3>2. PICK n \in 0..(Len(text) - 1) : FitFrame(text) = SubSeq(text, 1, n) \o Marker /\ JsonBytes(FitFrame(text)) <= Budget
      BY <1>2, <2>3, FrameFits
    <3>3. Bytes(text, n) + 1 <= Limit
      <4>1. n \in 0..Len(text) /\ Len(text) \in 0..Len(text) /\ n < Len(text)
        BY <1>2
      <4>2. Bytes(text, n) + (Len(text) - n) <= Bytes(text, Len(text))
        BY <4>1, <1>2, BytesGrow
      <4>3. Bytes(text, n) \in Nat /\ Bytes(text, Len(text)) \in Nat
        BY <4>1, <1>2, BytesType
      <4> QED BY <4>1, <4>2, <4>3, <1>1, <1>2, <1>3, <1>b
    <3>4. IsPrefix(text, text) /\ n \in 0..Len(text)
      BY <1>2 DEF IsPrefix
    <3> HIDE DEF text
    <3>5. LET content == SubSeq(text, 1, n) \o Marker
          IN  Len(Encode(content)) <= Limit /\ Last(content) = "m" /\ IsPrefix(Front(content), text)
      BY <3>3, <3>4, <1>2, Closed
    <3> QED BY <3>1, <3>2, <3>5, <2>1, <2>3 DEF Faithful, text
  <2> QED BY <2>2, <2>3
<1>4. CASE ~(Len(bytes) <= Limit)
  <2> DEFINE first == SubSeq(bytes, 1, Limit - 1)
             x == Decode(first)
             full == x \o Marker
  <2>1. first \in Seq(Octets) /\ Len(first) = Limit - 1 /\ Limit - 1 \in 0..Len(bytes)
    BY <1>1, <1>4, <1>b
  <2>2. IsPrefix(x, text)
    BY <2>1, <1>1, DecodePrefix
  <2> HIDE DEF first
  <2>3. /\ x \in Seq(Symbols) /\ Len(x) \in Nat /\ Bytes(x, Len(x)) <= Limit - 1
        /\ \A k \in 1..Len(x) : x[k] \notin {"L", "C"}
    <3>1. first \in Seq(Symbols)
      BY <2>1, OctetsAreSymbols
    <3>2. Bytes(x, Len(x)) <= Len(first)
      BY <2>1, DecodeShorter
    <3> QED BY <3>1, <3>2, <2>1, DecodeAt
  <2>4. data = Encode(x) \o Marker
    BY <1>4 DEF Kept, first
  <2> HIDE DEF x, text
  <2>5. /\ full \in Seq(Symbols) /\ Len(full) = Len(x) + 1 /\ full # <<>>
        /\ \A k \in 1..Len(x) : full[k] = x[k]
        /\ full[Len(x) + 1] = "m"
    BY <2>3 DEF Marker, Symbols
  <2>6. \A k \in 1..Len(full) : full[k] \notin {"L", "C"}
    BY <2>3, <2>5
  <2>7. data = Encode(full)
    BY <2>3, <2>4, EncodeMarker
  <2>8. Said(Decode(data)) = full
    <3>1. Decode(Encode(full)) = full
      BY <2>5, <2>6, DecodeEncode
    <3> QED BY <3>1, <2>5, <2>7 DEF Said
  <2>9. \A n \in 0..Len(x) : SubSeq(full, 1, n) = SubSeq(x, 1, n)
    BY <2>3, <2>5
  <2>a. \A n \in 0..Len(x) : Bytes(x, n) + 1 <= Limit
    <3> SUFFICES ASSUME NEW n \in 0..Len(x) PROVE Bytes(x, n) + 1 <= Limit
      OBVIOUS
    <3>1. n < Len(x) => Bytes(x, n) + (Len(x) - n) <= Bytes(x, Len(x))
      BY <2>3, BytesGrow
    <3>2. Bytes(x, n) \in Nat /\ Bytes(x, Len(x)) \in Nat
      BY <2>3, BytesType
    <3> QED BY <3>1, <3>2, <2>3, <1>b
  <2> HIDE DEF full
  <2>b. \E n \in 0..Len(x) : FitFrame(full) = SubSeq(x, 1, n) \o Marker /\ JsonBytes(FitFrame(full)) <= Budget
    <3>1. CASE JsonBytes(full) <= Budget
      <4>1. SubSeq(x, 1, Len(x)) = x
        BY <2>3
      <4>2. FitFrame(full) = full
        BY <3>1 DEF FitFrame
      <4> QED BY <4>1, <4>2, <3>1, <2>3 DEF full
    <3>2. CASE ~(JsonBytes(full) <= Budget)
      <4>1. PICK n \in 0..(Len(full) - 1) : FitFrame(full) = SubSeq(full, 1, n) \o Marker /\ JsonBytes(FitFrame(full)) <= Budget
        BY <3>2, <2>5, FrameFits
      <4>2. n \in 0..Len(x)
        BY <2>3, <2>5
      <4> QED BY <4>1, <4>2, <2>9
    <3> QED BY <3>1, <3>2
  <2>c. PICK n \in 0..Len(x) : FitFrame(full) = SubSeq(x, 1, n) \o Marker /\ JsonBytes(FitFrame(full)) <= Budget
    BY <2>b
  <2>d. LET content == SubSeq(x, 1, n) \o Marker
        IN  Len(Encode(content)) <= Limit /\ Last(content) = "m" /\ IsPrefix(Front(content), text)
    BY <2>2, <2>3, <2>a, <1>2, Closed
  <2> QED BY <2>8, <2>c, <2>d, <1>4 DEF Faithful, text
<1> QED BY <1>3, <1>4

(***************************************************************************)
(* The streams, the descriptors and the end of the worker.                 *)
(***************************************************************************)

ProcType ==
  /\ child \in {"code", "waiting", "leaving", "dead"} /\ status \in {0, 1, 9}
  /\ twin \in {"none", "pipes", "fork", "asking", "gone"} /\ sup \in {"loop", "host", "done", "raised"}
  /\ registered \subseteq {"control", "stdout", "stderr"} /\ terminal \in Terminal \cup {"none"}
  /\ buffer \in Seq(Chars)

StreamType ==
  /\ pipe \in [{"stdout", "stderr"} -> Seq(Octets)] /\ written \in Seq(Octets)
  /\ captured \in [data : Seq(Octets), truncated : BOOLEAN]

\* What was captured and what is in the pipe is what was printed, until it is too long.
CaptureInv ==
  IF captured.truncated
  THEN Len(written) > Limit /\ captured.data = Encode(Decode(SubSeq(written, 1, Limit - 1))) \o Marker
  ELSE written = captured.data \o pipe["stdout"] /\ Len(captured.data) <= Limit

\* A descriptor is given up when nothing can come from it any more.
EndsInv ==
  \A p \in {"control", "stdout", "stderr"} \ registered :
    ~Open(p) /\ (IF p = "control" THEN up = <<>> ELSE pipe[p] = <<>>)

\* A program that ends cleanly has said how it ended, and has flushed what it printed
\* if it fell through.
Told(kinds) == terminal \in kinds \/ \E j \in 1..Len(up) : up[j].kind \in kinds
QuitInv ==
  /\ child \in {"code", "waiting"} => status = 0
  /\ sup # "raised" /\ child \in {"leaving", "dead"} /\ status = 0 /\ buffer # <<>> => Told({"completed", "failed"})

\* How the worker ends.
DoneInv ==
  /\ sup # "done" => result.kind = "none"
  /\ sup \in {"done", "raised"} => child = "dead"
  /\ sup = "done" => registered = {} /\ result = Outcome

\* Each of the two that use the channel has one frame on its way at most.
PendingInv ==
  Len(up) + Len(down) + (IF sup = "host" THEN 1 ELSE 0)
    <= (IF child = "code" THEN 0 ELSE 1) + (IF twin \in {"asking", "gone"} THEN 1 ELSE 0)

\* The host is asked for no more than was asked for.
AskedInv ==
  /\ asked <= MaxBatches /\ Len(requests) <= asked /\ nextId \in 1..(Len(requests) + 1) /\ Len(answers) <= 1
  /\ \A j \in 1..Len(up) : up[j].kind = "tools" => up[j].batch <= asked

WorkerInv == IInv /\ ProcType /\ StreamType /\ CaptureInv /\ EndsInv /\ QuitInv /\ DoneInv /\ PendingInv /\ AskedInv

LEMMA WorkerBegins == Init => WorkerInv
<1> SUFFICES ASSUME Init PROVE WorkerInv
  OBVIOUS
<1>0. IInv
  BY InitInv
<1>1. ProcType /\ DoneInv /\ QuitInv
  BY DEF Init, ProcType, DoneInv, QuitInv
<1>2. StreamType /\ CaptureInv
  BY WorkerAssumption DEF Init, StreamType, CaptureInv, Capture
<1>3. EndsInv /\ PendingInv /\ AskedInv
  BY WorkerAssumption DEF Init, EndsInv, PendingInv, AskedInv
<1> QED BY <1>0, <1>1, <1>2, <1>3 DEF WorkerInv

LEMMA ProcKeeps == ProcType /\ ChannelType /\ [Next]_vars => ProcType'
<1> SUFFICES ASSUME ProcType, ChannelType, [Next]_vars PROVE ProcType'
  OBVIOUS
<1> USE DEF procVars, supVars, hostVars, ProcType
<1>0. CASE Prints
  <2>1. PICK c \in Chars : buffer' = Append(buffer, c)
    BY <1>0 DEF Prints
  <2>2. buffer' \in Seq(Chars)
    BY <2>1
  <2> QED BY <1>0, <2>2 DEF Prints
<1>1. CASE RunTools \/ TakeResults
  BY <1>1 DEF RunTools, TakeResults
<1>9. CASE Flush \/ FallThrough
  <2>1. <<>> \in Seq(Chars)
    OBVIOUS
  <2>2. CASE Flush
    BY <2>1, <2>2 DEF Flush
  <2>3. CASE FallThrough
    BY <2>1, <2>3 DEF FallThrough
  <2> QED BY <1>9, <2>2, <2>3
<1>8. CASE Raises \/ Exit \/ Killed
  BY <1>8 DEF Raises, Exit, Killed
<1>2. CASE LeaveBehind \/ TwinPrints \/ TwinAsks \/ TwinTakes \/ TwinEnds
  BY <1>2 DEF LeaveBehind, TwinPrints, TwinAsks, TwinTakes, TwinEnds
<1>3. ASSUME NEW how \in Terminal, Conclude(how) PROVE ProcType'
  BY <1>3 DEF Conclude
<1>4. CASE ControlEnds \/ ControlTools \/ ControlInvalid \/ HostResponse \/ HostGone \/ Reap
  BY <1>4 DEF ControlEnds, ControlTools, ControlInvalid, HostResponse, HostGone, Reap, RaiseError
<1>5. CASE ControlTerminal
  <2>1. Head(up) \in Frames /\ Head(up).kind # "tools"
    BY <1>5 DEF ControlTerminal, ChannelType
  <2>2. Head(up).kind \in Terminal
    BY <2>1 DEF Frames
  <2> QED BY <1>5, <2>2 DEF ControlTerminal
<1>6. ASSUME NEW p \in {"stdout", "stderr"}, ReadChunk(p) \/ PipeEnds(p) PROVE ProcType'
  BY <1>6 DEF ReadChunk, PipeEnds
<1>7. CASE Answer \/ HostCloses \/ UNCHANGED vars
  BY <1>7 DEF Answer, HostCloses, vars
<1> QED BY <1>0, <1>1, <1>2, <1>3, <1>4, <1>5, <1>6, <1>7, <1>8, <1>9 DEF Next, Program, Supervisor

\* What a step does to the streams.
LEMMA Streams ==
  ProcType /\ [Next]_vars =>
    \/ UNCHANGED <<pipe, written, captured>>
    \/ \E text \in Seq(Chars) : Put(text) /\ UNCHANGED captured /\ Open("stdout")
    \/ pipe' = [pipe EXCEPT !["stderr"] = Append(@, "a")] /\ Open("stderr") /\ UNCHANGED <<written, captured>>
    \/ \E p \in {"stdout", "stderr"} : ReadChunk(p)
<1> SUFFICES ASSUME ProcType, [Next]_vars
             PROVE  \/ UNCHANGED <<pipe, written, captured>>
                    \/ \E text \in Seq(Chars) : Put(text) /\ UNCHANGED captured /\ Open("stdout")
                    \/ pipe' = [pipe EXCEPT !["stderr"] = Append(@, "a")] /\ Open("stderr") /\ UNCHANGED <<written, captured>>
                    \/ \E p \in {"stdout", "stderr"} : ReadChunk(p)
  OBVIOUS
<1> USE DEF procVars, supVars, hostVars
<1>1. CASE Flush \/ FallThrough
  BY <1>1 DEF Flush, FallThrough, ProcType, Open
<1>2. CASE TwinPrints
  <2>1. PICK c \in Chars : Put(<<c>>)
    BY <1>2 DEF TwinPrints
  <2>2. <<c>> \in Seq(Chars) /\ Open("stdout") /\ UNCHANGED captured
    BY <1>2 DEF TwinPrints, Open
  <2> QED BY <2>1, <2>2
<1>3. CASE Raises
  BY <1>3 DEF Raises, Open
<1>4. CASE Prints \/ RunTools \/ TakeResults \/ Exit \/ Killed \/ LeaveBehind \/ TwinAsks \/ TwinTakes \/ TwinEnds
  BY <1>4 DEF Prints, RunTools, TakeResults, Exit, Killed, LeaveBehind, TwinAsks, TwinTakes, TwinEnds
<1>5. ASSUME NEW how \in Terminal, Conclude(how) PROVE UNCHANGED <<pipe, written, captured>>
  BY <1>5 DEF Conclude
<1>6. CASE ControlEnds \/ ControlTools \/ ControlTerminal \/ ControlInvalid \/ HostResponse \/ HostGone \/ Reap
  BY <1>6 DEF ControlEnds, ControlTools, ControlTerminal, ControlInvalid, HostResponse, HostGone, Reap, RaiseError
<1>7. ASSUME NEW p \in {"stdout", "stderr"}, PipeEnds(p) PROVE UNCHANGED <<pipe, written, captured>>
  BY <1>7 DEF PipeEnds
<1>8. CASE Answer \/ HostCloses \/ UNCHANGED vars
  BY <1>8 DEF Answer, HostCloses, vars
<1> QED BY <1>1, <1>2, <1>3, <1>4, <1>5, <1>6, <1>7, <1>8 DEF Next, Program, Supervisor

LEMMA PrintedIs == \A text \in Seq(Chars) : text \in Seq(Symbols) /\ Encode(text) \in Seq(Octets)
<1>1. \A text \in Seq(Chars) : text \in Seq(Symbols)
  BY DEF Symbols
<1> QED BY <1>1, EncodeOctets

LEMMA Joined == \A a, b, c \in Seq(Octets) : (a \o b) \o c = a \o (b \o c)
<1> SUFFICES ASSUME NEW a \in Seq(Octets), NEW b \in Seq(Octets), NEW c \in Seq(Octets) PROVE (a \o b) \o c = a \o (b \o c)
  OBVIOUS
<1> QED BY ConcatAssociative

LEMMA StreamKeeps == ProcType /\ StreamType /\ CaptureInv /\ [Next]_vars => StreamType' /\ CaptureInv'
<1> SUFFICES ASSUME ProcType, StreamType, CaptureInv, [Next]_vars PROVE StreamType' /\ CaptureInv'
  OBVIOUS
<1>b. Limit \in Nat /\ Limit >= 1
  BY WorkerAssumption
<1>m. Marker \in Seq(Octets) /\ Len(Marker) = 1
  BY DEF Marker, Octets, Symbols
<1>1. CASE UNCHANGED <<pipe, written, captured>>
  BY <1>1 DEF StreamType, CaptureInv
<1>2. ASSUME NEW text \in Seq(Chars), Put(text), UNCHANGED captured PROVE StreamType' /\ CaptureInv'
  <2> DEFINE more == Encode(text)
  <2>1. more \in Seq(Octets)
    BY PrintedIs
  <2>2. pipe' = [pipe EXCEPT !["stdout"] = @ \o more] /\ written' = written \o more
    BY <1>2 DEF Put
  <2> HIDE DEF more
  <2>3. StreamType'
    BY <2>1, <2>2, <1>2 DEF StreamType
  <2>4. CASE captured.truncated
    <3>1. Len(written) > Limit /\ captured.data = Encode(Decode(SubSeq(written, 1, Limit - 1))) \o Marker
      BY <2>4 DEF CaptureInv
    <3>2. Len(written') > Limit /\ SubSeq(written', 1, Limit - 1) = SubSeq(written, 1, Limit - 1)
      BY <2>1, <2>2, <3>1, <1>b DEF StreamType
    <3> QED BY <2>3, <2>4, <3>1, <3>2, <1>2 DEF CaptureInv
  <2>5. CASE ~captured.truncated
    <3>1. written = captured.data \o pipe["stdout"] /\ Len(captured.data) <= Limit
      BY <2>5 DEF CaptureInv
    <3>2. captured.data \in Seq(Octets) /\ pipe["stdout"] \in Seq(Octets)
      BY DEF StreamType
    <3>3. pipe'["stdout"] = pipe["stdout"] \o more
      BY <2>2 DEF StreamType
    <3>4. (captured.data \o pipe["stdout"]) \o more = captured.data \o (pipe["stdout"] \o more)
      BY <3>2, <2>1, Joined
    <3>5. written' = captured.data \o pipe'["stdout"]
      BY <2>2, <3>1, <3>3, <3>4
    <3> QED BY <2>3, <2>5, <3>1, <3>5, <1>2 DEF CaptureInv
  <2> QED BY <2>3, <2>4, <2>5
<1>3. ASSUME pipe' = [pipe EXCEPT !["stderr"] = Append(@, "a")], UNCHANGED <<written, captured>> PROVE StreamType' /\ CaptureInv'
  <2>1. "a" \in Octets
    BY DEF Octets, Symbols
  <2>2. pipe'["stdout"] = pipe["stdout"] /\ StreamType'
    BY <1>3, <2>1 DEF StreamType
  <2> QED BY <2>2, <1>3 DEF CaptureInv
<1>4. ASSUME NEW p \in {"stdout", "stderr"}, ReadChunk(p) PROVE StreamType' /\ CaptureInv'
  <2>1. PICK n \in 1..Len(pipe[p]) :
          /\ pipe' = [pipe EXCEPT ![p] = SubSeq(@, n + 1, Len(@))]
          /\ captured' = IF p = "stdout" THEN CaptureAppend(captured, SubSeq(pipe[p], 1, n)) ELSE captured
          /\ UNCHANGED written
    BY <1>4 DEF ReadChunk
  <2> DEFINE chunk == SubSeq(pipe[p], 1, n)
             rest == SubSeq(pipe[p], n + 1, Len(pipe[p]))
  <2>2. /\ chunk \in Seq(Octets) /\ rest \in Seq(Octets) /\ pipe[p] = chunk \o rest
        /\ Len(chunk) \in Nat /\ Len(rest) \in Nat
    <3>1. pipe[p] \in Seq(Octets) /\ n \in 1..Len(pipe[p])
      BY DEF StreamType
    <3> DEFINE s == pipe[p]
    <3> HIDE DEF s
    <3>2. s \in Seq(Octets) /\ n \in 1..Len(s)
      BY <3>1 DEF s
    <3>3. /\ SubSeq(s, 1, n) \in Seq(Octets) /\ SubSeq(s, n + 1, Len(s)) \in Seq(Octets)
          /\ s = SubSeq(s, 1, n) \o SubSeq(s, n + 1, Len(s))
      BY <3>2
    <3> QED BY <3>3 DEF s
  <2>3. pipe' = [pipe EXCEPT ![p] = rest] /\ pipe' \in [{"stdout", "stderr"} -> Seq(Octets)]
    BY <2>1, <2>2 DEF StreamType
  <2> HIDE DEF chunk, rest
  <2>4. CASE p = "stderr"
    <3>1. pipe'["stdout"] = pipe["stdout"] /\ captured' = captured
      BY <2>1, <2>4 DEF StreamType
    <3> QED BY <3>1, <2>1, <2>3 DEF StreamType, CaptureInv
  <2>5. CASE p = "stdout"
    <3>0. /\ captured' = CaptureAppend(captured, chunk) /\ pipe'["stdout"] = rest /\ pipe["stdout"] = chunk \o rest
          /\ captured.data \in Seq(Octets) /\ captured.truncated \in BOOLEAN /\ written \in Seq(Octets)
      BY <2>1, <2>2, <2>3, <2>5 DEF StreamType, chunk
    <3>1. CASE captured.truncated
      <4>1. captured' = captured
        BY <3>0, <3>1 DEF CaptureAppend
      <4> QED BY <4>1, <2>1, <2>3, <3>1 DEF StreamType, CaptureInv
    <3>2. CASE ~captured.truncated
      <4> DEFINE all == captured.data \o chunk
      <4>1. all \in Seq(Octets) /\ Len(all) = Len(captured.data) + Len(chunk) /\ Len(all) \in Nat
        BY <3>0, <2>2
      <4>2. written = all \o rest
        <5>1. written = captured.data \o (chunk \o rest)
          BY <3>0, <3>2 DEF CaptureInv
        <5>2. captured.data \o (chunk \o rest) = (captured.data \o chunk) \o rest
          BY <3>0, <2>2, Joined
        <5> QED BY <5>1, <5>2
      <4>3. CASE Len(all) <= Limit
        <5>1. captured' = [captured EXCEPT !.data = all]
          BY <3>0, <3>2, <4>1, <4>3 DEF CaptureAppend
        <5> HIDE DEF all
        <5>2. captured' \in [data : Seq(Octets), truncated : BOOLEAN] /\ captured'.data = all /\ ~captured'.truncated
          BY <5>1, <4>1, <3>2 DEF StreamType
        <5> QED BY <5>2, <4>2, <4>3, <3>0, <2>1, <2>3 DEF StreamType, CaptureInv
      <4>4. CASE ~(Len(all) <= Limit)
        <5> DEFINE closed == Encode(Decode(SubSeq(all, 1, Limit - 1))) \o Marker
        <5>1. captured' = [data |-> closed, truncated |-> TRUE]
          BY <3>0, <3>2, <4>1, <4>4, <1>m DEF CaptureAppend
        <5> HIDE DEF all
        <5>2. SubSeq(all, 1, Limit - 1) \in Seq(Octets) /\ SubSeq(written', 1, Limit - 1) = SubSeq(all, 1, Limit - 1) /\ Len(written') > Limit
          BY <4>1, <4>2, <4>4, <2>1, <2>2, <1>b
        <5>3. Decode(SubSeq(all, 1, Limit - 1)) \in Seq(Symbols)
          BY <5>2, OctetsAreSymbols, DecodeAt
        <5>4. Encode(Decode(SubSeq(all, 1, Limit - 1))) \in Seq(Octets)
          BY <5>3, EncodeOctets
        <5>5. closed \in Seq(Octets)
          BY <5>4, <1>m
        <5>6. closed = Encode(Decode(SubSeq(written', 1, Limit - 1))) \o Marker
          BY <5>2
        <5> HIDE DEF closed
        <5>7. captured' \in [data : Seq(Octets), truncated : BOOLEAN] /\ captured'.data = closed /\ captured'.truncated
          BY <5>1, <5>5
        <5> QED BY <5>2, <5>6, <5>7, <3>0, <2>1, <2>3 DEF StreamType, CaptureInv
      <4> QED BY <4>3, <4>4
    <3> QED BY <3>0, <3>1, <3>2
  <2> QED BY <2>4, <2>5
<1> QED BY <1>1, <1>2, <1>3, <1>4, Streams

\* Nothing that is closed opens again.
LEMMA StaysClosed == ProcType /\ [Next]_vars => \A p \in {"control", "stdout", "stderr"} : ~Open(p) => ~Open(p)'
<1> SUFFICES ASSUME ProcType, [Next]_vars, NEW p \in {"control", "stdout", "stderr"}, ~Open(p) PROVE ~Open(p)'
  OBVIOUS
<1> USE DEF procVars, supVars, hostVars
<1>0. child = "dead" /\ twin \notin {"fork", "asking"} /\ (p # "control" => twin # "pipes")
  BY DEF Open
<1>1. child' = "dead" /\ (twin' = twin \/ twin' = "gone")
  <2>1. CASE Prints \/ Flush \/ RunTools \/ TakeResults \/ FallThrough \/ Raises \/ Exit \/ Killed \/ LeaveBehind \/ TwinAsks \/ TwinTakes
    BY <1>0, <2>1 DEF Prints, Flush, RunTools, TakeResults, FallThrough, Raises, Exit, Killed, LeaveBehind, TwinAsks, TwinTakes
  <2>2. CASE TwinPrints \/ TwinEnds
    BY <1>0, <2>2 DEF TwinPrints, TwinEnds
  <2>3. ASSUME NEW how \in Terminal, Conclude(how) PROVE FALSE
    BY <1>0, <2>3 DEF Conclude
  <2>4. CASE ControlEnds \/ ControlTools \/ ControlTerminal \/ ControlInvalid \/ HostResponse \/ HostGone \/ Reap
    BY <1>0, <2>4 DEF ControlEnds, ControlTools, ControlTerminal, ControlInvalid, HostResponse, HostGone, Reap, RaiseError
  <2>5. ASSUME NEW q \in {"stdout", "stderr"}, ReadChunk(q) \/ PipeEnds(q) PROVE UNCHANGED <<child, twin>>
    BY <2>5 DEF ReadChunk, PipeEnds
  <2>6. CASE Answer \/ HostCloses \/ UNCHANGED vars
    BY <1>0, <2>6 DEF Answer, HostCloses, vars
  <2> QED BY <1>0, <2>1, <2>2, <2>3, <2>4, <2>5, <2>6 DEF Next, Program, Supervisor
<1> QED BY <1>0, <1>1 DEF Open

\* What a step does to the frames on the way up.
LEMMA Ups ==
  ProcType /\ ChannelType /\ [Next]_vars =>
    \/ UNCHANGED up
    \/ Open("control") /\ \E f \in Frames : up' = Append(up, f)
    \/ up # <<>> /\ up' = Tail(up)
<1> SUFFICES ASSUME ProcType, ChannelType, [Next]_vars
             PROVE  \/ UNCHANGED up
                    \/ Open("control") /\ \E f \in Frames : up' = Append(up, f)
                    \/ up # <<>> /\ up' = Tail(up)
  OBVIOUS
<1> USE DEF procVars, supVars, hostVars
<1>f. /\ \A n \in Nat : [kind |-> "tools", batch |-> n + 1] \in Frames
      /\ \A k \in Terminal : [kind |-> k] \in Frames
      /\ "fallthrough" \in Terminal /\ asked \in Nat
  BY DEF Frames, Terminal, ChannelType
<1>1. CASE RunTools \/ TwinAsks
  <2>1. up' = Append(up, [kind |-> "tools", batch |-> asked + 1]) /\ Open("control")
    BY <1>1 DEF RunTools, TwinAsks, Open
  <2> QED BY <2>1, <1>f
<1>2. CASE FallThrough
  <2>1. up' = Append(up, [kind |-> "fallthrough"]) /\ Open("control")
    BY <1>2 DEF FallThrough, Open
  <2> QED BY <2>1, <1>f
<1>3. ASSUME NEW how \in Terminal, Conclude(how) PROVE Open("control") /\ \E f \in Frames : up' = Append(up, f)
  <2>1. up' = Append(up, [kind |-> how]) /\ Open("control")
    BY <1>3 DEF Conclude, Open
  <2> QED BY <2>1, <1>f
<1>4. CASE TwinEnds
  <2>1. up' = up \/ (Open("control") /\ \E how \in Terminal : up' = Append(up, [kind |-> how]))
    BY <1>4 DEF TwinEnds, Open
  <2> QED BY <2>1, <1>f
<1>5. CASE Prints \/ Flush \/ TakeResults \/ Raises \/ Exit \/ Killed \/ LeaveBehind \/ TwinPrints \/ TwinTakes
  BY <1>5 DEF Prints, Flush, TakeResults, Raises, Exit, Killed, LeaveBehind, TwinPrints, TwinTakes
<1>6. CASE ControlEnds \/ ControlTools \/ ControlTerminal \/ ControlInvalid \/ HostResponse \/ HostGone \/ Reap
  BY <1>6 DEF ControlEnds, ControlTools, ControlTerminal, ControlInvalid, HostResponse, HostGone, Reap
<1>7. ASSUME NEW q \in {"stdout", "stderr"}, ReadChunk(q) \/ PipeEnds(q) PROVE UNCHANGED up
  BY <1>7 DEF ReadChunk, PipeEnds
<1>8. CASE Answer \/ HostCloses \/ UNCHANGED vars
  BY <1>8 DEF Answer, HostCloses, vars
<1> QED BY <1>1, <1>2, <1>3, <1>4, <1>5, <1>6, <1>7, <1>8 DEF Next, Program, Supervisor

\* What a step does to the descriptors: the supervisor gives up one that is at its end.
LEMMA Descriptors ==
  [Next]_vars =>
    \/ UNCHANGED registered
    \/ registered' = registered \ {"control"} /\ up = <<>> /\ ~Open("control") /\ UNCHANGED <<up, pipe>>
    \/ \E p \in {"stdout", "stderr"} : registered' = registered \ {p} /\ pipe[p] = <<>> /\ ~Open(p) /\ UNCHANGED <<up, pipe>>
<1> USE DEF procVars, supVars, hostVars
<1>1. Prints \/ Flush \/ TakeResults \/ Raises \/ Exit \/ Killed \/ LeaveBehind \/ TwinPrints \/ TwinTakes \/ RunTools => UNCHANGED registered
  BY DEF Prints, Flush, TakeResults, Raises, Exit, Killed, LeaveBehind, TwinPrints, TwinTakes, RunTools
<1>2. TwinAsks \/ TwinEnds \/ FallThrough \/ Answer \/ HostCloses \/ UNCHANGED vars => UNCHANGED registered
  BY DEF TwinAsks, TwinEnds, FallThrough, Answer, HostCloses, vars
<1>3. ASSUME NEW how, Conclude(how) PROVE UNCHANGED registered
  BY <1>3 DEF Conclude
<1>4. ControlTools \/ ControlTerminal \/ ControlInvalid \/ HostResponse \/ HostGone \/ Reap => UNCHANGED registered
  BY DEF ControlTools, ControlTerminal, ControlInvalid, HostResponse, HostGone, Reap
<1>5. ControlEnds => registered' = registered \ {"control"} /\ up = <<>> /\ ~Open("control") /\ UNCHANGED <<up, pipe>>
  BY DEF ControlEnds
<1>6. ASSUME NEW p \in {"stdout", "stderr"}, ReadChunk(p) PROVE UNCHANGED registered
  BY <1>6 DEF ReadChunk
<1>7. ASSUME NEW p \in {"stdout", "stderr"}, PipeEnds(p)
      PROVE  registered' = registered \ {p} /\ pipe[p] = <<>> /\ ~Open(p) /\ UNCHANGED <<up, pipe>>
  BY <1>7 DEF PipeEnds
<1> QED BY <1>1, <1>2, <1>3, <1>4, <1>5, <1>6, <1>7 DEF Next, Program, Supervisor

LEMMA EndsKeep == ProcType /\ ChannelType /\ StreamType /\ EndsInv /\ [Next]_vars => EndsInv'
<1> SUFFICES ASSUME ProcType, ChannelType, StreamType, EndsInv, [Next]_vars,
                    NEW p \in {"control", "stdout", "stderr"}, p \notin registered'
             PROVE  ~Open(p)' /\ (IF p = "control" THEN up' = <<>> ELSE pipe'[p] = <<>>)
  BY DEF EndsInv
<1>1. CASE p \notin registered
  <2>1. ~Open(p) /\ (IF p = "control" THEN up = <<>> ELSE pipe[p] = <<>>)
    BY <1>1 DEF EndsInv
  <2>2. ~Open(p)'
    BY <2>1, StaysClosed
  <2>3. CASE p = "control"
    BY <2>1, <2>2, <2>3, Ups
  <2>4. CASE p # "control"
    <3>1. CASE UNCHANGED <<pipe, written, captured>>
      BY <2>1, <2>2, <2>4, <3>1
    <3>2. CASE \E text \in Seq(Chars) : Put(text) /\ UNCHANGED captured /\ Open("stdout")
      <4>1. p = "stderr"
        BY <2>1, <2>4, <3>2
      <4>2. pipe'["stderr"] = pipe["stderr"]
        BY <3>2 DEF Put, StreamType
      <4> QED BY <4>1, <4>2, <2>1, <2>2
    <3>3. CASE pipe' = [pipe EXCEPT !["stderr"] = Append(@, "a")] /\ Open("stderr") /\ UNCHANGED <<written, captured>>
      <4>1. p = "stdout"
        BY <2>1, <2>4, <3>3
      <4>2. pipe'["stdout"] = pipe["stdout"]
        BY <3>3 DEF StreamType
      <4> QED BY <4>1, <4>2, <2>1, <2>2
    <3>4. ASSUME NEW q \in {"stdout", "stderr"}, ReadChunk(q) PROVE pipe'[p] = pipe[p]
      <4>1. q # p
        BY <3>4, <1>1 DEF ReadChunk
      <4> QED BY <4>1, <3>4, <2>4 DEF ReadChunk, StreamType
    <3> QED BY <2>1, <2>2, <2>4, <3>1, <3>2, <3>3, <3>4, Streams
  <2> QED BY <2>3, <2>4
<1>2. CASE p \in registered
  <2>1. ~Open(p) /\ (IF p = "control" THEN up = <<>> ELSE pipe[p] = <<>>) /\ UNCHANGED <<up, pipe>>
    BY <1>2, Descriptors
  <2>2. ~Open(p)'
    BY <2>1, StaysClosed
  <2> QED BY <2>1, <2>2
<1> QED BY <1>1, <1>2

LEMMA ToldKeeps ==
  ASSUME ChannelType, [Next]_vars, sup' # "raised", Told({"completed", "failed"})
  PROVE  Told({"completed", "failed"})'
<1> USE DEF procVars, supVars, hostVars
<1> DEFINE K == {"completed", "failed"}
<1>0. up \in Seq(Frames)
  BY DEF ChannelType
<1>1. ASSUME UNCHANGED terminal, up' = up \/ \E f : up' = Append(up, f) PROVE Told(K)'
  <2>1. CASE up' = up
    BY <1>1, <2>1 DEF Told
  <2>2. ASSUME NEW f, up' = Append(up, f) PROVE Told(K)'
    <3>1. Len(up') = Len(up) + 1 /\ \A j \in 1..Len(up) : up'[j] = up[j]
      BY <2>2, <1>0
    <3>2. 1..Len(up) \subseteq 1..Len(up')
      BY <3>1, <1>0
    <3> QED BY <1>1, <3>1, <3>2 DEF Told
  <2> QED BY <1>1, <2>1, <2>2
<1>2. CASE ControlTools \/ ControlTerminal
  <2>1. up # <<>> /\ up' = Tail(up) /\ terminal = "none"
        /\ ((terminal' = terminal /\ Head(up).kind = "tools") \/ terminal' = Head(up).kind)
    BY <1>2 DEF ControlTools, ControlTerminal
  <2>2. Len(up) \in Nat /\ Len(up) > 0 /\ Len(up') = Len(up) - 1 /\ \A i \in 1..Len(up') : up'[i] = up[i + 1]
    BY <1>0, <2>1
  <2>3. PICK j \in 1..Len(up) : up[j].kind \in K
    BY <2>1 DEF Told
  <2>4. CASE j = 1
    BY <2>1, <2>3, <2>4, <1>0 DEF Told
  <2>5. CASE j # 1
    <3>1. j - 1 \in 1..Len(up') /\ up'[j - 1] = up[j]
      BY <2>2, <2>5
    <3> QED BY <3>1, <2>3 DEF Told
  <2> QED BY <2>4, <2>5
<1>3. CASE Prints \/ Flush \/ TakeResults \/ Raises \/ Exit \/ Killed \/ LeaveBehind \/ TwinPrints \/ TwinTakes
  BY <1>1, <1>3 DEF Prints, Flush, TakeResults, Raises, Exit, Killed, LeaveBehind, TwinPrints, TwinTakes
<1>4. CASE RunTools \/ TwinAsks \/ FallThrough
  BY <1>1, <1>4 DEF RunTools, TwinAsks, FallThrough
<1>5. CASE TwinEnds
  BY <1>1, <1>5 DEF TwinEnds
<1>6. ASSUME NEW how \in Terminal, Conclude(how) PROVE Told(K)'
  BY <1>1, <1>6 DEF Conclude
<1>7. CASE ControlEnds \/ HostResponse \/ Reap
  BY <1>1, <1>7 DEF ControlEnds, HostResponse, Reap
<1>8. ~ControlInvalid /\ ~HostGone
  BY DEF ControlInvalid, HostGone, RaiseError
<1>9. ASSUME NEW p \in {"stdout", "stderr"}, ReadChunk(p) \/ PipeEnds(p) PROVE Told(K)'
  BY <1>1, <1>9 DEF ReadChunk, PipeEnds
<1>10. CASE Answer \/ HostCloses \/ UNCHANGED vars
  BY <1>1, <1>10 DEF Answer, HostCloses, vars
<1> QED BY <1>2, <1>3, <1>4, <1>5, <1>6, <1>7, <1>8, <1>9, <1>10 DEF Next, Program, Supervisor

\* How the program itself may end in a step.
LEMMA Ends ==
  [Next]_vars =>
    \/ /\ UNCHANGED <<child, status>> /\ (buffer' = buffer \/ child = "code") /\ (sup = "raised" => sup' = "raised")
    \/ child' \in {"code", "waiting"} /\ child \in {"code", "waiting"} /\ status' = status
    \/ child = "code" /\ child' = "leaving" /\ (status' = 1 \/ buffer' = <<>>)
    \/ child = "code" /\ status' = status /\ UNCHANGED <<terminal, buffer>> /\ \E k \in {"completed", "failed"} : up' = Append(up, [kind |-> k])
    \/ child = "leaving" /\ child' = "dead" /\ UNCHANGED <<status, buffer, sup>>
    \/ child' = "dead" /\ status' = 9
    \/ child' = "dead" /\ sup' = "raised"
<1> USE DEF procVars, supVars, hostVars
<1>1. CASE Prints \/ Flush \/ RunTools \/ TakeResults
  BY <1>1 DEF Prints, Flush, RunTools, TakeResults
<1>2. CASE FallThrough \/ Raises \/ Exit \/ Killed
  BY <1>2 DEF FallThrough, Raises, Exit, Killed
<1>3. CASE LeaveBehind \/ TwinPrints \/ TwinAsks \/ TwinTakes \/ TwinEnds
  BY <1>3 DEF LeaveBehind, TwinPrints, TwinAsks, TwinTakes, TwinEnds
<1>4. ASSUME NEW how \in Terminal \ {"fallthrough"}, Conclude(how)
      PROVE  child = "code" /\ status' = status /\ UNCHANGED <<terminal, buffer>> /\ \E k \in {"completed", "failed"} : up' = Append(up, [kind |-> k])
  BY <1>4 DEF Conclude, Terminal
<1>5. CASE ControlEnds \/ ControlTools \/ ControlTerminal \/ Reap
  BY <1>5 DEF ControlEnds, ControlTools, ControlTerminal, Reap
<1>6. CASE ControlInvalid \/ HostResponse \/ HostGone
  BY <1>6 DEF ControlInvalid, HostResponse, HostGone, RaiseError
<1>7. ASSUME NEW p \in {"stdout", "stderr"}, ReadChunk(p) \/ PipeEnds(p) PROVE UNCHANGED <<child, status, buffer, sup>>
  BY <1>7 DEF ReadChunk, PipeEnds
<1>8. CASE Answer \/ HostCloses \/ UNCHANGED vars
  BY <1>8 DEF Answer, HostCloses, vars
<1> QED BY <1>1, <1>2, <1>3, <1>4, <1>5, <1>6, <1>7, <1>8 DEF Next, Program, Supervisor

LEMMA QuitKeeps == ProcType /\ ChannelType /\ QuitInv /\ [Next]_vars => QuitInv'
<1> SUFFICES ASSUME ProcType, ChannelType, QuitInv, [Next]_vars PROVE QuitInv'
  OBVIOUS
<1> DEFINE K == {"completed", "failed"}
<1>q. /\ child \in {"code", "waiting"} => status = 0
      /\ sup # "raised" /\ child \in {"leaving", "dead"} /\ status = 0 /\ buffer # <<>> => Told(K)
  BY DEF QuitInv
<1>k. sup' # "raised" /\ Told(K) => Told(K)'
  BY ToldKeeps
<1>s. sup = "raised" => sup' = "raised"
  BY DEF Next, Program, Supervisor, Prints, Flush, RunTools, TakeResults, FallThrough, Raises, Exit, Killed, LeaveBehind, TwinPrints,
         TwinAsks, TwinTakes, TwinEnds, Conclude, ControlEnds, ControlTools, ControlTerminal, ControlInvalid, HostResponse, HostGone,
         Reap, ReadChunk, PipeEnds, Answer, HostCloses, vars, procVars, supVars, hostVars
<1>g. (/\ child' \in {"code", "waiting"} => status' = 0
       /\ sup' # "raised" /\ child' \in {"leaving", "dead"} /\ status' = 0 /\ buffer' # <<>> => Told(K)') => QuitInv'
  BY DEF QuitInv
<1>p. child \in {"code", "waiting", "leaving", "dead"}
  BY DEF ProcType
<1>1. CASE UNCHANGED <<child, status>> /\ (buffer' = buffer \/ child = "code")
  BY <1>1, <1>q, <1>k, <1>s, <1>g
<1>2. CASE child' \in {"code", "waiting"} /\ child \in {"code", "waiting"} /\ status' = status
  BY <1>2, <1>q, <1>g
<1>3. CASE child = "code" /\ child' = "leaving" /\ (status' = 1 \/ buffer' = <<>>)
  BY <1>3, <1>g
<1>4. ASSUME child = "code", status' = status, UNCHANGED <<terminal, buffer>>, NEW k \in {"completed", "failed"}, up' = Append(up, [kind |-> k])
      PROVE  QuitInv'
  <2>1. Len(up') = Len(up) + 1 /\ up'[Len(up) + 1] = [kind |-> k] /\ Len(up) \in Nat
    BY <1>4 DEF ChannelType
  <2>2. Len(up) + 1 \in 1..Len(up') /\ up'[Len(up) + 1].kind \in K
    BY <2>1
  <2>3. Told(K)'
    BY <2>2 DEF Told
  <2> QED BY <2>3, <1>4, <1>q, <1>g
<1>5. CASE child = "leaving" /\ child' = "dead" /\ UNCHANGED <<status, buffer, sup>>
  BY <1>5, <1>q, <1>k, <1>g
<1>6. CASE child' = "dead" /\ (status' = 9 \/ sup' = "raised")
  BY <1>6, <1>g
<1> QED BY <1>1, <1>2, <1>3, <1>4, <1>5, <1>6, Ends

LEMMA DoneKeeps == ProcType /\ DoneInv /\ [Next]_vars => DoneInv'
<1> SUFFICES ASSUME ProcType, DoneInv, [Next]_vars PROVE DoneInv'
  OBVIOUS
<1> USE DEF procVars, supVars, hostVars
<1>s. sup \in {"loop", "host", "done", "raised"}
  BY DEF ProcType
<1>1. ASSUME UNCHANGED <<sup, result, registered, terminal, errors, captured>>, child = "dead" => child' = "dead" /\ status' = status
      PROVE  DoneInv'
  <2>1. sup = "done" => Outcome' = Outcome
    BY <1>1 DEF DoneInv, Outcome
  <2> QED BY <1>1, <2>1 DEF DoneInv
<1>2. ASSUME sup \in {"loop", "host"}, sup' \in {"loop", "host"}, UNCHANGED result PROVE DoneInv'
  BY <1>2 DEF DoneInv
<1>3. ASSUME sup \in {"loop", "host"}, RaiseError, UNCHANGED result PROVE DoneInv'
  BY <1>3 DEF DoneInv, RaiseError
<1>4. CASE Reap
  <2>1. /\ sup = "loop" /\ registered = {} /\ child = "dead" /\ result' = Outcome /\ sup' = "done"
        /\ UNCHANGED <<child, status, registered, captured, errors, terminal>>
    BY <1>4 DEF Reap
  <2>2. Outcome' = Outcome
    BY <2>1 DEF Outcome
  <2> QED BY <2>1, <2>2 DEF DoneInv
<1>5. CASE Prints \/ Flush \/ TakeResults \/ Raises \/ Exit \/ Killed \/ LeaveBehind \/ TwinPrints \/ TwinTakes
  BY <1>1, <1>5 DEF Prints, Flush, TakeResults, Raises, Exit, Killed, LeaveBehind, TwinPrints, TwinTakes
<1>6. CASE RunTools \/ TwinAsks \/ FallThrough \/ TwinEnds
  BY <1>1, <1>6 DEF RunTools, TwinAsks, FallThrough, TwinEnds
<1>7. ASSUME NEW how \in Terminal, Conclude(how) PROVE DoneInv'
  BY <1>1, <1>7 DEF Conclude
<1>8. CASE ControlEnds \/ ControlTools \/ ControlTerminal
  BY <1>2, <1>8 DEF ControlEnds, ControlTools, ControlTerminal
<1>9. CASE ControlInvalid \/ HostResponse \/ HostGone
  BY <1>2, <1>3, <1>9 DEF ControlInvalid, HostResponse, HostGone
<1>10. ASSUME NEW p \in {"stdout", "stderr"}, ReadChunk(p) \/ PipeEnds(p) PROVE DoneInv'
  BY <1>2, <1>10 DEF ReadChunk, PipeEnds
<1>11. CASE Answer \/ HostCloses \/ UNCHANGED vars
  BY <1>1, <1>11 DEF Answer, HostCloses, vars
<1> QED BY <1>4, <1>5, <1>6, <1>7, <1>8, <1>9, <1>10, <1>11 DEF Next, Program, Supervisor

LEMMA PendingKeeps == ProcType /\ ChannelType /\ PendingInv /\ [Next]_vars => PendingInv'
<1> SUFFICES ASSUME ProcType, ChannelType, PendingInv, [Next]_vars PROVE PendingInv'
  OBVIOUS
<1> USE DEF procVars, supVars, hostVars
<1> DEFINE u == Len(up)
           d == Len(down)
           Waits(s) == IF s = "host" THEN 1 ELSE 0
           Child(c) == IF c = "code" THEN 0 ELSE 1
           Twin(t) == IF t \in {"asking", "gone"} THEN 1 ELSE 0
<1>0. /\ u \in Nat /\ d \in Nat /\ u + d + Waits(sup) <= Child(child) + Twin(twin)
      /\ \A s : Waits(s) \in {0, 1} /\ \A c : Child(c) \in {0, 1} /\ \A t : Twin(t) \in {0, 1}
  BY DEF PendingInv, ChannelType
<1>l. /\ \A f : up' = Append(up, f) => u' = u + 1
      /\ \A f : down' = Append(down, f) => d' = d + 1
      /\ up # <<>> /\ up' = Tail(up) => u' = u - 1
      /\ down # <<>> /\ down' = Tail(down) => d' = d - 1
      /\ up' = up => u' = u
      /\ down' = down => d' = d
  BY DEF ChannelType
<1>g. u' + d' + Waits(sup') <= Child(child') + Twin(twin') => PendingInv'
  BY DEF PendingInv
<1> HIDE DEF u, d
<1>1. CASE Prints \/ Flush \/ Raises \/ Exit \/ Killed \/ LeaveBehind \/ TwinPrints
  BY <1>0, <1>l, <1>g, <1>1 DEF Prints, Flush, Raises, Exit, Killed, LeaveBehind, TwinPrints
<1>2. CASE RunTools \/ TakeResults \/ FallThrough
  BY <1>0, <1>l, <1>g, <1>2 DEF RunTools, TakeResults, FallThrough
<1>3. ASSUME NEW how \in Terminal, Conclude(how) PROVE PendingInv'
  BY <1>0, <1>l, <1>g, <1>3 DEF Conclude
<1>4. CASE TwinAsks
  BY <1>0, <1>l, <1>g, <1>4 DEF TwinAsks
<1>9. CASE TwinTakes
  BY <1>0, <1>l, <1>g, <1>9 DEF TwinTakes
<1>10. CASE TwinEnds
  <2>1. /\ UNCHANGED <<child, sup, down>> /\ twin' = "gone" /\ twin \in {"pipes", "fork", "asking"}
        /\ up' = up \/ (twin = "fork" /\ \E how \in Terminal : up' = Append(up, [kind |-> how]))
    BY <1>10 DEF TwinEnds
  <2>2. d' = d /\ Twin(twin') = 1 /\ (u' = u \/ (u' = u + 1 /\ Twin(twin) = 0))
    BY <2>1, <1>l
  <2> QED BY <2>1, <2>2, <1>0, <1>g
<1>5. CASE ControlEnds \/ ControlTools \/ ControlTerminal \/ Reap
  BY <1>0, <1>l, <1>g, <1>5 DEF ControlEnds, ControlTools, ControlTerminal, Reap
<1>6. CASE ControlInvalid \/ HostResponse \/ HostGone
  BY <1>0, <1>l, <1>g, <1>6 DEF ControlInvalid, HostResponse, HostGone, RaiseError
<1>7. ASSUME NEW p \in {"stdout", "stderr"}, ReadChunk(p) \/ PipeEnds(p) PROVE PendingInv'
  BY <1>0, <1>l, <1>g, <1>7 DEF ReadChunk, PipeEnds
<1>8. CASE Answer \/ HostCloses \/ UNCHANGED vars
  BY <1>0, <1>l, <1>g, <1>8 DEF Answer, HostCloses, vars
<1> QED BY <1>1, <1>2, <1>3, <1>4, <1>5, <1>6, <1>7, <1>8, <1>9, <1>10 DEF Next, Program, Supervisor

LEMMA AskedKeeps == IInv /\ ProcType /\ AskedInv /\ [Next]_vars => AskedInv'
<1> SUFFICES ASSUME IInv, ProcType, AskedInv, [Next]_vars PROVE AskedInv'
  OBVIOUS
<1> USE DEF procVars, supVars, hostVars
<1>0. /\ up \in Seq(Frames) /\ requests \in Seq(Requests) /\ answers \in Seq(Requests) /\ asked \in Nat /\ nextId \in Nat /\ MaxBatches \in Nat
  BY WorkerAssumption DEF IInv, ChannelType
<1>a. /\ asked <= MaxBatches /\ Len(requests) <= asked /\ nextId \in 1..(Len(requests) + 1) /\ Len(answers) <= 1
      /\ \A j \in 1..Len(up) : up[j].kind = "tools" => up[j].batch <= asked
  BY DEF AskedInv
<1>1. ASSUME UNCHANGED <<asked, requests, nextId>>, Len(answers') <= 1,
             \/ up' = up
             \/ up # <<>> /\ up' = Tail(up)
             \/ \E k \in Terminal : up' = Append(up, [kind |-> k])
      PROVE  AskedInv'
  <2>1. \A j \in 1..Len(up') : up'[j].kind = "tools" => up'[j].batch <= asked
    <3>1. CASE up' = up
      BY <3>1, <1>a
    <3>2. CASE up # <<>> /\ up' = Tail(up)
      <4>1. \A j \in 1..Len(up') : j + 1 \in 1..Len(up) /\ up'[j] = up[j + 1]
        BY <3>2, <1>0
      <4> QED BY <4>1, <1>a
    <3>3. ASSUME NEW k \in Terminal, up' = Append(up, [kind |-> k]) PROVE \A j \in 1..Len(up') : up'[j].kind = "tools" => up'[j].batch <= asked
      <4>1. \A j \in 1..Len(up') : (j \in 1..Len(up) /\ up'[j] = up[j]) \/ up'[j] = [kind |-> k]
        BY <3>3, <1>0
      <4>2. k # "tools"
        BY DEF Terminal
      <4> QED BY <4>1, <4>2, <1>a
    <3> QED BY <1>1, <3>1, <3>2, <3>3
  <2> QED BY <2>1, <1>1, <1>a DEF AskedInv
<1>2. CASE RunTools \/ TwinAsks
  <2>1. /\ asked < MaxBatches /\ asked' = asked + 1 /\ up' = Append(up, [kind |-> "tools", batch |-> asked + 1])
        /\ UNCHANGED <<requests, nextId, answers>>
    BY <1>2 DEF RunTools, TwinAsks
  <2>2. \A j \in 1..Len(up') : up'[j].kind = "tools" => up'[j].batch <= asked'
    <3>1. \A j \in 1..Len(up') : (j \in 1..Len(up) /\ up'[j] = up[j]) \/ up'[j] = [kind |-> "tools", batch |-> asked + 1]
      BY <2>1, <1>0
    <3>2. ASSUME NEW j \in 1..Len(up), up[j].kind = "tools" PROVE up[j].batch <= asked + 1
      <4>1. up[j].batch <= asked /\ up[j] \in Frames
        BY <3>2, <1>a, <1>0
      <4>2. up[j].batch \in Nat
        BY <4>1, <3>2 DEF Frames, Terminal
      <4> QED BY <4>1, <4>2, <1>0
    <3> QED BY <3>1, <3>2, <2>1, <1>0
  <2> QED BY <2>1, <2>2, <1>0, <1>a DEF AskedInv
<1>3. CASE ControlTools
  <2>1. /\ up # <<>> /\ Head(up).kind = "tools" /\ terminal = "none" /\ sup = "loop" /\ up' = Tail(up)
        /\ requests' = Append(requests, [id |-> nextId, batch |-> Head(up).batch]) /\ UNCHANGED <<asked, nextId, answers>>
    BY <1>3 DEF ControlTools
  <2>2. Len(up) \in Nat /\ 1 \in 1..Len(up) /\ up[1].kind = "tools" /\ Head(up) = up[1]
    BY <2>1, <1>0
  <2>3. up[1].batch = Len(requests) + 1
    BY <2>1, <2>2 DEF IInv, UpInv, ToolsOnly, Serving
  <2>4. Len(requests') = Len(requests) + 1 /\ Len(requests) \in Nat
    BY <2>1, <1>0
  <2>5. Len(requests') <= asked
    BY <2>2, <2>3, <2>4, <1>a
  <2>6. \A j \in 1..Len(up') : j + 1 \in 1..Len(up) /\ up'[j] = up[j + 1]
    BY <2>1, <1>0
  <2> QED BY <2>1, <2>4, <2>5, <2>6, <1>0, <1>a DEF AskedInv
<1>4. CASE HostResponse
  <2>1. answers # <<>> /\ answers' = Tail(answers) /\ sup = "host" /\ (nextId' = nextId \/ nextId' = nextId + 1) /\ UNCHANGED <<asked, requests, up>>
    BY <1>4 DEF HostResponse
  <2>2. Len(answers') <= 1 /\ nextId = Len(requests)
    BY <2>1, <1>0, <1>a DEF IInv, RelayInv
  <2>3. nextId' \in 1..(Len(requests) + 1)
    BY <2>1, <2>2, <1>0, <1>a
  <2> QED BY <2>1, <2>2, <2>3, <1>a DEF AskedInv
<1>5. CASE Prints \/ Flush \/ TakeResults \/ Raises \/ Exit \/ Killed \/ LeaveBehind \/ TwinPrints \/ TwinTakes
  BY <1>1, <1>5, <1>a DEF Prints, Flush, TakeResults, Raises, Exit, Killed, LeaveBehind, TwinPrints, TwinTakes
<1>6. CASE FallThrough
  <2>1. "fallthrough" \in Terminal
    BY DEF Terminal
  <2> QED BY <2>1, <1>1, <1>6, <1>a DEF FallThrough
<1>7. CASE TwinEnds
  BY <1>1, <1>7, <1>a DEF TwinEnds
<1>8. ASSUME NEW how \in Terminal, Conclude(how) PROVE AskedInv'
  BY <1>1, <1>8, <1>a DEF Conclude
<1>9. CASE ControlEnds \/ ControlTerminal \/ ControlInvalid \/ HostGone \/ Reap
  BY <1>1, <1>9, <1>a DEF ControlEnds, ControlTerminal, ControlInvalid, HostGone, Reap
<1>10. ASSUME NEW p \in {"stdout", "stderr"}, ReadChunk(p) \/ PipeEnds(p) PROVE AskedInv'
  BY <1>1, <1>10, <1>a DEF ReadChunk, PipeEnds
<1>11. CASE Answer
  <2>1. answers' = <<Last(requests)>> /\ UNCHANGED <<asked, requests, nextId, up>>
    BY <1>11 DEF Answer
  <2>2. Len(answers') = 1
    BY <2>1
  <2> QED BY <2>1, <2>2, <1>1
<1>12. CASE HostCloses \/ UNCHANGED vars
  BY <1>1, <1>12, <1>a DEF HostCloses, vars
<1> QED BY <1>2, <1>3, <1>4, <1>5, <1>6, <1>7, <1>8, <1>9, <1>10, <1>11, <1>12 DEF Next, Program, Supervisor

LEMMA WorkerKeeps == WorkerInv /\ [Next]_vars => WorkerInv'
<1> SUFFICES ASSUME WorkerInv, [Next]_vars PROVE WorkerInv'
  OBVIOUS
<1>1. IInv /\ ChannelType
  BY DEF WorkerInv, IInv
<1>2. IInv'
  BY <1>1, NextType, NextUp, NextRelay, NextDown DEF IInv
<1> QED BY <1>1, <1>2, ProcKeeps, StreamKeeps, EndsKeep, QuitKeeps, DoneKeeps, PendingKeeps, AskedKeeps DEF WorkerInv

LEMMA WorkerTypes == WorkerInv => TypeOK
<1> SUFFICES ASSUME WorkerInv PROVE TypeOK
  OBVIOUS
<1>1. ProcType /\ StreamType /\ CaptureInv /\ PendingInv /\ AskedInv /\ ChannelType /\ Limit \in Nat /\ Limit >= 1 /\ MaxBatches \in Nat
  BY WorkerAssumption DEF WorkerInv, IInv
<1>2. Len(captured.data) <= Limit
  <2>1. CASE ~captured.truncated
    BY <1>1, <2>1 DEF CaptureInv
  <2>2. CASE captured.truncated
    <3> DEFINE first == SubSeq(written, 1, Limit - 1)
               x == Decode(first)
    <3>1. captured.data = Encode(x) \o Marker /\ Len(written) > Limit /\ written \in Seq(Octets)
      BY <1>1, <2>2 DEF CaptureInv, StreamType
    <3>2. first \in Seq(Octets) /\ Len(first) = Limit - 1
      BY <3>1, <1>1
    <3> HIDE DEF first
    <3>3. x \in Seq(Symbols) /\ Bytes(x, Len(x)) <= Limit - 1
      BY <3>2, OctetsAreSymbols, DecodeAt, DecodeShorter
    <3> HIDE DEF x
    <3>4. Encode(x) \in Seq(Symbols) /\ Len(Encode(x)) = Bytes(x, Len(x))
      BY <3>3, EncodeType
    <3>5. Len(Encode(x) \o Marker) = Bytes(x, Len(x)) + 1 /\ Bytes(x, Len(x)) \in Nat
      BY <3>4 DEF Marker
    <3> QED BY <3>1, <3>3, <3>5, <1>1
  <2> QED BY <2>1, <2>2
<1>3. Len(up) + Len(down) <= 2
  <2>1. Len(up) \in Nat /\ Len(down) \in Nat
    BY <1>1 DEF ChannelType
  <2> QED BY <2>1, <1>1 DEF PendingInv
<1>4. Len(answers) <= 1 /\ nextId \in 1..(MaxBatches + 1)
  <2>1. Len(requests) \in Nat /\ asked \in Nat
    BY <1>1 DEF ChannelType
  <2> QED BY <2>1, <1>1 DEF AskedInv
<1> QED BY <1>1, <1>2, <1>3, <1>4 DEF TypeOK, ProcType

\* When a program that fell through has ended, and all is read, all it printed was captured.
LEMMA WorkerCaught ==
  WorkerInv /\ registered = {} /\ sup = "done" /\ child = "dead" /\ status = 0 /\ terminal = "fallthrough" =>
    buffer = <<>> /\ written \in Seq(Octets) /\ Kept(written, captured.data)
<1> SUFFICES ASSUME WorkerInv, registered = {}, sup = "done", child = "dead", status = 0, terminal = "fallthrough"
             PROVE  buffer = <<>> /\ written \in Seq(Octets) /\ Kept(written, captured.data)
  OBVIOUS
<1>h. /\ ProcType /\ StreamType /\ CaptureInv /\ EndsInv /\ QuitInv
      /\ registered = {} /\ sup = "done" /\ child = "dead" /\ status = 0 /\ terminal = "fallthrough"
  BY DEF WorkerInv
<1>1. up = <<>> /\ pipe["stdout"] = <<>>
  BY <1>h DEF EndsInv
<1>2. ~Told({"completed", "failed"})
  <2>1. Len(up) = 0
    BY <1>1
  <2>2. 1..Len(up) = {}
    BY <2>1
  <2>3. terminal \notin {"completed", "failed"}
    BY <1>h
  <2> QED BY <2>2, <2>3 DEF Told
<1>3. buffer = <<>>
  BY <1>2, <1>h DEF QuitInv
<1>5. written \in Seq(Octets) /\ captured.data \in Seq(Octets)
  BY <1>h DEF StreamType
<1>6. Kept(written, captured.data)
  <2>1. CASE captured.truncated
    <3>1. /\ Len(written) > Limit
          /\ captured.data = Encode(Decode(SubSeq(written, 1, Limit - 1))) \o Marker
      BY <2>1, <1>h DEF CaptureInv
    <3>2. Len(written) \in Nat /\ Limit \in Nat
      BY <1>5, WorkerAssumption
    <3>3. ~(Len(written) <= Limit)
      BY <3>1, <3>2
    <3> QED BY <3>1, <3>3 DEF Kept
  <2>2. CASE ~captured.truncated
    <3>1. written = captured.data \o <<>> /\ Len(captured.data) <= Limit
      BY <2>2, <1>1, <1>h DEF CaptureInv
    <3>2. captured.data \o <<>> = captured.data
      <4> DEFINE s == captured.data
      <4>1. s \in Seq(Octets)
        BY <1>5
      <4> HIDE DEF s
      <4>2. s \o <<>> = s
        BY <4>1
      <4> QED BY <4>2 DEF s
    <3> QED BY <3>1, <3>2 DEF Kept
  <2> QED BY <2>1, <2>2
<1> QED BY <1>3, <1>5, <1>6

LEMMA WorkerTells == WorkerInv => OutputArrivesWhole
<1> SUFFICES ASSUME WorkerInv, sup = "done", result.kind # "exit 1"
             PROVE  /\ status = 0 /\ terminal # "none"
                    /\ terminal = "fallthrough" => buffer = <<>> /\ Faithful(written, result.content)
  BY DEF OutputArrivesWhole, Faithful
<1>1. registered = {} /\ child = "dead" /\ result = Outcome
  BY DEF WorkerInv, DoneInv
<1>2. status = 0 /\ terminal # "none"
  BY <1>1 DEF Outcome
<1>3. ASSUME terminal = "fallthrough" PROVE buffer = <<>> /\ Faithful(written, result.content)
  <2>1. buffer = <<>> /\ written \in Seq(Octets) /\ Kept(written, captured.data)
    BY <1>1, <1>2, <1>3, WorkerCaught
  <2>2. result.content = FitFrame(Said(Decode(captured.data)))
    BY <1>1, <1>2, <1>3 DEF Outcome
  <2> QED BY <2>1, <2>2, KeptIsTold
<1> QED BY <1>2, <1>3

\* For any program, any limits of the captures and of the frames: what the host is told has
\* happened. A completion is of a program that ended cleanly; the output of one that ran to its
\* end is all that was printed, or a prefix of whole characters and the marker, however it was
\* cut into chunks; and a worker that ends leaves no program behind (serve_once, run_child).
THEOREM TheResultsAreTrue == Spec => []ResultsAreTrue
<1>1. WorkerInv => ResultsAreTrue
  <2> SUFFICES ASSUME WorkerInv PROVE ResultsAreTrue
    OBVIOUS
  <2>1. NothingOutlivesTheWorker
    BY DEF WorkerInv, DoneInv, NothingOutlivesTheWorker
  <2> QED BY <2>1, WorkerTypes, WorkerTells DEF ResultsAreTrue
<1> QED BY <1>1, WorkerBegins, WorkerKeeps, PTL DEF Spec

(***************************************************************************)
(* The practice sessions of the service: a segment is scored once.         *)
(***************************************************************************)

CallStages == {"idle", "saves", "opens", "numbers", "cuts", "restores", "rereads", "registers", "takes", "practices", "steps",
           "sends", "acks", "stops", "recalls", "done", "failed"}

\* What a request has in mind at its stage.
Mindful(r) ==
  /\ request[r].pc \in {"cuts", "steps"} => request[r].sent < Parts
  /\ request[r].pc \in {"takes", "practices", "steps"} => request[r].op = "score"
  /\ request[r].pc \in {"restores", "rereads"} => request[r].op = "previous"
  /\ request[r].uses # 0 => request[r].uses \in DOMAIN segments
  /\ request[r].pc = "takes" => request[r].uses # 0 /\ request[r].kind = segments[request[r].uses]
  /\ request[r].uses # 0 /\ request[r].pc # "takes" => request[r].uses \notin open

LibraryInv == Library!TypeOK /\ (\A r \in Calls : Mindful(r)) /\ Library!OnlyLatestIsOpen /\ Library!ScoreGoesOnOnce /\ Library!ContestGoesOn

\* A request at another stage; one that has read a text there; one that has a segment.
RowPlaced(x, pc) == [x EXCEPT !.pc = pc]
CallMoved(x, op, k, pc, t) == [x EXCEPT !.op = op, !.kind = k, !.pc = pc, !.text = t.text, !.sent = t.sent]
CallAnswered(x, op, k, pc, t, n) == [x EXCEPT !.op = op, !.kind = k, !.pc = pc, !.text = t.text, !.sent = t.sent, !.segment = n]

SessionRows == [status : {"none", "active", "stopped"}, text : Nat, sent : 0..Parts, last : Calls \cup {NoMessage}]

LEMMA LibraryBegins == Library!TypingLibraryAssumption /\ Library!Init => LibraryInv
<1> SUFFICES ASSUME Library!TypingLibraryAssumption, Library!Init PROVE LibraryInv
  OBVIOUS
<1>1. Library!TypeOK
  <2>1. row \in [Library!Kinds -> SessionRows]
    BY DEF Library!Init, SessionRows, Library!TypingLibraryAssumption
  <2>2. order \subseteq Library!Kinds \X Library!Kinds
    BY DEF Library!Init, Library!Kinds
  <2>3. request \in [Calls -> Library!RequestType]
    BY DEF Library!Init, Library!RequestType, Library!Kinds, Library!TypingLibraryAssumption
  <2>4. previous \in Library!Texts
    BY DEF Library!Init, Library!NoText, Library!Texts, Library!TypingLibraryAssumption
  <2> QED BY <2>1, <2>2, <2>3, <2>4 DEF Library!Init, Library!TypeOK, SessionRows
<1>2. \A r \in Calls : request[r].pc = "idle" /\ request[r].uses = 0
  BY DEF Library!Init
<1>3. \A r \in Calls : Mindful(r)
  BY <1>2 DEF Mindful
<1> QED BY <1>1, <1>2, <1>3 DEF LibraryInv, Library!OnlyLatestIsOpen, Library!ScoreGoesOnOnce, Library!ContestGoesOn, Library!Init

LEMMA Placing ==
  ASSUME NEW x \in Library!RequestType, NEW pc \in CallStages
  PROVE  /\ RowPlaced(x, pc) \in Library!RequestType /\ RowPlaced(x, pc).pc = pc /\ RowPlaced(x, pc).op = x.op /\ RowPlaced(x, pc).uses = x.uses
         /\ RowPlaced(x, pc).kind = x.kind /\ RowPlaced(x, pc).sent = x.sent
<1>1. RowPlaced(x, pc) \in Library!RequestType
  BY DEF RowPlaced, Library!RequestType, CallStages
<1>2. /\ RowPlaced(x, pc).pc = pc /\ RowPlaced(x, pc).op = x.op /\ RowPlaced(x, pc).uses = x.uses
      /\ RowPlaced(x, pc).kind = x.kind /\ RowPlaced(x, pc).sent = x.sent
  BY DEF RowPlaced, Library!RequestType
<1> QED BY <1>1, <1>2

\* What a request is about.
CallKinds == Operations \cup {"none"}

LEMMA Moving ==
  ASSUME NEW x \in Library!RequestType, NEW op \in CallKinds, NEW k \in Library!Kinds, NEW pc \in CallStages, NEW t \in Library!Texts
  PROVE  /\ CallMoved(x, op, k, pc, t) \in Library!RequestType /\ CallMoved(x, op, k, pc, t).pc = pc /\ CallMoved(x, op, k, pc, t).op = op
         /\ CallMoved(x, op, k, pc, t).uses = x.uses /\ CallMoved(x, op, k, pc, t).sent = t.sent /\ CallMoved(x, op, k, pc, t).kind = k
<1>0. t.text \in Nat /\ t.sent \in 0..Parts
  BY DEF Library!Texts
<1>1. CallMoved(x, op, k, pc, t) \in Library!RequestType
  BY <1>0 DEF CallMoved, Library!RequestType, CallStages, CallKinds
<1>2. /\ CallMoved(x, op, k, pc, t).pc = pc /\ CallMoved(x, op, k, pc, t).op = op
      /\ CallMoved(x, op, k, pc, t).uses = x.uses
  BY DEF CallMoved, Library!RequestType
<1>3. CallMoved(x, op, k, pc, t).sent = t.sent /\ CallMoved(x, op, k, pc, t).kind = k
  BY DEF CallMoved, Library!RequestType
<1> QED BY <1>1, <1>2, <1>3

LEMMA Answering ==
  ASSUME NEW x \in Library!RequestType, NEW op \in Operations \cup {"none"}, NEW k \in Library!Kinds, NEW pc \in CallStages, NEW t \in Library!Texts, NEW n \in Nat
  PROVE  /\ CallAnswered(x, op, k, pc, t, n) \in Library!RequestType /\ CallAnswered(x, op, k, pc, t, n).pc = pc /\ CallAnswered(x, op, k, pc, t, n).op = op
         /\ CallAnswered(x, op, k, pc, t, n).uses = x.uses
<1>0. t.text \in Nat /\ t.sent \in 0..Parts
  BY DEF Library!Texts
<1>1. CallAnswered(x, op, k, pc, t, n) \in Library!RequestType
  BY <1>0 DEF CallAnswered, Library!RequestType, CallStages
<1>2. /\ CallAnswered(x, op, k, pc, t, n).pc = pc /\ CallAnswered(x, op, k, pc, t, n).op = op
      /\ CallAnswered(x, op, k, pc, t, n).uses = x.uses
  BY DEF CallAnswered, Library!RequestType
<1> QED BY <1>1, <1>2

\* What is known of the rows.
LEMMA RowsAre ==
  ASSUME Library!TypeOK, Library!TypingLibraryAssumption
  PROVE  /\ row \in [Library!Kinds -> SessionRows] /\ \A k \in Library!Kinds : row[k] \in SessionRows /\ Library!Of(row[k]) \in Library!Texts /\ Library!Of(row[k]).sent = row[k].sent
         /\ \A t \in Nat : Library!New(t) \in SessionRows /\ Library!Begun(t) \in Library!Texts
         /\ Library!NoText \in Library!Texts /\ previous \in Library!Texts
         /\ \A x \in Library!RequestType : Library!Of(x) \in Library!Texts
         /\ {"article", "single", "contest"} = Library!Kinds /\ Parts \in Nat \ {0}
<1>1. row \in [Library!Kinds -> SessionRows] /\ previous \in Library!Texts /\ Parts \in Nat \ {0}
  BY DEF Library!TypeOK, SessionRows, Library!TypingLibraryAssumption
<1>2. \A k \in Library!Kinds : row[k] \in SessionRows /\ Library!Of(row[k]) \in Library!Texts /\ Library!Of(row[k]).sent = row[k].sent
  BY <1>1 DEF SessionRows, Library!Of, Library!Texts
<1>3. \A t \in Nat : Library!New(t) \in SessionRows /\ Library!Begun(t) \in Library!Texts
  BY <1>1 DEF Library!New, Library!Begun, SessionRows, Library!Texts
<1>4. Library!NoText \in Library!Texts
  BY <1>1 DEF Library!NoText, Library!Texts
<1>5. \A x \in Library!RequestType : Library!Of(x) \in Library!Texts
  BY DEF Library!Of, Library!RequestType, Library!Texts
<1> QED BY <1>1, <1>2, <1>3, <1>4, <1>5 DEF Library!Kinds

LEMMA Touched ==
  ASSUME Library!TypeOK, NEW k \in Library!Kinds, Library!Touch(k)
  PROVE  order' \subseteq Library!Kinds \X Library!Kinds /\ aged' \subseteq Library!Kinds
BY DEF Library!TypeOK, Library!Touch

\* The tables are well-formed after the step.
Tables == /\ row \in [Library!Kinds -> SessionRows] /\ order \subseteq Library!Kinds \X Library!Kinds /\ aged \subseteq Library!Kinds /\ previous \in Library!Texts
          /\ numbered \subseteq Library!Kinds /\ texts \in Nat /\ posts \in Seq(Calls) /\ stale \subseteq Calls

\* What a request must remember when it comes to this stage.
SoundRow(q) ==
  /\ q.pc \in {"cuts", "steps"} => q.sent < Parts
  /\ q.pc \in {"takes", "practices", "steps"} => q.op = "score"
  /\ q.pc \in {"restores", "rereads"} => q.op = "previous"
  /\ q.pc = "takes" => q.uses # 0 /\ q.uses \in DOMAIN segments /\ q.kind = segments[q.uses]

LEMMA Calm ==
  ASSUME LibraryInv, NEW r \in Calls, NEW q \in Library!RequestType, request' = [request EXCEPT ![r] = q], Tables', UNCHANGED <<segments, open>>,
         SoundRow(q), q.pc # "takes" => q.uses = 0 \/ (q.uses = request[r].uses /\ request[r].pc # "takes")
  PROVE  LibraryInv'
<1>1. Library!TypeOK /\ (\A u \in Calls : Mindful(u)) /\ Library!OnlyLatestIsOpen /\ Library!ScoreGoesOnOnce /\ Library!ContestGoesOn
  BY DEF LibraryInv
<1>2. request \in [Calls -> Library!RequestType]
  BY <1>1 DEF Library!TypeOK
<1>3. request' \in [Calls -> Library!RequestType] /\ request'[r] = q /\ \A u \in Calls \ {r} : request'[u] = request[u]
  BY <1>2
<1>4. Library!TypeOK'
  BY <1>1, <1>3 DEF Library!TypeOK, Tables, SessionRows
<1>5. ASSUME NEW u \in Calls PROVE Mindful(u)'
  <2>1. CASE u = r
    BY <1>1, <1>3, <2>1 DEF Mindful, SoundRow
  <2>2. CASE u # r
    BY <1>1, <1>3, <2>2 DEF Mindful
  <2> QED BY <2>1, <2>2
<1>6. Library!OnlyLatestIsOpen' /\ Library!ContestGoesOn'
  BY <1>1 DEF Library!OnlyLatestIsOpen, Library!ContestGoesOn
<1>7. Library!ScoreGoesOnOnce'
  <2>1. \A u \in Calls : request'[u].uses # 0 => request'[u].pc = "takes" \/ (request'[u].uses = request[u].uses /\ request[u].pc # "takes")
    BY <1>3 
  <2> QED BY <1>1, <2>1 DEF Library!ScoreGoesOnOnce
<1> QED BY <1>4, <1>5, <1>6, <1>7 DEF LibraryInv

LEMMA Numbering ==
  ASSUME LibraryInv, NEW r \in Calls, NEW q \in Library!RequestType, request' = [request EXCEPT ![r] = q], Tables', NEW k \in Library!Kinds, Library!Number(k),
         q.pc \in {"sends", "recalls"}, q.uses = request[r].uses,
         request[r].pc = "takes" => request[r].uses \in open /\ request[r].kind = k
  PROVE  LibraryInv'
<1>1. Library!TypeOK /\ (\A u \in Calls : Mindful(u)) /\ Library!OnlyLatestIsOpen /\ Library!ScoreGoesOnOnce /\ Library!ContestGoesOn
  BY DEF LibraryInv
<1>2. request \in [Calls -> Library!RequestType] /\ segments \in Seq(Library!Kinds) /\ open \subseteq DOMAIN segments
  BY <1>1 DEF Library!TypeOK
<1>3. request' \in [Calls -> Library!RequestType] /\ request'[r] = q /\ \A u \in Calls \ {r} : request'[u] = request[u]
  BY <1>2
<1> DEFINE n == Len(segments)
<1>4. /\ n \in Nat /\ DOMAIN segments = 1..n /\ segments' \in Seq(Library!Kinds) /\ DOMAIN segments' = 1..(n + 1)
      /\ segments'[n + 1] = k /\ \A s \in 1..n : segments'[s] = segments[s]
      /\ open' = {s \in open : segments[s] # k} \cup {n + 1}
  BY <1>2 DEF Library!Number, Library!Opened
<1> HIDE DEF n
<1>5. Library!TypeOK'
  BY <1>2, <1>3, <1>4 DEF Library!TypeOK, Tables, SessionRows
<1>6. ASSUME NEW u \in Calls PROVE Mindful(u)'
  <2>1. request[u].uses # 0 => request[u].uses \in 1..n
    BY <1>1, <1>4 DEF Mindful
  <2>2. CASE u = r
    <3>1. request[r].uses # 0 => request[r].uses \notin open'
      BY <1>1, <1>2, <1>4, <2>1, <2>2 DEF Mindful
    <3> QED BY <1>3, <1>4, <2>1, <2>2, <3>1 DEF Mindful
  <2>3. CASE u # r
    BY <1>1, <1>2, <1>3, <1>4, <2>1, <2>3 DEF Mindful
  <2> QED BY <2>2, <2>3
<1>7. Library!OnlyLatestIsOpen'
  BY <1>1, <1>2, <1>4 DEF Library!OnlyLatestIsOpen
<1>8. Library!ContestGoesOn'
  <2> SUFFICES ASSUME NEW s \in 1..(n + 1), segments'[s] = "contest", s \notin open'
               PROVE  \E t \in 1..(n + 1) : t > s /\ segments'[t] = "contest"
    BY <1>4 DEF Library!ContestGoesOn
  <2>1. s \in 1..n /\ segments[s] = "contest"
    BY <1>4
  <2>2. CASE s \in open
    <3>1. k = "contest"
      BY <1>4, <2>1, <2>2
    <3> QED BY <1>4, <2>1, <3>1
  <2>3. CASE s \notin open
    <3>1. PICK t \in 1..n : t > s /\ segments[t] = "contest"
      BY <1>1, <1>4, <2>1, <2>3 DEF Library!ContestGoesOn
    <3> QED BY <1>4, <2>1, <3>1
  <2> QED BY <2>2, <2>3
<1>9. Library!ScoreGoesOnOnce'
  <2> SUFFICES ASSUME NEW u \in Calls, NEW v \in Calls, u # v, request'[u].uses # 0, request'[u].uses = request'[v].uses
               PROVE  "takes" \in {request'[u].pc, request'[v].pc}
    BY DEF Library!ScoreGoesOnOnce
  <2>1. request[u].uses # 0 /\ request[u].uses = request[v].uses /\ "takes" \in {request[u].pc, request[v].pc}
    BY <1>1, <1>3 DEF Library!ScoreGoesOnOnce
  <2>2. CASE request[r].pc # "takes" \/ r \notin {u, v}
    BY <1>3, <2>1, <2>2
  <2>3. CASE request[r].pc = "takes" /\ r \in {u, v}
    <3>1. request[u].uses \in open /\ request[v].uses \in open
      BY <2>1, <2>3
    <3>2. request[u].pc = "takes" /\ request[v].pc = "takes"
      BY <1>1, <2>1, <3>1 DEF Mindful
    <3> QED BY <1>3, <3>2
  <2> QED BY <2>2, <2>3
<1> QED BY <1>5, <1>6, <1>7, <1>8, <1>9 DEF LibraryInv

LEMMA Taking ==
  ASSUME LibraryInv, NEW r \in Calls, NEW q \in Library!RequestType, request' = [request EXCEPT ![r] = q], Tables', UNCHANGED segments,
         request[r].pc = "takes", request[r].uses \in open, request[r].kind = "article", open' = open \ {request[r].uses}, q.pc = "numbers", q.uses = request[r].uses
  PROVE  LibraryInv'
<1>1. Library!TypeOK /\ (\A u \in Calls : Mindful(u)) /\ Library!OnlyLatestIsOpen /\ Library!ScoreGoesOnOnce /\ Library!ContestGoesOn
  BY DEF LibraryInv
<1>2. request \in [Calls -> Library!RequestType]
  BY <1>1 DEF Library!TypeOK
<1>3. request' \in [Calls -> Library!RequestType] /\ request'[r] = q /\ \A u \in Calls \ {r} : request'[u] = request[u]
  BY <1>2
<1>4. Library!TypeOK'
  BY <1>1, <1>3 DEF Library!TypeOK, Tables, SessionRows
<1>5. segments[request[r].uses] = "article" /\ request[r].uses # 0
  BY <1>1 DEF Mindful
<1>6. ASSUME NEW u \in Calls PROVE Mindful(u)'
  BY <1>1, <1>3 DEF Mindful
<1>7. Library!OnlyLatestIsOpen' /\ Library!ContestGoesOn'
  BY <1>1, <1>5 DEF Library!OnlyLatestIsOpen, Library!ContestGoesOn
<1>8. Library!ScoreGoesOnOnce'
  <2> SUFFICES ASSUME NEW u \in Calls, NEW v \in Calls, u # v, request'[u].uses # 0, request'[u].uses = request'[v].uses
               PROVE  "takes" \in {request'[u].pc, request'[v].pc}
    BY DEF Library!ScoreGoesOnOnce
  <2>1. request[u].uses # 0 /\ request[u].uses = request[v].uses /\ "takes" \in {request[u].pc, request[v].pc}
    BY <1>1, <1>3 DEF Library!ScoreGoesOnOnce
  <2>2. CASE r \notin {u, v}
    BY <1>3, <2>1, <2>2
  <2>3. CASE r \in {u, v}
    <3>1. request[u].uses \in open /\ request[v].uses \in open
      BY <2>1, <2>3
    <3>2. request[u].pc = "takes" /\ request[v].pc = "takes"
      BY <1>1, <2>1, <3>1 DEF Mindful
    <3> QED BY <1>3, <3>2
  <2> QED BY <2>2, <2>3
<1> QED BY <1>4, <1>6, <1>7, <1>8 DEF LibraryInv

LEMMA LibraryFacts ==
  ASSUME Library!TypingLibraryAssumption, LibraryInv
  PROVE  /\ Library!TypeOK /\ Tables /\ request \in [Calls -> Library!RequestType] /\ segments \in Seq(Library!Kinds) /\ Len(segments) + 1 \in Nat
         /\ \A r \in Calls : /\ request[r] \in Library!RequestType /\ Mindful(r) /\ request[r].op \in Operations \cup {"none"} /\ request[r].kind \in Library!Kinds
                             /\ request[r].sent \in 0..Parts /\ request[r].text \in Nat /\ request[r].uses \in Nat /\ Library!Of(request[r]) \in Library!Texts
<1>1. Library!TypeOK /\ \A r \in Calls : Mindful(r)
  BY DEF LibraryInv
<1>2. request \in [Calls -> Library!RequestType] /\ segments \in Seq(Library!Kinds) /\ Len(segments) + 1 \in Nat
  BY <1>1 DEF Library!TypeOK
<1>3. \A x \in Library!RequestType : x.op \in Operations \cup {"none"} /\ x.kind \in Library!Kinds /\ x.sent \in 0..Parts /\ x.text \in Nat /\ x.uses \in Nat
  BY DEF Library!RequestType
<1>4. \A x \in Library!RequestType : Library!Of(x) \in Library!Texts
  BY <1>1, RowsAre
<1>5. Tables
  BY <1>1 DEF Library!TypeOK, Tables, SessionRows
<1> QED BY <1>1, <1>2, <1>3, <1>4, <1>5

\* A request that only reads goes to another stage.
LEMMA CallGoes ==
  ASSUME Library!TypingLibraryAssumption, LibraryInv, NEW r \in Calls, request[r].pc # "takes", Tables', UNCHANGED <<segments, open>>, NEW pc \in CallStages, Library!Go(r, pc),
         pc \in {"cuts", "steps"} => request[r].sent < Parts, pc \in {"practices", "steps"} => request[r].op = "score",
         pc \in {"restores", "rereads"} => request[r].op = "previous", pc # "takes"
  PROVE  LibraryInv'
<1>0. request[r] \in Library!RequestType
  BY LibraryFacts
<1> DEFINE q == RowPlaced(request[r], pc)
<1>1. request' = [request EXCEPT ![r] = q]
  BY DEF Library!Go, RowPlaced
<1>2. /\ q \in Library!RequestType /\ q.pc = pc /\ q.op = request[r].op /\ q.uses = request[r].uses /\ q.kind = request[r].kind /\ q.sent = request[r].sent
  BY <1>0, Placing
<1> HIDE DEF q
<1>3. SoundRow(q)
  BY <1>2 DEF SoundRow
<1> QED BY <1>1, <1>2, <1>3, Calm

LEMMA CallGoesWith ==
  ASSUME Library!TypingLibraryAssumption, LibraryInv, NEW r \in Calls, request[r].pc # "takes", Tables', UNCHANGED <<segments, open>>,
         NEW op \in Operations \cup {"none"}, NEW k \in Library!Kinds, NEW pc \in CallStages, NEW t \in Library!Texts, Library!GoWith(r, op, k, pc, t),
         pc \in {"cuts", "steps"} => t.sent < Parts, pc \in {"practices", "steps"} => op = "score",
         pc \in {"restores", "rereads"} => op = "previous", pc # "takes"
  PROVE  LibraryInv'
<1>0. request[r] \in Library!RequestType
  BY LibraryFacts
<1> DEFINE q == CallMoved(request[r], op, k, pc, t)
<1>1. request' = [request EXCEPT ![r] = q]
  BY DEF Library!GoWith, CallMoved
<1>2. /\ q \in Library!RequestType /\ q.pc = pc /\ q.op = op /\ q.uses = request[r].uses /\ q.kind = k /\ q.sent = t.sent
  <2>1. PICK x \in Library!RequestType : x = request[r]
    BY <1>0
  <2>2. /\ CallMoved(x, op, k, pc, t) \in Library!RequestType /\ CallMoved(x, op, k, pc, t).pc = pc /\ CallMoved(x, op, k, pc, t).op = op
        /\ CallMoved(x, op, k, pc, t).uses = x.uses /\ CallMoved(x, op, k, pc, t).kind = k /\ CallMoved(x, op, k, pc, t).sent = t.sent
    <3>1. op \in CallKinds
      BY DEF CallKinds
    <3> QED BY <3>1, Moving
  <2> QED BY <2>1, <2>2
<1> HIDE DEF q
<1>3. SoundRow(q)
  BY <1>2 DEF SoundRow
<1> QED BY <1>1, <1>2, <1>3, Calm

LEMMA CallAnswers ==
  ASSUME Library!TypingLibraryAssumption, LibraryInv, NEW r \in Calls, Tables', NEW op \in Operations \cup {"none"}, NEW k \in Library!Kinds,
         NEW pc \in {"sends", "recalls"}, NEW t \in Library!Texts, Library!Answer(r, op, k, pc, t), Library!Number(k),
         request[r].pc = "takes" => request[r].uses \in open /\ request[r].kind = k
  PROVE  LibraryInv'
<1>0. request[r] \in Library!RequestType /\ Len(segments) + 1 \in Nat /\ pc \in CallStages
  BY LibraryFacts DEF CallStages
<1> DEFINE q == CallAnswered(request[r], op, k, pc, t, Len(segments) + 1)
<1>1. request' = [request EXCEPT ![r] = q]
  BY DEF Library!Answer, CallAnswered
<1>2. /\ q \in Library!RequestType /\ q.pc = pc /\ q.uses = request[r].uses
  BY <1>0, Answering
<1> HIDE DEF q
<1> QED BY <1>1, <1>2, Numbering

LEMMA StoppedRow == \A k \in Library!Kinds : row[k] \in SessionRows => Library!Stopped(k) \in SessionRows /\ [row[k] EXCEPT !.status = "stopped"] \in SessionRows
<1>1. \A x \in SessionRows : [x EXCEPT !.status = "stopped"] \in SessionRows
  BY DEF SessionRows
<1> QED BY <1>1 DEF Library!Stopped

LEMMA ArticleSteps ==
  ASSUME Library!TypingLibraryAssumption, LibraryInv, NEW r \in Calls,
         Library!Start(r) \/ Library!Continue(r) \/ Library!ReadSaved(r) \/ Library!OpenArticle(r) \/ Library!NumberArticle(r) \/ Library!Same(r) \/ Library!Cut(r) \/ Library!Restore(r) \/ Library!Reread(r)
  PROVE  LibraryInv'
<1>0. /\ Tables /\ request[r] \in Library!RequestType /\ Mindful(r) /\ request[r].op \in Operations \cup {"none"} /\ request[r].sent \in 0..Parts /\ request[r].text \in Nat
      /\ Library!Of(request[r]) \in Library!Texts
  BY LibraryFacts
<1>1. /\ row \in [Library!Kinds -> SessionRows] /\ \A k \in Library!Kinds : row[k] \in SessionRows /\ Library!Of(row[k]) \in Library!Texts /\ Library!Of(row[k]).sent = row[k].sent
      /\ \A t \in Nat : Library!New(t) \in SessionRows /\ Library!Begun(t) \in Library!Texts
      /\ Library!NoText \in Library!Texts /\ previous \in Library!Texts /\ "article" \in Library!Kinds /\ "single" \in Library!Kinds
  BY LibraryFacts, RowsAre
<1>2. {"saves", "opens", "numbers", "cuts", "restores", "rereads", "sends", "recalls", "done"} \subseteq CallStages
  BY DEF CallStages
<1>r. Library!Reads => Tables' /\ UNCHANGED <<segments, open>>
  BY <1>0 DEF Library!Reads, Library!tables, Tables, SessionRows
<1>3. CASE Library!Start(r)
  <2>1. Library!GoWith(r, "start", "article", "saves", Library!NoText) /\ Library!Reads /\ request[r].pc = "idle" /\ "start" \in Operations
    BY <1>3 DEF Library!Start, Library!Begin, Library!At
  <2> QED BY <1>1, <1>2, <1>r, <2>1, CallGoesWith
<1>4. CASE Library!Continue(r)
  <2>1. PICK pc \in {"saves", "done"} : Library!GoWith(r, "continue", "article", pc, Library!NoText)
    BY <1>4 DEF Library!Continue
  <2>2. Library!Reads /\ request[r].pc = "idle" /\ "continue" \in Operations
    BY <1>4 DEF Library!Continue, Library!Begin, Library!At
  <2> QED BY <1>1, <1>2, <1>r, <2>1, <2>2, CallGoesWith
<1>5. CASE Library!ReadSaved(r)
  <2>1. Library!Reads /\ request[r].pc = "saves"
    BY <1>5 DEF Library!ReadSaved, Library!At
  <2>2. CASE Library!Go(r, "done")
    BY <1>2, <1>r, <2>1, <2>2, CallGoes
  <2>3. CASE Library!GoWith(r, request[r].op, "article", "opens", IF Library!Active("article") THEN Library!Of(row["article"]) ELSE Library!NoText)
    <3>1. (IF Library!Active("article") THEN Library!Of(row["article"]) ELSE Library!NoText) \in Library!Texts
      BY <1>1
    <3> QED BY <1>0, <1>1, <1>2, <1>r, <2>1, <2>3, <3>1, CallGoesWith
  <2> QED BY <1>5, <2>2, <2>3 DEF Library!ReadSaved
<1>6. CASE Library!OpenArticle(r)
  <2>1. /\ request[r].pc = "opens" /\ UNCHANGED <<segments, open, numbered, posts, stale>> /\ Library!Touch("article") /\ texts' = texts + 1
        /\ previous' = (IF request[r].text = 0 THEN previous ELSE Library!Of(request[r])) /\ Library!GoWith(r, request[r].op, "article", "numbers", Library!Begun(texts + 1))
        /\ row' = [row EXCEPT !["article"] = Library!New(texts + 1), !["single"] = Library!Stopped("single")]
    BY <1>6 DEF Library!OpenArticle, Library!At
  <2>2. texts + 1 \in Nat /\ Library!Stopped("single") \in SessionRows
    <3>1. texts + 1 \in Nat
      BY <1>0 DEF Tables
    <3> QED BY <1>1, <3>1, StoppedRow
  <2>3. Tables'
    <3>1. row' \in [Library!Kinds -> SessionRows]
      BY <1>1, <2>1, <2>2
    <3>2. order' \subseteq Library!Kinds \X Library!Kinds /\ aged' \subseteq Library!Kinds
      BY <1>1, <2>1, LibraryFacts, Touched
    <3> QED BY <1>0, <1>1, <2>1, <2>2, <3>1, <3>2 DEF Tables, SessionRows
  <2> QED BY <1>0, <1>1, <1>2, <2>1, <2>2, <2>3, CallGoesWith
<1>7. CASE Library!NumberArticle(r)
  <2>1. /\ request[r].pc = "numbers" /\ Library!Number("article") /\ Library!Answer(r, request[r].op, "article", "sends", Library!Of(request[r]))
        /\ UNCHANGED <<row, order, aged, previous, texts, posts, stale>>
    BY <1>7 DEF Library!NumberArticle, Library!At
  <2>2. Tables'
    BY <1>0, <1>1, <2>1 DEF Tables, SessionRows, Library!Number
  <2> QED BY <1>0, <1>1, <2>1, <2>2, CallAnswers
<1>8. CASE Library!Same(r)
  <2>1. PICK pc \in {"cuts", "done"} : Library!GoWith(r, "same", "article", pc, Library!Of(row["article"])) /\ (pc = "cuts" => Library!More("article"))
    BY <1>8 DEF Library!Same
  <2>2. Library!Reads /\ request[r].pc = "idle" /\ "same" \in Operations
    BY <1>8 DEF Library!Same, Library!Begin, Library!At
  <2>3. pc = "cuts" => Library!Of(row["article"]).sent < Parts
    BY <1>1, <2>1 DEF Library!More
  <2> QED BY <1>1, <1>2, <1>r, <2>1, <2>2, <2>3, CallGoesWith
<1>9. CASE Library!Cut(r)
  <2> DEFINE t == [text |-> request[r].text, sent |-> request[r].sent + 1]
  <2>1. /\ request[r].pc = "cuts" /\ row' = [row EXCEPT !["article"].sent = request[r].sent + 1] /\ Library!Touch("article") /\ Library!Number("article")
        /\ UNCHANGED <<previous, texts, posts, stale>>
    BY <1>9 DEF Library!Cut, Library!At
  <2>2. PICK pc \in {"sends", "recalls"} : Library!Answer(r, request[r].op, "article", pc, t)
    BY <1>9 DEF Library!Cut
  <2>3. request[r].sent + 1 \in 0..Parts
    BY <1>0, <2>1, RowsAre, LibraryFacts DEF Mindful
  <2>4. t \in Library!Texts
    BY <1>0, <2>3 DEF Library!Texts
  <2>5. Tables'
    <3>1. row' \in [Library!Kinds -> SessionRows]
      BY <1>1, <2>1, <2>3 DEF SessionRows
    <3>2. order' \subseteq Library!Kinds \X Library!Kinds /\ aged' \subseteq Library!Kinds
      BY <1>1, <2>1, LibraryFacts, Touched
    <3> QED BY <1>0, <1>1, <2>1, <3>1, <3>2 DEF Tables, SessionRows, Library!Number
  <2> HIDE DEF t
  <2> QED BY <1>0, <1>1, <2>1, <2>2, <2>4, <2>5, CallAnswers
<1>10. CASE Library!Restore(r)
  <2>1. /\ request[r].pc = "restores" /\ UNCHANGED <<segments, open, numbered, texts, posts, stale>> /\ Library!Go(r, "rereads") /\ Library!Touch("article")
        /\ row' = [row EXCEPT !["article"] = [status |-> "active", text |-> request[r].text, sent |-> request[r].sent, last |-> NoMessage]]
        /\ previous' = Library!NoText
    BY <1>10 DEF Library!Restore, Library!At
  <2>2. Tables'
    <3>1. [status |-> "active", text |-> request[r].text, sent |-> request[r].sent, last |-> NoMessage] \in SessionRows
      BY <1>0 DEF SessionRows
    <3>2. row' \in [Library!Kinds -> SessionRows]
      BY <1>1, <2>1, <3>1
    <3>3. order' \subseteq Library!Kinds \X Library!Kinds /\ aged' \subseteq Library!Kinds
      BY <1>1, <2>1, LibraryFacts, Touched
    <3> QED BY <1>0, <1>1, <2>1, <3>2, <3>3 DEF Tables, SessionRows
  <2>3. request[r].op = "previous"
    BY <1>0, <2>1 DEF Mindful
  <2> QED BY <1>2, <2>1, <2>2, <2>3, CallGoes
<1>11. CASE Library!Reread(r)
  <2>1. PICK pc \in {"cuts", "done"} : Library!GoWith(r, "previous", "article", pc, Library!Of(row["article"])) /\ (pc = "cuts" => Library!More("article"))
    BY <1>11 DEF Library!Reread
  <2>2. Library!Reads /\ request[r].pc = "rereads" /\ "previous" \in Operations \cup {"none"}
    BY <1>0, <1>11 DEF Library!Reread, Library!At, Mindful
  <2>3. pc = "cuts" => Library!Of(row["article"]).sent < Parts
    BY <1>1, <2>1 DEF Library!More
  <2> QED BY <1>1, <1>2, <1>r, <2>1, <2>2, <2>3, CallGoesWith
<1> QED BY <1>3, <1>4, <1>5, <1>6, <1>7, <1>8, <1>9, <1>10, <1>11

LEMMA PracticeSteps ==
  ASSUME Library!TypingLibraryAssumption, LibraryInv, NEW r \in Calls,
         Library!Previous(r) \/ Library!OpenSingle(r) \/ Library!Register(r) \/ Library!OpenContest(r) \/ Library!ScoreSingle(r) \/ Library!ReadSingle(r) \/ Library!StepSingle(r)
  PROVE  LibraryInv'
<1>0. /\ Tables /\ request[r] \in Library!RequestType /\ Mindful(r) /\ request[r].op \in Operations \cup {"none"} /\ request[r].sent \in 0..Parts /\ request[r].text \in Nat
      /\ Library!Of(request[r]) \in Library!Texts /\ texts + 1 \in Nat
  BY LibraryFacts DEF Tables
<1>1. /\ row \in [Library!Kinds -> SessionRows] /\ \A k \in Library!Kinds : row[k] \in SessionRows /\ Library!Of(row[k]) \in Library!Texts /\ Library!Of(row[k]).sent = row[k].sent
      /\ \A t \in Nat : Library!New(t) \in SessionRows /\ Library!Begun(t) \in Library!Texts
      /\ Library!NoText \in Library!Texts /\ previous \in Library!Texts /\ "article" \in Library!Kinds /\ "single" \in Library!Kinds /\ "contest" \in Library!Kinds
  BY LibraryFacts, RowsAre
<1>2. {"restores", "registers", "practices", "steps", "sends", "done"} \subseteq CallStages
  BY DEF CallStages
<1>r. Library!Reads => Tables' /\ UNCHANGED <<segments, open>>
  BY <1>0 DEF Library!Reads, Library!tables, Tables, SessionRows
<1>3. CASE Library!Previous(r)
  <2>1. Library!Reads /\ request[r].pc = "idle" /\ "previous" \in Operations
    BY <1>3 DEF Library!Previous, Library!Begin, Library!At
  <2>2. CASE Library!GoWith(r, "previous", "article", "done", Library!NoText)
    BY <1>1, <1>2, <1>r, <2>1, <2>2, CallGoesWith
  <2>3. CASE request' = [request EXCEPT ![r] = [@ EXCEPT !.op = "previous", !.kind = "article", !.pc = "restores", !.text = previous.text, !.sent = previous.sent,
                                        !.recall = row["article"].last]]
    <3> DEFINE q == [request[r] EXCEPT !.op = "previous", !.kind = "article", !.pc = "restores", !.text = previous.text, !.sent = previous.sent,
                                   !.recall = row["article"].last]
    <3>1. previous.text \in Nat /\ previous.sent \in 0..Parts /\ row["article"].last \in Calls \cup {NoMessage}
      BY <1>1 DEF Library!Texts, SessionRows
    <3>2. q \in Library!RequestType
      BY <1>0, <1>1, <2>1, <3>1 DEF Library!RequestType
    <3>3. q.op = "previous" /\ q.pc = "restores" /\ q.uses = request[r].uses
      BY <1>0 DEF Library!RequestType
    <3>4. request' = [request EXCEPT ![r] = q]
      BY <2>3
    <3> HIDE DEF q
    <3>5. SoundRow(q)
      BY <3>3 DEF SoundRow
    <3> QED BY <1>r, <2>1, <3>2, <3>3, <3>4, <3>5, Calm
  <2> QED BY <1>3, <2>2, <2>3 DEF Library!Previous
<1>4. CASE Library!OpenSingle(r)
  <2>1. /\ request[r].pc = "idle" /\ UNCHANGED <<previous, segments, open, numbered, posts, stale>> /\ Library!Touch("single") /\ texts' = texts + 1
        /\ Library!GoWith(r, "single", "single", "registers", Library!Begun(texts + 1)) /\ "single" \in Operations
        /\ row' = [row EXCEPT !["single"] = Library!New(texts + 1), !["article"] = Library!Stopped("article")]
    BY <1>4 DEF Library!OpenSingle, Library!Begin, Library!At
  <2>2. Library!Stopped("article") \in SessionRows
    BY <1>1, StoppedRow
  <2>3. Tables'
    <3>1. row' \in [Library!Kinds -> SessionRows]
      BY <1>0, <1>1, <2>1, <2>2
    <3>2. order' \subseteq Library!Kinds \X Library!Kinds /\ aged' \subseteq Library!Kinds
      BY <1>1, <2>1, LibraryFacts, Touched
    <3> QED BY <1>0, <1>1, <2>1, <3>1, <3>2 DEF Tables, SessionRows
  <2> QED BY <1>0, <1>1, <1>2, <2>1, <2>3, CallGoesWith
<1>5. CASE Library!Register(r)
  <2>1. /\ request[r].pc = "registers" /\ numbered' = numbered \cup {"single"} /\ Library!Go(r, "sends")
        /\ UNCHANGED <<row, order, aged, previous, segments, open, texts, posts, stale>>
    BY <1>5 DEF Library!Register, Library!At
  <2>2. Tables'
    BY <1>0, <1>1, <2>1 DEF Tables, SessionRows
  <2> QED BY <1>2, <2>1, <2>2, CallGoes
<1>6. CASE Library!OpenContest(r)
  <2>0. request[r].pc = "idle" /\ "contest" \in Operations
    BY <1>6 DEF Library!OpenContest, Library!Begin, Library!At
  <2>1. CASE Library!GoWith(r, "contest", "contest", "done", Library!NoText) /\ Library!Reads
    BY <1>1, <1>2, <1>r, <2>0, <2>1, CallGoesWith
  <2>2. CASE /\ row' = [row EXCEPT !["contest"] = Library!New(texts + 1)] /\ texts' = texts + 1
             /\ Library!Touch("contest") /\ Library!Number("contest") /\ Library!Answer(r, "contest", "contest", "sends", Library!Begun(texts + 1))
             /\ UNCHANGED <<previous, posts, stale>>
    <3>1. row' \in [Library!Kinds -> SessionRows]
      BY <1>0, <1>1, <2>2
    <3>2. order' \subseteq Library!Kinds \X Library!Kinds /\ aged' \subseteq Library!Kinds
      BY <1>1, <2>2, LibraryFacts, Touched
    <3>3. Tables'
      BY <1>0, <1>1, <2>2, <3>1, <3>2 DEF Tables, SessionRows, Library!Number
    <3> QED BY <1>0, <1>1, <2>0, <2>2, <3>3, CallAnswers
  <2> QED BY <1>6, <2>1, <2>2 DEF Library!OpenContest
<1>7. CASE Library!ScoreSingle(r)
  <2>1. PICK pc \in {"practices", "done"} : Library!GoWith(r, "score", "single", pc, Library!NoText)
    BY <1>7 DEF Library!ScoreSingle
  <2>2. Library!Reads /\ request[r].pc = "idle" /\ "score" \in Operations
    BY <1>7 DEF Library!ScoreSingle, Library!Begin, Library!At
  <2> QED BY <1>1, <1>2, <1>r, <2>1, <2>2, CallGoesWith
<1>8. CASE Library!ReadSingle(r)
  <2>1. PICK pc \in {"steps", "done"} : Library!GoWith(r, "score", "single", pc, Library!Of(row["single"])) /\ (pc = "steps" => Library!More("single"))
    BY <1>8 DEF Library!ReadSingle
  <2>2. Library!Reads /\ request[r].pc = "practices" /\ "score" \in Operations \cup {"none"}
    BY <1>0, <1>8 DEF Library!ReadSingle, Library!At, Mindful
  <2>3. pc = "steps" => Library!Of(row["single"]).sent < Parts
    BY <1>1, <2>1 DEF Library!More
  <2> QED BY <1>1, <1>2, <1>r, <2>1, <2>2, <2>3, CallGoesWith
<1>9. CASE Library!StepSingle(r)
  <2> DEFINE t == [text |-> request[r].text, sent |-> request[r].sent + 1]
  <2>1. /\ request[r].pc = "steps" /\ row' = [row EXCEPT !["single"].sent = request[r].sent + 1] /\ Library!Touch("single")
        /\ numbered' = numbered \cup {"single"} /\ Library!GoWith(r, "score", "single", "sends", t)
        /\ UNCHANGED <<previous, segments, open, texts, posts, stale>>
    BY <1>9 DEF Library!StepSingle, Library!At
  <2>2. request[r].sent + 1 \in 0..Parts /\ "score" \in Operations \cup {"none"}
    BY <1>0, <2>1, RowsAre, LibraryFacts DEF Mindful
  <2>3. t \in Library!Texts
    BY <1>0, <2>2 DEF Library!Texts
  <2>4. Tables'
    <3>1. row' \in [Library!Kinds -> SessionRows]
      BY <1>1, <2>1, <2>2 DEF SessionRows
    <3>2. order' \subseteq Library!Kinds \X Library!Kinds /\ aged' \subseteq Library!Kinds
      BY <1>1, <2>1, LibraryFacts, Touched
    <3> QED BY <1>0, <1>1, <2>1, <3>1, <3>2 DEF Tables, SessionRows
  <2> HIDE DEF t
  <2> QED BY <1>1, <1>2, <2>1, <2>2, <2>3, <2>4, CallGoesWith
<1> QED BY <1>3, <1>4, <1>5, <1>6, <1>7, <1>8, <1>9

LEMMA ScoreSteps ==
  ASSUME Library!TypingLibraryAssumption, LibraryInv, NEW r \in Calls,
         (\E p \in Calls : Library!Score(r, p)) \/ Library!TakeArticle(r) \/ Library!TakeContest(r) \/ Library!Ignored(r) \/ Library!Fail(r)
  PROVE  LibraryInv'
<1>0. /\ Tables /\ request[r] \in Library!RequestType /\ Mindful(r) /\ request[r].uses \in Nat /\ texts + 1 \in Nat /\ Library!TypeOK
      /\ request \in [Calls -> Library!RequestType]
  BY LibraryFacts DEF Tables
<1>1. /\ row \in [Library!Kinds -> SessionRows] /\ \A k \in Library!Kinds : row[k] \in SessionRows /\ Library!Of(row[k]) \in Library!Texts
      /\ \A t \in Nat : Library!New(t) \in SessionRows /\ Library!Begun(t) \in Library!Texts
      /\ Library!NoText \in Library!Texts /\ previous \in Library!Texts /\ "article" \in Library!Kinds /\ "single" \in Library!Kinds /\ "contest" \in Library!Kinds
  BY LibraryFacts, RowsAre
<1>2. {"takes", "numbers", "done", "failed"} \subseteq CallStages
  BY DEF CallStages
<1>r. Library!Reads => Tables' /\ UNCHANGED <<segments, open>>
  BY <1>0, <1>1 DEF Library!Reads, Library!tables, Tables, SessionRows
<1>3. ASSUME NEW p \in Calls, Library!Score(r, p) PROVE LibraryInv'
  <2> DEFINE s == request[p].segment
  <2>1. Library!Reads /\ request[r].pc = "idle" /\ "score" \in Operations /\ s # 0
    BY <1>3 DEF Library!Score, Library!Begin, Library!At
  <2>2. CASE s \in open /\ Library!Active(segments[s])
    <3>1. s \in DOMAIN segments /\ s \in Nat /\ segments[s] \in Library!Kinds
      BY <1>0, <2>2 DEF Library!TypeOK
    <3> DEFINE q == [request[r] EXCEPT !.op = "score", !.kind = segments[s], !.uses = s, !.pc = "takes"]
    <3>2. request' = [request EXCEPT ![r] = q]
      BY <1>3, <2>2 DEF Library!Score
    <3>3. q \in Library!RequestType
      BY <1>0, <2>1, <3>1 DEF Library!RequestType
    <3>4. q.op = "score" /\ q.pc = "takes" /\ q.uses = s /\ q.kind = segments[s]
      BY <1>0 DEF Library!RequestType
    <3> HIDE DEF q
    <3>5. SoundRow(q)
      BY <2>1, <3>1, <3>4 DEF SoundRow
    <3> QED BY <1>r, <2>1, <3>2, <3>3, <3>4, <3>5, Calm
  <2>3. CASE ~(s \in open /\ Library!Active(segments[s]))
    <3> DEFINE q == [request[r] EXCEPT !.op = "score", !.pc = "done"]
    <3>2. request' = [request EXCEPT ![r] = q]
      BY <1>3, <2>3 DEF Library!Score
    <3>3. q \in Library!RequestType
      BY <1>0, <2>1 DEF Library!RequestType
    <3>4. q.pc = "done" /\ q.uses = request[r].uses
      BY <1>0 DEF Library!RequestType
    <3> HIDE DEF q
    <3>5. SoundRow(q)
      BY <3>4 DEF SoundRow
    <3> QED BY <1>r, <2>1, <3>2, <3>3, <3>4, <3>5, Calm
  <2> QED BY <2>2, <2>3
<1>4. CASE Library!TakeArticle(r)
  <2>1. /\ request[r].pc = "takes" /\ request[r].kind = "article" /\ request[r].uses \in open
        /\ open' = open \ {request[r].uses} /\ previous' = Library!Of(row["article"])
        /\ row' = [row EXCEPT !["article"] = Library!New(texts + 1), !["single"] = Library!Stopped("single")]
        /\ Library!Touch("article") /\ texts' = texts + 1
        /\ Library!GoWith(r, "score", "article", "numbers", Library!Begun(texts + 1))
        /\ UNCHANGED <<segments, numbered, posts, stale>>
    BY <1>4 DEF Library!TakeArticle, Library!Takes, Library!Unused, Library!At
  <2>2. Library!Stopped("single") \in SessionRows
    BY <1>1, StoppedRow
  <2>3. Tables'
    <3>1. row' \in [Library!Kinds -> SessionRows]
      BY <1>0, <1>1, <2>1, <2>2
    <3>2. order' \subseteq Library!Kinds \X Library!Kinds /\ aged' \subseteq Library!Kinds
      BY <1>1, <2>1, LibraryFacts, Touched
    <3> QED BY <1>0, <1>1, <2>1, <3>1, <3>2 DEF Tables, SessionRows
  <2> DEFINE q == CallMoved(request[r], "score", "article", "numbers", Library!Begun(texts + 1))
  <2>4. request' = [request EXCEPT ![r] = q]
    BY <2>1 DEF Library!GoWith, CallMoved
  <2>5. "score" \in CallKinds
    BY <1>0, <2>1, LibraryFacts DEF Mindful, CallKinds
  <2>6. q \in Library!RequestType /\ q.pc = "numbers" /\ q.uses = request[r].uses
    BY <1>0, <1>1, <1>2, <2>5, Moving
  <2> HIDE DEF q
  <2> QED BY <2>1, <2>3, <2>4, <2>6, Taking
<1>5. CASE Library!TakeContest(r)
  <2>1. /\ request[r].pc = "takes" /\ request[r].kind = "contest" /\ request[r].uses \in open
        /\ row' = [row EXCEPT !["contest"].text = texts + 1] /\ Library!Touch("contest") /\ texts' = texts + 1
        /\ Library!Number("contest") /\ Library!Answer(r, "score", "contest", "sends", Library!Begun(texts + 1))
        /\ UNCHANGED <<previous, posts, stale>>
    BY <1>5 DEF Library!TakeContest, Library!Takes, Library!Unused, Library!At
  <2>2. Tables'
    <3>1. row' \in [Library!Kinds -> SessionRows]
      BY <1>0, <1>1, <2>1 DEF SessionRows
    <3>2. order' \subseteq Library!Kinds \X Library!Kinds /\ aged' \subseteq Library!Kinds
      BY <1>1, <2>1, LibraryFacts, Touched
    <3> QED BY <1>0, <1>1, <2>1, <3>1, <3>2 DEF Tables, SessionRows, Library!Number
  <2>3. "score" \in Operations \cup {"none"}
    BY <1>0, <2>1, LibraryFacts DEF Mindful
  <2> QED BY <1>0, <1>1, <2>1, <2>2, <2>3, CallAnswers
<1>6. CASE Library!Ignored(r)
  <2> DEFINE q == [request[r] EXCEPT !.pc = "done", !.uses = 0]
  <2>1. Library!Reads /\ request' = [request EXCEPT ![r] = q]
    BY <1>6, <1>0 DEF Library!Ignored
  <2>2. q \in Library!RequestType /\ q.pc = "done" /\ q.uses = 0
    BY <1>0 DEF Library!RequestType
  <2> HIDE DEF q
  <2>3. SoundRow(q)
    BY <2>2 DEF SoundRow
  <2> QED BY <1>r, <2>1, <2>2, <2>3, Calm
<1>7. CASE Library!Fail(r)
  <2> DEFINE n == IF Library!At(r, "takes") THEN 0 ELSE request[r].uses
             q == [request[r] EXCEPT !.pc = "failed", !.uses = n]
  <2>1. n \in Nat /\ (n = 0 \/ (n = request[r].uses /\ request[r].pc # "takes"))
    BY <1>0 DEF Library!At
  <2>2. Library!Reads /\ request' = [request EXCEPT ![r] = q]
    BY <1>7, <1>0 DEF Library!Fail
  <2> HIDE DEF n
  <2>3. q \in Library!RequestType /\ q.pc = "failed" /\ q.uses = n
    BY <1>0, <2>1 DEF Library!RequestType
  <2> HIDE DEF q
  <2>4. SoundRow(q)
    BY <2>3 DEF SoundRow
  <2> QED BY <1>r, <2>1, <2>2, <2>3, <2>4, Calm
<1> QED BY <1>3, <1>4, <1>5, <1>6, <1>7

LEMMA PostingSteps ==
  ASSUME Library!TypingLibraryAssumption, LibraryInv, NEW r \in Calls,
         Library!Post(r) \/ Library!Acknowledge(r) \/ Library!ReadStop(r) \/ Library!Stop(r) \/ Library!Recall(r)
  PROVE  LibraryInv'
<1>0. /\ Tables /\ request[r] \in Library!RequestType /\ Mindful(r) /\ request[r].kind \in Library!Kinds /\ request[r].op \in Operations \cup {"none"}
  BY LibraryFacts
<1>1. /\ row \in [Library!Kinds -> SessionRows] /\ (\A k \in Library!Kinds : row[k] \in SessionRows) /\ Library!NoText \in Library!Texts /\ previous \in Library!Texts /\ "article" \in Library!Kinds
  BY LibraryFacts, RowsAre
<1>2. {"acks", "stops", "recalls", "sends", "done"} \subseteq CallStages
  BY DEF CallStages
<1>3. CASE Library!Post(r)
  <2>1. request[r].pc = "sends" /\ posts' = Append(posts, r) /\ Library!Go(r, "acks") /\ UNCHANGED <<Library!tables, stale>>
    BY <1>3 DEF Library!Post, Library!At
  <2>2. Tables' /\ UNCHANGED <<segments, open>>
    BY <1>0, <1>1, <2>1, AppendProperties DEF Tables, Library!tables, SessionRows
  <2> QED BY <1>2, <2>1, <2>2, CallGoes
<1>4. CASE Library!Acknowledge(r)
  <2>1. /\ request[r].pc = "acks" /\ row' = [row EXCEPT ![request[r].kind].last = r] /\ Library!Touch(request[r].kind) /\ Library!Go(r, "done")
        /\ UNCHANGED <<previous, segments, open, numbered, texts, posts, stale>>
    BY <1>4 DEF Library!Acknowledge, Library!At
  <2>2. row' \in [Library!Kinds -> SessionRows]
    <3>1. [row[request[r].kind] EXCEPT !.last = r] \in SessionRows
      BY <1>0, <1>1 DEF SessionRows
    <3> QED BY <1>0, <1>1, <2>1, <3>1
  <2>3. order' \subseteq Library!Kinds \X Library!Kinds /\ aged' \subseteq Library!Kinds
    BY <1>0, <1>1, <2>1, LibraryFacts, Touched
  <2>4. Tables'
    BY <1>0, <1>1, <2>1, <2>2, <2>3 DEF Tables, SessionRows
  <2> QED BY <1>2, <2>1, <2>4, CallGoes
<1>5. CASE Library!ReadStop(r)
  <2>1. request[r].pc = "idle" /\ UNCHANGED <<Library!tables, posts>> /\ "stop" \in Operations
    BY <1>5 DEF Library!ReadStop, Library!Begin, Library!At
  <2>2. stale' \subseteq Calls
    BY <1>0, <1>5 DEF Library!ReadStop, Tables
  <2>3. Tables' /\ UNCHANGED <<segments, open>>
    BY <1>0, <1>1, <2>1, <2>2 DEF Tables, Library!tables, SessionRows
  <2>4. CASE Library!GoWith(r, "stop", "article", "done", Library!NoText)
    BY <1>1, <1>2, <2>1, <2>3, <2>4, CallGoesWith
  <2>5. ASSUME NEW k \in Library!Latest, request' = [request EXCEPT ![r] = [@ EXCEPT !.op = "stop", !.kind = k, !.pc = "stops", !.recall = row[k].last]]
        PROVE  LibraryInv'
    <3> DEFINE q == [request[r] EXCEPT !.op = "stop", !.kind = k, !.pc = "stops", !.recall = row[k].last]
    <3>1. k \in Library!Kinds /\ row[k].last \in Calls \cup {NoMessage}
      BY <1>1 DEF Library!Latest, SessionRows
    <3>2. q \in Library!RequestType
      BY <1>0, <2>1, <3>1 DEF Library!RequestType
    <3>3. q.pc = "stops" /\ q.uses = request[r].uses
      BY <1>0 DEF Library!RequestType
    <3>4. request' = [request EXCEPT ![r] = q]
      BY <2>5
    <3> HIDE DEF q
    <3>5. SoundRow(q)
      BY <3>3 DEF SoundRow
    <3> QED BY <2>1, <2>3, <3>2, <3>3, <3>4, <3>5, Calm
  <2> QED BY <1>5, <2>4, <2>5 DEF Library!ReadStop
<1>6. CASE Library!Stop(r)
  <2>1. /\ request[r].pc = "stops" /\ row' = [row EXCEPT ![request[r].kind].status = "stopped"] /\ Library!Touch(request[r].kind)
        /\ UNCHANGED <<previous, segments, open, numbered, texts, posts, stale>>
    BY <1>6 DEF Library!Stop, Library!At
  <2>2. PICK pc \in {"recalls", "done"} : Library!Go(r, pc)
    BY <1>6 DEF Library!Stop
  <2>3. row' \in [Library!Kinds -> SessionRows]
    <3>1. [row[request[r].kind] EXCEPT !.status = "stopped"] \in SessionRows
      BY <1>0, <1>1, StoppedRow
    <3> QED BY <1>0, <1>1, <2>1, <3>1
  <2>4. order' \subseteq Library!Kinds \X Library!Kinds /\ aged' \subseteq Library!Kinds
    BY <1>0, <1>1, <2>1, LibraryFacts, Touched
  <2>5. Tables'
    BY <1>0, <1>1, <2>1, <2>3, <2>4 DEF Tables, SessionRows
  <2> QED BY <1>2, <2>1, <2>2, <2>5, CallGoes
<1>7. CASE Library!Recall(r)
  <2>1. PICK pc \in {"sends", "done"} : Library!Go(r, pc)
    BY <1>7 DEF Library!Recall
  <2>2. Library!Reads /\ request[r].pc = "recalls"
    BY <1>7 DEF Library!Recall, Library!At
  <2>3. Tables' /\ UNCHANGED <<segments, open>>
    BY <1>0, <1>1, <2>2 DEF Tables, Library!tables, SessionRows, Library!Reads
  <2> QED BY <1>2, <2>1, <2>2, <2>3, CallGoes
<1> QED BY <1>3, <1>4, <1>5, <1>6, <1>7

LEMMA TimeSteps ==
  ASSUME Library!TypingLibraryAssumption, LibraryInv, Library!Age \/ Library!Expire \/ UNCHANGED Library!vars
  PROVE  LibraryInv'
<1>0. Library!TypeOK /\ row \in [Library!Kinds -> SessionRows] /\ \A k \in Library!Kinds : row[k] \in SessionRows
  BY LibraryFacts, RowsAre
<1>1. UNCHANGED <<order, previous, segments, open, numbered, texts, request, posts, stale>>
  BY DEF Library!Age, Library!Expire, Library!vars, Library!tables
<1>2. row' \in [Library!Kinds -> SessionRows] /\ aged' \subseteq Library!Kinds
  <2>1. CASE Library!Age \/ UNCHANGED Library!vars
    BY <1>0, <2>1 DEF Library!Age, Library!vars, Library!tables, Library!TypeOK
  <2>2. CASE Library!Expire
    BY <1>0, <2>2, StoppedRow DEF Library!Expire, Library!TypeOK
  <2> QED BY <2>1, <2>2
<1>3. Library!TypeOK'
  BY <1>0, <1>1, <1>2 DEF Library!TypeOK, SessionRows
<1> QED BY <1>1, <1>3 DEF LibraryInv, Mindful, Library!OnlyLatestIsOpen, Library!ScoreGoesOnOnce, Library!ContestGoesOn

LEMMA LibraryKeeps == Library!TypingLibraryAssumption /\ LibraryInv /\ [Library!Next]_Library!vars => LibraryInv'
<1> SUFFICES ASSUME Library!TypingLibraryAssumption, LibraryInv, [Library!Next]_Library!vars PROVE LibraryInv'
  OBVIOUS
<1>1. ASSUME NEW r \in Calls, Library!OfRequest(r) PROVE LibraryInv'
  BY <1>1, ArticleSteps, PracticeSteps, ScoreSteps, PostingSteps DEF Library!OfRequest
<1> QED BY <1>1, TimeSteps DEF Library!Next

LEMMA LibrarySafe == LibraryInv => Library!SegmentsScoreOnce /\ Library!ContestGoesOn
BY DEF LibraryInv, Library!SegmentsScoreOnce

\* In the service, a segment moves its session on at most once, and a contest text that
\* was used up is followed by another, whichever requests bring the score and whenever
\* (continue_library_session_from_score, start_contest_session).
THEOREM SessionsAreSound == ServiceSpec => []SessionsGoOn
<1>1. ServiceInit => LibraryInv
  BY LibraryBegins, ServiceAssumption DEF ServiceInit
<1>2. LibraryInv /\ [ServiceNext]_serviceVars => LibraryInv'
  <2> SUFFICES ASSUME LibraryInv, [ServiceNext]_serviceVars PROVE LibraryInv'
    OBVIOUS
  <2>1. CASE Sessions
    BY <2>1, LibraryKeeps, ServiceAssumption DEF Sessions
  <2>2. CASE Settings \/ Archives \/ Scoring \/ Competition \/ UNCHANGED serviceVars
    <3>1. UNCHANGED sessions
      BY <2>2 DEF Settings, Archives, Scoring, Competition, serviceVars
    <3>2. UNCHANGED Library!vars
      BY <3>1 DEF sessions, Library!vars, Library!tables
    <3> QED BY <3>2, LibraryKeeps, ServiceAssumption
  <2> QED BY <2>1, <2>2 DEF ServiceNext
<1>3. LibraryInv => SessionsGoOn
  BY LibrarySafe DEF SessionsGoOn
<1> QED BY <1>1, <1>2, <1>3, PTL DEF ServiceSpec

(***************************************************************************)
(* The settings of the service: overlapping requests keep the rules.       *)
(***************************************************************************)

PolicyBounds == [min : Lengths \cup {1, Switches!Cardinality(Lengths)}, max : Lengths \cup {1, Switches!Cardinality(Lengths)}]
SwitchRecords == [all : Switches!Switch, groups : [Groups -> Switches!Switch]]
FeatureShapes == [Switches!Capabilities -> Switches!Switch]
Featuring == [op : {"capability"}, pc : {"writes"}, group : Groups, capability : Switches!Capabilities, enabled : BOOLEAN, copy : FeatureShapes, since : Nat]
Repeating == [op : {"repeat"}, pc : {"writes"}, groups : SUBSET Groups, enabled : BOOLEAN, copy : SwitchRecords, since : Nat]
Guarding == [op : {"guard"}, pc : {"writes"}, account : Senders, add : BOOLEAN, copy : SUBSET Senders, since : Nat]
KnownNumbers == SUBSET Nat
Editing == [op : {"policy"}, pc : {"looks", "copies", "writes"}, shared : BOOLEAN, policy : PolicyBounds, since : Nat]
Publishing == [op : {"publish"}, pc : {"looks", "compares", "writes"}, date : Dates, title : Titles, fits : BOOLEAN, replace : BOOLEAN,
               knew : KnownNumbers, since : Nat]
Checking == [op : {"check"}, pc : {"asks", "counts"}, group : Groups, sender : Senders, enabled : BOOLEAN, since : Nat]
Busy == Featuring \cup Repeating \cup Guarding \cup Editing \cup Publishing \cup Checking
SettingShapes == {Switches!Idle} \cup Busy

SettingsType ==
  /\ setting \in [Threads -> SettingShapes] /\ setTime \in 0..MaxTime
  /\ features \in [Groups -> FeatureShapes] /\ repeat \in SwitchRecords /\ bots \subseteq Senders /\ defaults \in PolicyBounds
  /\ daily \in [Dates -> [title : Titles \cup {"none"}, number : Nat]] /\ known \in [Dates -> SUBSET Nat]
  /\ cooling \in [Groups -> Nat] /\ said \in [Groups -> SUBSET Nat] /\ off \subseteq Groups

\* Nobody waits for longer than Wait.
SettingWaits == \A t \in Threads : setting[t] # Switches!Idle => setting[t].since <= setTime /\ setTime <= setting[t].since + Wait

\* A group that was switched off is off in the switches of the repeating.
OffInv == \A g \in off : repeat.groups[g] = "off"

\* When the bot last repeated is remembered, or it was long ago.
RareInv ==
  \A g \in Groups :
    /\ cooling[g] # Switches!NoTime => cooling[g] <= setTime /\ \A s \in said[g] : s <= cooling[g]
    /\ cooling[g] = Switches!NoTime => \A s \in said[g] : s + Forget < setTime
    /\ \A m, n \in said[g] : m < n => n >= m + Cooldown

\* Rules that passed the look are those that are written, unless the defaults changed.
RulesInv ==
  /\ policy = Switches!NoPolicy \/ Switches!RuleOk(policy) \/ tangled
  /\ \A t \in Threads : /\ Switches!At(t, "policy", "copies") => tangled \/ Switches!RuleOk(Switches!Edited(setting[t]))
                        /\ Switches!At(t, "policy", "writes") => tangled \/ Switches!RuleOk(setting[t].policy)

\* Numbers grow: what somebody knew of is not given to another text.
NumbersBounded(b) == \A n \in Switches!Numbers : n <= b
NumbersInv ==
  /\ \E b \in Nat : NumbersBounded(b)
  /\ \A d \in Dates : \A n \in known[d] : \E m \in Switches!Numbers : n <= m
  /\ \A t \in Threads : Switches!At(t, "publish", "writes") => \A n \in setting[t].knew : \E m \in Switches!Numbers : n <= m

TitlesInv ==
  /\ \A d, e \in Dates : d # e /\ daily[d] # Switches!NoText /\ daily[d].title = daily[e].title => daily[d].number \notin known[e]
  /\ \A t \in Threads : Switches!At(t, "publish", "writes") =>
       \A d \in Dates : d # setting[t].date /\ daily[d] # Switches!NoText /\ daily[d].title = setting[t].title => daily[d].number \notin setting[t].knew

SettingsInv == SettingsType /\ SettingWaits /\ OffInv /\ RareInv /\ RulesInv /\ NumbersInv /\ TitlesInv

LEMMA SettingsBegins == Switches!SettingsAssumption /\ Switches!Init => SettingsInv
<1> SUFFICES ASSUME Switches!SettingsAssumption, Switches!Init PROVE SettingsInv
  OBVIOUS
<1>1. \A t \in Threads : setting[t] = Switches!Idle
  BY DEF Switches!Init
<1>2. SettingsType
  <2>1. setting \in [Threads -> SettingShapes] /\ setTime \in 0..MaxTime
    BY DEF Switches!Init, SettingShapes, Switches!SettingsAssumption
  <2>2. features \in [Groups -> FeatureShapes] /\ repeat \in SwitchRecords /\ bots \subseteq Senders /\ defaults \in PolicyBounds
    BY DEF Switches!Init, FeatureShapes, SwitchRecords, Switches!Switch, PolicyBounds, Switches!Given
  <2>3. daily \in [Dates -> [title : Titles \cup {"none"}, number : Nat]] /\ known \in [Dates -> SUBSET Nat]
    BY DEF Switches!Init, Switches!NoText
  <2>4. cooling \in [Groups -> Nat] /\ said \in [Groups -> SUBSET Nat] /\ off \subseteq Groups
    BY DEF Switches!Init, Switches!NoTime, Switches!SettingsAssumption
  <2> QED BY <2>1, <2>2, <2>3, <2>4 DEF SettingsType
<1>3. SettingWaits /\ OffInv /\ RulesInv
  BY <1>1 DEF SettingWaits, OffInv, RulesInv, Switches!Init, Switches!At, Switches!Idle
<1>4. RareInv
  BY DEF RareInv, Switches!Init
<1>5. NumbersInv
  <2>1. NumbersBounded(0)
    BY DEF NumbersBounded, Switches!Numbers, Switches!Init, Switches!NoText
  <2> QED BY <1>1, <2>1 DEF NumbersInv, Switches!Init, Switches!At, Switches!Idle
<1>6. TitlesInv
  BY <1>1 DEF TitlesInv, Switches!Init, Switches!At, Switches!Idle
<1> QED BY <1>2, <1>3, <1>4, <1>5, <1>6 DEF SettingsInv

LEMMA SettingShape ==
  ASSUME SettingsType, NEW t \in Threads
  PROVE  /\ setting[t] \in SettingShapes /\ t \in DOMAIN setting
         /\ setting[t].op = "capability" => setting[t] \in Featuring
         /\ setting[t].op = "repeat" => setting[t] \in Repeating
         /\ setting[t].op = "guard" => setting[t] \in Guarding
         /\ setting[t].op = "policy" => setting[t] \in Editing
         /\ setting[t].op = "publish" => setting[t] \in Publishing
         /\ setting[t].op = "check" => setting[t] \in Checking
         /\ setting[t].pc # "idle" => setting[t] \in Busy
<1>1. setting[t] \in SettingShapes /\ t \in DOMAIN setting
  BY DEF SettingsType
<1> QED BY <1>1 DEF SettingShapes, Busy, Switches!Idle, Featuring, Repeating, Guarding, Editing, Publishing, Checking

LEMMA IdleShape == Switches!Idle \in SettingShapes /\ Switches!Idle.op = "none" /\ Switches!Idle.pc = "idle" /\ Switches!Idle \notin Busy
BY DEF Switches!Idle, SettingShapes, Busy, Featuring, Repeating, Guarding, Editing, Publishing, Checking

LEMMA SettingMoves ==
  ASSUME SettingsType, NEW t \in Threads, NEW q \in SettingShapes, Switches!Go(t, q)
  PROVE  setting' \in [Threads -> SettingShapes] /\ setting'[t] = q /\ \A u \in Threads \ {t} : setting'[u] = setting[u]
BY DEF SettingsType, Switches!Go

\* A publication that has looked at the other titles.
DateLooked(x, k) == [x EXCEPT !.pc = "writes", !.knew = k]

\* A check that has read the time.
TextCounted(x, n) == [x EXCEPT !.pc = "counts", !.since = n]

LEMMA WaitsStay ==
  ASSUME Switches!SettingsAssumption, SettingsType, SettingWaits, NEW t \in Threads, NEW q \in SettingShapes, Switches!Go(t, q), UNCHANGED setTime,
         q = Switches!Idle \/ q.since = setTime \/ (setting[t] # Switches!Idle /\ q.since = setting[t].since)
  PROVE  SettingWaits'
<1>1. setting'[t] = q /\ (\A u \in Threads \ {t} : setting'[u] = setting[u]) /\ setTime \in Nat /\ Wait \in Nat
  BY SettingMoves DEF Switches!SettingsAssumption, SettingsType
<1>2. q # Switches!Idle => q.since <= setTime /\ setTime <= q.since + Wait
  BY <1>1 DEF SettingWaits
<1> QED BY <1>1, <1>2 DEF SettingWaits

LEMMA RulesStay ==
  ASSUME SettingsType, RulesInv, NEW t \in Threads, NEW q \in SettingShapes, Switches!Go(t, q), UNCHANGED <<policy, defaults, tangled>>,
         q.op = "policy" /\ q.pc = "copies" => tangled \/ Switches!RuleOk(Switches!Edited(q)),
         q.op = "policy" /\ q.pc = "writes" => tangled \/ Switches!RuleOk(q.policy)
  PROVE  RulesInv'
<1>1. setting'[t] = q /\ (\A u \in Threads \ {t} : setting'[u] = setting[u])
  BY SettingMoves
<1> QED BY <1>1 DEF RulesInv, Switches!At, Switches!Edited, Switches!RuleOk

LEMMA TextsStay ==
  ASSUME SettingsType, NumbersInv, TitlesInv, NEW t \in Threads, NEW q \in SettingShapes, Switches!Go(t, q), UNCHANGED <<daily, known>>,
         q.op = "publish" /\ q.pc = "writes" =>
           /\ \A n \in q.knew : \E m \in Switches!Numbers : n <= m
           /\ \A d \in Dates : d # q.date /\ daily[d] # Switches!NoText /\ daily[d].title = q.title => daily[d].number \notin q.knew
  PROVE  NumbersInv' /\ TitlesInv'
<1>1. setting'[t] = q /\ (\A u \in Threads \ {t} : setting'[u] = setting[u])
  BY SettingMoves
<1>2. Switches!Numbers' = Switches!Numbers /\ \A b : NumbersBounded(b)' <=> NumbersBounded(b)
  BY DEF Switches!Numbers, NumbersBounded
<1>3. NumbersInv'
  BY <1>1, <1>2 DEF NumbersInv, Switches!At
<1>4. TitlesInv'
  BY <1>1 DEF TitlesInv, Switches!At
<1> QED BY <1>3, <1>4

\* A request only reads.
LEMMA ReadsKeep ==
  ASSUME Switches!SettingsAssumption, SettingsInv, NEW t \in Threads, NEW q \in SettingShapes, Switches!Go(t, q),
         UNCHANGED <<features, repeat, bots, policy, defaults, daily, cooling, setTime, off, said, known, tangled>>,
         q = Switches!Idle \/ q.since = setTime \/ (setting[t] # Switches!Idle /\ q.since = setting[t].since),
         q.op = "policy" /\ q.pc = "copies" => tangled \/ Switches!RuleOk(Switches!Edited(q)),
         q.op = "policy" /\ q.pc = "writes" => tangled \/ Switches!RuleOk(q.policy),
         q.op = "publish" /\ q.pc = "writes" =>
           /\ \A n \in q.knew : \E m \in Switches!Numbers : n <= m
           /\ \A d \in Dates : d # q.date /\ daily[d] # Switches!NoText /\ daily[d].title = q.title => daily[d].number \notin q.knew
  PROVE  SettingsInv'
<1>0. SettingsType /\ SettingWaits /\ OffInv /\ RareInv /\ RulesInv /\ NumbersInv /\ TitlesInv
  BY DEF SettingsInv
<1>1. setting' \in [Threads -> SettingShapes]
  BY <1>0, SettingMoves
<1>2. SettingsType'
  BY <1>0, <1>1 DEF SettingsType
<1>3. OffInv' /\ RareInv'
  BY <1>0 DEF OffInv, RareInv
<1>4. SettingWaits'
  BY <1>0, WaitsStay
<1>5. RulesInv'
  BY <1>0, RulesStay
<1>6. NumbersInv' /\ TitlesInv'
  BY <1>0, TextsStay
<1> QED BY <1>2, <1>3, <1>4, <1>5, <1>6 DEF SettingsInv

LEMMA Compares == \A x \in Publishing : LET y == [x EXCEPT !.pc = "compares"] IN y \in Publishing /\ y.since = x.since /\ y.pc = "compares"
BY DEF Publishing

LEMMA DateLooks == \A x \in Publishing, k \in KnownNumbers :
  /\ DateLooked(x, k) \in Publishing /\ DateLooked(x, k).since = x.since /\ DateLooked(x, k).knew = k
  /\ DateLooked(x, k).date = x.date /\ DateLooked(x, k).title = x.title
<1> SUFFICES ASSUME NEW x \in Publishing, NEW k \in KnownNumbers
             PROVE  /\ DateLooked(x, k) \in Publishing /\ DateLooked(x, k).since = x.since /\ DateLooked(x, k).knew = k
                    /\ DateLooked(x, k).date = x.date /\ DateLooked(x, k).title = x.title
  OBVIOUS
<1>1. DateLooked(x, k) \in Publishing
  BY DEF Publishing, DateLooked
<1>2. DateLooked(x, k).since = x.since /\ DateLooked(x, k).knew = k
  BY DEF Publishing, DateLooked
<1>3. DateLooked(x, k).date = x.date /\ DateLooked(x, k).title = x.title
  BY DEF Publishing, DateLooked
<1> QED BY <1>1, <1>2, <1>3

LEMMA Copies == \A x \in Editing : LET y == [x EXCEPT !.pc = "copies"] IN
  y \in Editing /\ y.since = x.since /\ y.pc = "copies" /\ Switches!Edited(y) = Switches!Edited(x)
BY DEF Editing, Switches!Edited

LEMMA CountsText == \A x \in Checking, n \in Nat : TextCounted(x, n) \in Checking /\ TextCounted(x, n).since = n
BY DEF Checking, TextCounted

LEMMA OperationsKeep ==
  /\ \A x \in Publishing : x.op = "publish"
  /\ \A x \in Editing : x.op = "policy"
  /\ \A x \in Checking : x.op = "check"
  /\ Publishing \subseteq SettingShapes /\ Editing \subseteq SettingShapes /\ Checking \subseteq SettingShapes
<1>1. /\ \A x \in Publishing : x.op = "publish"
      /\ \A x \in Editing : x.op = "policy"
      /\ \A x \in Checking : x.op = "check"
  BY DEF Publishing, Editing, Checking
<1>2. Publishing \subseteq SettingShapes /\ Editing \subseteq SettingShapes /\ Checking \subseteq SettingShapes
  BY DEF SettingShapes, Busy
<1> QED BY <1>1, <1>2

LEMMA ReadsKeepAll ==
  ASSUME Switches!SettingsAssumption, SettingsInv, NEW t \in Threads,
         Switches!ReadFeatures(t) \/ Switches!ReadRepeat(t) \/ Switches!ReadBots(t) \/ Switches!CheckPolicy(t) \/ Switches!CopyPolicy(t) \/ Switches!ReadRules(t) \/ Switches!ReadDate(t)
         \/ Switches!ReadTitles(t) \/ Switches!ReadSwitch(t) \/ Switches!ReadCapability(t) \/ Switches!Fail(t)
  PROVE  SettingsInv'
<1>0. SettingsType /\ RulesInv /\ setTime \in Nat
  BY DEF SettingsInv, SettingsType, Switches!SettingsAssumption
<1>1. CASE Switches!ReadFeatures(t)
  <2>1. PICK g \in Groups, c \in Switches!Capabilities, b \in BOOLEAN :
          Switches!Go(t, [op |-> "capability", pc |-> "writes", group |-> g, capability |-> c, enabled |-> b, copy |-> features[g], since |-> setTime])
    BY <1>1 DEF Switches!ReadFeatures
  <2> DEFINE q == [op |-> "capability", pc |-> "writes", group |-> g, capability |-> c, enabled |-> b, copy |-> features[g], since |-> setTime]
  <2>2. q \in SettingShapes
    BY <1>0 DEF SettingShapes, Busy, Featuring, SettingsType
  <2>3. q.op = "capability" /\ q.since = setTime
    OBVIOUS
  <2> HIDE DEF q
  <2> QED BY <1>1, <2>1, <2>2, <2>3, ReadsKeep DEF q, Switches!ReadFeatures, Switches!settings, Switches!ghosts
<1>2. CASE Switches!ReadRepeat(t)
  <2>1. PICK gs \in {{}} \cup {{g} : g \in Groups}, b \in BOOLEAN :
          Switches!Go(t, [op |-> "repeat", pc |-> "writes", groups |-> gs, enabled |-> b, copy |-> repeat, since |-> setTime])
    BY <1>2 DEF Switches!ReadRepeat
  <2> DEFINE q == [op |-> "repeat", pc |-> "writes", groups |-> gs, enabled |-> b, copy |-> repeat, since |-> setTime]
  <2>2. q \in SettingShapes
    BY <1>0 DEF SettingShapes, Busy, Repeating, SettingsType
  <2>3. q.op = "repeat" /\ q.since = setTime
    OBVIOUS
  <2> HIDE DEF q
  <2> QED BY <1>2, <2>1, <2>2, <2>3, ReadsKeep DEF q, Switches!ReadRepeat, Switches!settings, Switches!ghosts
<1>3. CASE Switches!ReadBots(t)
  <2>1. PICK s \in Senders, add \in BOOLEAN :
          Switches!Go(t, [op |-> "guard", pc |-> "writes", account |-> s, add |-> add, copy |-> bots, since |-> setTime])
    BY <1>3 DEF Switches!ReadBots
  <2> DEFINE q == [op |-> "guard", pc |-> "writes", account |-> s, add |-> add, copy |-> bots, since |-> setTime]
  <2>2. q \in SettingShapes
    BY <1>0 DEF SettingShapes, Busy, Guarding, SettingsType
  <2>3. q.op = "guard" /\ q.since = setTime
    OBVIOUS
  <2> HIDE DEF q
  <2> QED BY <1>3, <2>1, <2>2, <2>3, ReadsKeep DEF q, Switches!ReadBots, Switches!settings, Switches!ghosts
<1>4. CASE Switches!CheckPolicy(t)
  <2> DEFINE q == IF Switches!RuleOk(Switches!Edited(setting[t])) THEN [setting[t] EXCEPT !.pc = "copies"] ELSE Switches!Idle
  <2>1. Switches!Go(t, q) /\ Switches!At(t, "policy", "looks")
    BY <1>4 DEF Switches!CheckPolicy, Switches!Edits
  <2>2. setting[t] \in Editing /\ setting[t] # Switches!Idle
    BY <1>0, <2>1, SettingShape DEF Switches!At, Switches!Idle
  <2>3. q \in SettingShapes /\ (q = Switches!Idle \/ (q.since = setting[t].since /\ q.op = "policy" /\ q.pc = "copies"))
    <3>1. CASE q = Switches!Idle
      BY <3>1, IdleShape
    <3> HIDE DEF q
    <3>2. CASE q = [setting[t] EXCEPT !.pc = "copies"]
      <4>1. q \in Editing /\ q.since = setting[t].since /\ q.pc = "copies"
        BY <2>2, <3>2, Compares, DateLooks, Copies, CountsText, OperationsKeep
      <4> QED BY <4>1, Compares, DateLooks, Copies, CountsText, OperationsKeep
    <3> QED BY <3>1, <3>2 DEF q
  <2>4. q # Switches!Idle => Switches!RuleOk(Switches!Edited(setting[t])) /\ Switches!Edited(q) = Switches!Edited(setting[t])
    BY <2>2, Compares, DateLooks, Copies, CountsText, OperationsKeep
  <2>5. Switches!Idle.op = "none"
    BY IdleShape
  <2> HIDE DEF q
  <2> QED BY <1>4, <2>1, <2>2, <2>3, <2>4, <2>5, ReadsKeep DEF Switches!CheckPolicy, Switches!Edits, Switches!settings, Switches!ghosts
<1>5. CASE Switches!CopyPolicy(t)
  <2> DEFINE q == [setting[t] EXCEPT !.pc = "writes", !.policy = Switches!Edited(setting[t])]
  <2>1. Switches!Go(t, q) /\ Switches!At(t, "policy", "copies")
    BY <1>5 DEF Switches!CopyPolicy, Switches!Edits
  <2>2. setting[t] \in Editing /\ setting[t] # Switches!Idle
    BY <1>0, <2>1, SettingShape DEF Switches!At, Switches!Idle
  <2>3. Switches!Edited(setting[t]) \in PolicyBounds
    BY <1>0, <2>2 DEF Switches!Edited, Editing, SettingsType
  <2>4. q \in SettingShapes /\ q.since = setting[t].since /\ q.op = "policy" /\ q.pc = "writes" /\ q.policy = Switches!Edited(setting[t])
    BY <2>2, <2>3 DEF SettingShapes, Busy, Editing
  <2>5. tangled \/ Switches!RuleOk(q.policy)
    BY <1>0, <2>1, <2>4 DEF RulesInv
  <2> HIDE DEF q
  <2> QED BY <1>5, <2>1, <2>2, <2>4, <2>5, ReadsKeep DEF Switches!CopyPolicy, Switches!Edits, Switches!settings, Switches!ghosts
<1>6. CASE Switches!ReadRules(t)
  <2>1. PICK d \in Dates, i \in Titles, n \in Lengths, replace \in BOOLEAN :
          Switches!Go(t, [op |-> "publish", pc |-> "looks", date |-> d, title |-> i, fits |-> n \in Switches!Rules.min..Switches!Rules.max,
                 replace |-> replace, knew |-> {}, since |-> setTime])
    BY <1>6 DEF Switches!ReadRules
  <2> DEFINE q == [op |-> "publish", pc |-> "looks", date |-> d, title |-> i, fits |-> n \in Switches!Rules.min..Switches!Rules.max,
                 replace |-> replace, knew |-> {}, since |-> setTime]
  <2>2. q \in SettingShapes
    <3>1. (n \in Switches!Rules.min..Switches!Rules.max) \in BOOLEAN
      OBVIOUS
    <3>2. ASSUME NEW b \in BOOLEAN
          PROVE [op |-> "publish", pc |-> "looks", date |-> d, title |-> i, fits |-> b, replace |-> replace, knew |-> {}, since |-> setTime] \in SettingShapes
      BY <1>0 DEF SettingShapes, Busy, Publishing, KnownNumbers
    <3> QED BY <3>1, <3>2
  <2>3. q.op = "publish" /\ q.pc = "looks" /\ q.since = setTime
    OBVIOUS
  <2> HIDE DEF q
  <2> QED BY <1>6, <2>1, <2>2, <2>3, ReadsKeep DEF q, Switches!ReadRules, Switches!settings, Switches!ghosts
<1>7. CASE Switches!ReadDate(t)
  <2>1. Switches!At(t, "publish", "looks")
    BY <1>7 DEF Switches!ReadDate
  <2>2. setting[t] \in Publishing /\ setting[t] # Switches!Idle
    BY <1>0, <2>1, SettingShape DEF Switches!At, Switches!Idle
  <2>3. PICK q : Switches!Go(t, q) /\ q \in {Switches!Idle, [setting[t] EXCEPT !.pc = "compares"]}
    BY <1>7 DEF Switches!ReadDate
  <2>4. q \in SettingShapes /\ (q = Switches!Idle \/ (q.since = setting[t].since /\ q.op = "publish" /\ q.pc = "compares")) /\ Switches!Idle.op = "none"
    <3>1. CASE q = Switches!Idle
      BY <3>1, IdleShape
    <3>2. CASE q = [setting[t] EXCEPT !.pc = "compares"]
      <4>1. q \in Publishing /\ q.since = setting[t].since /\ q.pc = "compares"
        BY <2>2, <3>2, Compares, DateLooks, Copies, CountsText, OperationsKeep
      <4> QED BY <4>1, Compares, DateLooks, Copies, CountsText, OperationsKeep, IdleShape
    <3> QED BY <2>3, <3>1, <3>2
  <2> QED BY <1>7, <2>2, <2>3, <2>4, ReadsKeep DEF Switches!ReadDate, Switches!settings, Switches!ghosts
<1>8. CASE Switches!ReadTitles(t)
  <2> DEFINE q == IF Switches!TitleIsNew(setting[t].date, setting[t].title) THEN DateLooked(setting[t], Switches!Numbers) ELSE Switches!Idle
  <2>1. Switches!At(t, "publish", "compares") /\ Switches!Go(t, q)
    BY <1>8 DEF Switches!ReadTitles, DateLooked
  <2>2. setting[t] \in Publishing /\ setting[t] # Switches!Idle
    BY <1>0, <2>1, SettingShape DEF Switches!At, Switches!Idle
  <2>3. Switches!Numbers \in KnownNumbers /\ Switches!Numbers \subseteq Nat
    BY <1>0 DEF Switches!Numbers, SettingsType, KnownNumbers
  <2>4. q \in SettingShapes /\ (q = Switches!Idle \/ q.since = setting[t].since) /\ Switches!Idle.op = "none"
    <3>1. CASE q = Switches!Idle
      BY <3>1, IdleShape
    <3> HIDE DEF q
    <3>2. CASE q = DateLooked(setting[t], Switches!Numbers)
      <4>1. q \in Publishing /\ q.since = setting[t].since
        BY <2>2, <2>3, <3>2, Compares, DateLooks, Copies, CountsText, OperationsKeep
      <4> QED BY <4>1, Compares, DateLooks, Copies, CountsText, OperationsKeep, IdleShape
    <3> QED BY <3>1, <3>2 DEF q
  <2>5. q # Switches!Idle => Switches!TitleIsNew(setting[t].date, setting[t].title) /\ q.date = setting[t].date /\ q.title = setting[t].title /\ q.knew = Switches!Numbers
    <3>1. q # Switches!Idle => q = DateLooked(setting[t], Switches!Numbers) /\ Switches!TitleIsNew(setting[t].date, setting[t].title)
      OBVIOUS
    <3> HIDE DEF q
    <3> QED BY <2>2, <2>3, <3>1, Compares, DateLooks, Copies, CountsText, OperationsKeep
  <2>6. \A n \in Switches!Numbers : n <= n
    BY <2>3
  <2>9. q = Switches!Idle \/ q \in Publishing
    <3>1. q = Switches!Idle \/ q = DateLooked(setting[t], Switches!Numbers)
      OBVIOUS
    <3> HIDE DEF q
    <3> QED BY <2>2, <2>3, <3>1, Compares, DateLooks, Copies, CountsText, OperationsKeep
  <2> HIDE DEF q
  <2>7. q.op = "publish" /\ q.pc = "writes" =>
           /\ \A n \in q.knew : \E m \in Switches!Numbers : n <= m
           /\ \A d \in Dates : d # q.date /\ daily[d] # Switches!NoText /\ daily[d].title = q.title => daily[d].number \notin q.knew
    BY <2>4, <2>5, <2>6 DEF Switches!TitleIsNew
  <2>8. q.op # "policy"
    BY <2>9, IdleShape, Compares, DateLooks, Copies, CountsText, OperationsKeep
  <2> QED BY <1>8, <2>1, <2>2, <2>4, <2>7, <2>8, ReadsKeep DEF Switches!ReadTitles, Switches!settings, Switches!ghosts
<1>9. CASE Switches!ReadSwitch(t)
  <2>1. PICK g \in Groups, s \in Senders :
          Switches!Go(t, [op |-> "check", pc |-> "asks", group |-> g, sender |-> s, enabled |-> Switches!GroupEnabled(g), since |-> setTime])
    BY <1>9 DEF Switches!ReadSwitch
  <2> DEFINE q == [op |-> "check", pc |-> "asks", group |-> g, sender |-> s, enabled |-> Switches!GroupEnabled(g), since |-> setTime]
  <2>2. q \in SettingShapes
    BY <1>0 DEF SettingShapes, Busy, Checking, Switches!GroupEnabled
  <2>3. q.op = "check" /\ q.since = setTime
    OBVIOUS
  <2> HIDE DEF q
  <2> QED BY <1>9, <2>1, <2>2, <2>3, ReadsKeep DEF q, Switches!ReadSwitch, Switches!settings, Switches!ghosts
<1>10. CASE Switches!ReadCapability(t)
  <2>1. Switches!At(t, "check", "asks")
    BY <1>10 DEF Switches!ReadCapability
  <2>2. setting[t] \in Checking /\ setting[t] # Switches!Idle
    BY <1>0, <2>1, SettingShape DEF Switches!At, Switches!Idle
  <2>3. PICK q : Switches!Go(t, q) /\ q \in {Switches!Idle, TextCounted(setting[t], setTime)}
    BY <1>10 DEF Switches!ReadCapability, TextCounted
  <2>4. q \in SettingShapes /\ (q = Switches!Idle \/ (q.since = setTime /\ q.op = "check")) /\ Switches!Idle.op = "none"
    <3>1. CASE q = Switches!Idle
      BY <3>1, IdleShape
    <3>2. CASE q = TextCounted(setting[t], setTime)
      <4>1. q \in Checking /\ q.since = setTime
        BY <1>0, <2>2, <3>2, Compares, DateLooks, Copies, CountsText, OperationsKeep
      <4> QED BY <4>1, Compares, DateLooks, Copies, CountsText, OperationsKeep, IdleShape
    <3> QED BY <2>3, <3>1, <3>2
  <2> QED BY <1>10, <2>3, <2>4, ReadsKeep DEF Switches!ReadCapability, Switches!settings, Switches!ghosts
<1>11. CASE Switches!Fail(t)
  BY <1>11, ReadsKeep, IdleShape DEF Switches!Fail, Switches!End, Switches!settings, Switches!ghosts
<1> QED BY <1>1, <1>2, <1>3, <1>4, <1>5, <1>6, <1>7, <1>8, <1>9, <1>10, <1>11

\* ReadPolicy may change the defaults under another update, which is then remembered.
LEMMA ReadPolicyKeeps ==
  ASSUME Switches!SettingsAssumption, SettingsInv, NEW t \in Threads, Switches!ReadPolicy(t)
  PROVE  SettingsInv'
<1>0. SettingsType /\ SettingWaits /\ OffInv /\ RareInv /\ RulesInv /\ NumbersInv /\ TitlesInv /\ setTime \in Nat
  BY DEF SettingsInv, SettingsType, Switches!SettingsAssumption
<1>1. PICK p \in [{"min", "max"} -> Lengths] :
       /\ Switches!Go(t, [op |-> "policy", pc |-> "looks", shared |-> policy = Switches!NoPolicy, policy |-> p, since |-> setTime])
       /\ defaults' = IF policy = Switches!NoPolicy THEN p ELSE defaults
       /\ tangled' = (tangled \/ (policy = Switches!NoPolicy /\ \E o \in Threads : Switches!At(o, "policy", "copies") /\ setting[o].shared))
  BY DEF Switches!ReadPolicy
<1>2. p \in PolicyBounds
  <2>1. p = [min |-> p.min, max |-> p.max] /\ p.min \in Lengths /\ p.max \in Lengths
    OBVIOUS
  <2> QED BY <2>1 DEF PolicyBounds
<1> DEFINE q == [op |-> "policy", pc |-> "looks", shared |-> policy = Switches!NoPolicy, policy |-> p, since |-> setTime]
<1>3. q \in SettingShapes /\ q.pc = "looks" /\ q.op = "policy" /\ q.since = setTime
  <2>1. (policy = Switches!NoPolicy) \in BOOLEAN
    OBVIOUS
  <2>2. q \in Editing
    BY <1>0, <1>2, <2>1 DEF Editing
  <2> QED BY <2>2, OperationsKeep
<1> HIDE DEF q
<1>4. Switches!Go(t, q) /\ UNCHANGED <<features, repeat, bots, policy, daily, cooling, setTime, off, said, known>>
  BY <1>1 DEF q, Switches!ReadPolicy, Switches!settings
<1>5. setting' \in [Threads -> SettingShapes] /\ setting'[t] = q /\ \A u \in Threads \ {t} : setting'[u] = setting[u]
  BY <1>0, <1>3, <1>4, SettingMoves
<1>6. SettingsType'
  <2>1. defaults' \in PolicyBounds
    BY <1>0, <1>1, <1>2 DEF SettingsType
  <2> QED BY <1>0, <1>4, <1>5, <2>1 DEF SettingsType
<1>7. SettingWaits'
  BY <1>0, <1>3, <1>4, WaitsStay
<1>8. OffInv' /\ RareInv'
  BY <1>0, <1>4 DEF OffInv, RareInv
<1>9. NumbersInv' /\ TitlesInv'
  BY <1>0, <1>3, <1>4, TextsStay
<1>10. RulesInv'
  <2>1. tangled => tangled'
    BY <1>1
  <2>2. policy' = Switches!NoPolicy \/ Switches!RuleOk(policy') \/ tangled'
    BY <1>0, <1>4, <2>1 DEF RulesInv
  <2>3. ASSUME NEW u \in Threads, Switches!At(u, "policy", "copies")' PROVE tangled' \/ Switches!RuleOk(Switches!Edited(setting[u]))'
    <3>1. u # t /\ setting'[u] = setting[u] /\ Switches!At(u, "policy", "copies")
      BY <1>3, <1>5, <2>3 DEF Switches!At
    <3>2. tangled \/ Switches!RuleOk(Switches!Edited(setting[u]))
      BY <1>0, <3>1 DEF RulesInv
    <3>3. CASE policy = Switches!NoPolicy /\ setting[u].shared
      BY <1>1, <3>1, <3>3
    <3>4. CASE policy # Switches!NoPolicy
      BY <1>1, <2>1, <3>1, <3>2, <3>4 DEF Switches!Edited, Switches!RuleOk
    <3>5. CASE ~setting[u].shared
      BY <2>1, <3>1, <3>2, <3>5 DEF Switches!Edited, Switches!RuleOk
    <3> QED BY <3>3, <3>4, <3>5
  <2>4. ASSUME NEW u \in Threads, Switches!At(u, "policy", "writes")' PROVE tangled' \/ Switches!RuleOk(setting'[u].policy)
    <3>1. u # t /\ setting'[u] = setting[u] /\ Switches!At(u, "policy", "writes")
      BY <1>3, <1>5, <2>4 DEF Switches!At
    <3> QED BY <1>0, <2>1, <3>1 DEF RulesInv
  <2> QED BY <2>2, <2>3, <2>4 DEF RulesInv, Switches!RuleOk
<1> QED BY <1>6, <1>7, <1>8, <1>9, <1>10 DEF SettingsInv

\* What a request that ends leaves as it was.
LEMMA EndKeeps ==
  ASSUME Switches!SettingsAssumption, SettingsInv, NEW t \in Threads, Switches!End(t), UNCHANGED setTime
  PROVE  /\ setting' \in [Threads -> SettingShapes] /\ SettingWaits'
         /\ UNCHANGED <<policy, defaults, tangled>> => RulesInv'
         /\ UNCHANGED <<daily, known>> => NumbersInv' /\ TitlesInv'
<1>1. SettingsType /\ SettingWaits /\ RulesInv /\ NumbersInv /\ TitlesInv /\ Switches!Go(t, Switches!Idle)
  BY DEF SettingsInv, Switches!End
<1> QED BY <1>1, IdleShape, SettingMoves, WaitsStay, RulesStay, TextsStay

LEMMA WriteFeaturesKeeps ==
  ASSUME Switches!SettingsAssumption, SettingsInv, NEW t \in Threads, Switches!WriteFeatures(t)
  PROVE  SettingsInv'
<1>0. SettingsType /\ OffInv /\ RareInv
  BY DEF SettingsInv
<1>1. /\ Switches!End(t) /\ UNCHANGED <<bots, policy, defaults, daily, cooling, setTime, said, known, tangled>>
  BY DEF Switches!WriteFeatures
<1>2. setting[t] \in Featuring
  BY <1>0, SettingShape DEF Switches!WriteFeatures, Switches!At
<1> DEFINE q == setting[t]
<1>3. q.group \in Groups /\ q.capability \in Switches!Capabilities /\ q.enabled \in BOOLEAN /\ q.copy \in FeatureShapes
  BY <1>2 DEF Featuring
<1>4. /\ features' = [features EXCEPT ![q.group] = [q.copy EXCEPT ![q.capability] = Switches!Said(q.enabled)]]
      /\ repeat' = Switches!Overridden(q.group, q.capability, q.enabled)
      /\ off' = IF q.capability # "repeat" THEN off ELSE IF q.enabled THEN off \ {q.group} ELSE off \cup {q.group}
  BY DEF Switches!WriteFeatures
<1>5. Switches!Said(TRUE) = "on" /\ Switches!Said(FALSE) = "off" /\ Switches!Said(q.enabled) \in Switches!Switch
  BY <1>3 DEF Switches!Said, Switches!Switch
<1> HIDE DEF q
<1>6. features' \in [Groups -> FeatureShapes]
  <2>1. [q.copy EXCEPT ![q.capability] = Switches!Said(q.enabled)] \in FeatureShapes
    BY <1>3, <1>5 DEF FeatureShapes
  <2> QED BY <1>0, <1>3, <1>4, <2>1 DEF SettingsType
<1>7. /\ repeat' \in SwitchRecords
      /\ q.capability # "repeat" => repeat' = repeat
      /\ q.capability = "repeat" => repeat'.groups[q.group] = Switches!Said(q.enabled) /\ \A g \in Groups \ {q.group} : repeat'.groups[g] = repeat.groups[g]
  <2>1. repeat \in SwitchRecords
    BY <1>0 DEF SettingsType
  <2> QED BY <1>3, <1>4, <1>5, <2>1 DEF Switches!Overridden, SwitchRecords
<1>8. OffInv' /\ off' \subseteq Groups
  <2>1. off \subseteq Groups
    BY <1>0 DEF SettingsType
  <2> QED BY <1>0, <1>3, <1>4, <1>5, <1>7, <2>1 DEF OffInv
<1>9. SettingsType'
  BY <1>0, <1>1, <1>6, <1>7, <1>8, EndKeeps DEF SettingsType
<1>10. RareInv'
  BY <1>0, <1>1 DEF RareInv
<1> QED BY <1>1, <1>8, <1>9, <1>10, EndKeeps DEF SettingsInv

LEMMA WriteRepeatKeeps ==
  ASSUME Switches!SettingsAssumption, SettingsInv, NEW t \in Threads, Switches!WriteRepeat(t)
  PROVE  SettingsInv'
<1>0. SettingsType /\ OffInv /\ RareInv /\ repeat \in SwitchRecords /\ off \subseteq Groups
  BY DEF SettingsInv, SettingsType
<1>1. /\ Switches!End(t) /\ UNCHANGED <<features, bots, policy, defaults, daily, cooling, setTime, said, known, tangled>>
  BY DEF Switches!WriteRepeat
<1>2. setting[t] \in Repeating
  BY <1>0, SettingShape DEF Switches!WriteRepeat, Switches!At
<1> DEFINE q == setting[t]
<1>3. q.groups \subseteq Groups /\ q.enabled \in BOOLEAN /\ q.copy \in SwitchRecords
  BY <1>2 DEF Repeating
<1>4. repeat' = Switches!Switched(q) /\ off' = IF q.copy # repeat THEN {} ELSE IF q.enabled THEN off \ q.groups ELSE off
  BY DEF Switches!WriteRepeat
<1>5. Switches!Said(TRUE) = "on" /\ Switches!Said(FALSE) = "off" /\ Switches!Said(q.enabled) \in Switches!Switch
  BY <1>3 DEF Switches!Said, Switches!Switch
<1> HIDE DEF q
<1>6. /\ repeat' \in SwitchRecords
      /\ \A g \in Groups : repeat'.groups[g] = IF g \in q.groups THEN Switches!Said(q.enabled) ELSE q.copy.groups[g]
  <2>1. CASE q.groups = {}
    BY <1>3, <1>4, <1>5, <2>1 DEF Switches!Switched, SwitchRecords
  <2>2. CASE q.groups # {}
    BY <1>3, <1>4, <1>5, <2>2 DEF Switches!Switched, SwitchRecords
  <2> QED BY <2>1, <2>2
<1>7. OffInv' /\ off' \subseteq Groups
  BY <1>0, <1>3, <1>4, <1>5, <1>6 DEF OffInv
<1>8. SettingsType'
  BY <1>0, <1>1, <1>6, <1>7, EndKeeps DEF SettingsType
<1>9. RareInv'
  BY <1>0, <1>1 DEF RareInv
<1> QED BY <1>1, <1>7, <1>8, <1>9, EndKeeps DEF SettingsInv

LEMMA WriteOthersKeep ==
  ASSUME Switches!SettingsAssumption, SettingsInv, NEW t \in Threads, Switches!WriteBots(t) \/ Switches!WritePolicy(t) \/ Switches!Refuse(t)
  PROVE  SettingsInv'
<1>0. SettingsType /\ SettingWaits /\ OffInv /\ RareInv /\ RulesInv /\ NumbersInv /\ TitlesInv
  BY DEF SettingsInv
<1>1. CASE Switches!WriteBots(t)
  <2>1. /\ Switches!End(t) /\ UNCHANGED <<features, repeat, policy, defaults, daily, cooling, setTime, off, said, known, tangled>>
        /\ bots' = IF setting[t].add THEN setting[t].copy \cup {setting[t].account} ELSE setting[t].copy \ {setting[t].account}
    BY <1>1 DEF Switches!WriteBots, Switches!ghosts
  <2>2. setting[t].copy \subseteq Senders /\ setting[t].account \in Senders
    BY <1>0, <1>1, SettingShape DEF Switches!WriteBots, Switches!At, Guarding
  <2>3. SettingsType'
    BY <1>0, <2>1, <2>2, EndKeeps DEF SettingsType
  <2>4. OffInv' /\ RareInv'
    BY <1>0, <2>1 DEF OffInv, RareInv
  <2> QED BY <2>1, <2>3, <2>4, EndKeeps DEF SettingsInv
<1>2. CASE Switches!WritePolicy(t)
  <2>1. /\ Switches!End(t) /\ UNCHANGED <<features, repeat, bots, defaults, daily, cooling, setTime, off, said, known, tangled>>
        /\ policy' = setting[t].policy /\ Switches!At(t, "policy", "writes")
    BY <1>2 DEF Switches!WritePolicy, Switches!ghosts
  <2>2. Switches!RuleOk(policy') \/ tangled'
    BY <1>0, <2>1 DEF RulesInv
  <2>3. SettingsType'
    BY <1>0, <2>1, EndKeeps DEF SettingsType
  <2>4. OffInv' /\ RareInv'
    BY <1>0, <2>1 DEF OffInv, RareInv
  <2>5. setting'[t] = Switches!Idle /\ \A u \in Threads \ {t} : setting'[u] = setting[u]
    BY <1>0, <2>1, IdleShape, SettingMoves DEF Switches!End
  <2>6. RulesInv'
    BY <1>0, <2>1, <2>2, <2>5, IdleShape DEF RulesInv, Switches!At, Switches!Edited, Switches!RuleOk
  <2> QED BY <2>1, <2>3, <2>4, <2>6, EndKeeps DEF SettingsInv
<1>3. CASE Switches!Refuse(t)
  <2>1. UNCHANGED <<features, repeat, bots, policy, defaults, daily, cooling, setTime, setting, off, said, known, tangled>>
    BY <1>3 DEF Switches!Refuse, Switches!ghosts
  <2> QED BY <2>1 DEF SettingsInv, SettingsType, SettingWaits, OffInv, RareInv, RulesInv, NumbersInv, TitlesInv, Switches!At, Switches!Edited, Switches!RuleOk, Switches!Numbers, NumbersBounded
<1> QED BY <1>1, <1>2, <1>3

LEMMA OthersKeep == Switches!SettingsAssumption /\ SettingsInv /\ (Switches!Tick \/ Switches!Restart \/ UNCHANGED Switches!vars) => SettingsInv'
<1> SUFFICES ASSUME Switches!SettingsAssumption, SettingsInv, Switches!Tick \/ Switches!Restart \/ UNCHANGED Switches!vars PROVE SettingsInv'
  OBVIOUS
<1>0. SettingsType /\ SettingWaits /\ OffInv /\ RareInv /\ RulesInv /\ NumbersInv /\ TitlesInv /\ setTime \in Nat /\ Wait \in Nat /\ Forget \in Nat
  BY DEF SettingsInv, SettingsType, Switches!SettingsAssumption
<1>1. CASE UNCHANGED Switches!vars
  BY <1>0, <1>1 DEF SettingsInv, SettingsType, SettingWaits, OffInv, RareInv, RulesInv, NumbersInv, TitlesInv, Switches!At, Switches!Edited, Switches!RuleOk, Switches!Numbers, NumbersBounded,
     Switches!vars, Switches!settings, Switches!ghosts
<1>2. CASE Switches!Tick
  <2>1. /\ setTime' = setTime + 1 /\ setTime < MaxTime /\ \A t \in Threads : setting[t] # Switches!Idle => setTime < setting[t].since + Wait
        /\ UNCHANGED <<features, repeat, bots, policy, defaults, daily, cooling, setting, off, said, known, tangled>>
    BY <1>2 DEF Switches!Tick, Switches!settings, Switches!ghosts
  <2>2. SettingsType'
    BY <1>0, <2>1 DEF SettingsType, Switches!SettingsAssumption
  <2>3. \A t \in Threads : setting[t] # Switches!Idle => setting[t].since \in Nat
    <3>1. \A x \in Busy : x.since \in Nat
      BY DEF Busy, Featuring, Repeating, Guarding, Editing, Publishing, Checking
    <3> QED BY <1>0, <3>1 DEF SettingsType, SettingShapes
  <2>4. SettingWaits'
    BY <1>0, <2>1, <2>3 DEF SettingWaits
  <2>5. OffInv' /\ RulesInv' /\ NumbersInv' /\ TitlesInv'
    BY <1>0, <2>1 DEF OffInv, RulesInv, NumbersInv, TitlesInv, Switches!At, Switches!Edited, Switches!RuleOk, Switches!Numbers, NumbersBounded
  <2>6. RareInv'
    <3>1. \A g \in Groups : cooling[g] \in Nat /\ said[g] \subseteq Nat
      BY <1>0 DEF SettingsType
    <3> QED BY <1>0, <2>1, <3>1 DEF RareInv
  <2> QED BY <2>2, <2>4, <2>5, <2>6 DEF SettingsInv
<1>3. CASE Switches!Restart
  <2>1. /\ \A t \in Threads : setting'[t] = Switches!Idle
        /\ setting' = [t \in Threads |-> Switches!Idle] /\ defaults' = Switches!Given
        /\ UNCHANGED <<features, repeat, bots, policy, daily, cooling, setTime, off, said, known, tangled>>
    BY <1>3 DEF Switches!Restart, Switches!settings, Switches!ghosts
  <2>2. SettingsType'
    <3>1. Switches!Given \in PolicyBounds
      BY DEF Switches!Given, PolicyBounds
    <3> QED BY <1>0, <2>1, <3>1 DEF SettingsType, SettingShapes
  <2>3. SettingWaits' /\ OffInv' /\ RareInv' /\ RulesInv'
    BY <1>0, <2>1, IdleShape DEF SettingWaits, OffInv, RareInv, RulesInv, Switches!At, Switches!RuleOk
  <2>4. NumbersInv' /\ TitlesInv'
    BY <1>0, <2>1, IdleShape DEF NumbersInv, TitlesInv, Switches!At, Switches!Numbers, NumbersBounded
  <2> QED BY <2>2, <2>3, <2>4 DEF SettingsInv
<1> QED BY <1>1, <1>2, <1>3

\* A check that repeats keeps the cooldown, though its time is older than that of others.
LEMMA CountKeeps ==
  ASSUME Switches!SettingsAssumption, SettingsInv, NEW t \in Threads, Switches!Count(t)
  PROVE  SettingsInv'
<1>0. SettingsType /\ SettingWaits /\ OffInv /\ RareInv
  BY DEF SettingsInv
<1>t. /\ setTime \in Nat /\ Wait \in Nat /\ Forget \in Nat /\ Cooldown \in Nat /\ Cooldown + Wait <= Forget /\ setTime <= MaxTime /\ MaxTime \in Nat
      /\ \A g \in Groups : cooling[g] \in Nat /\ said[g] \subseteq Nat
      /\ cooling \in [Groups -> Nat] /\ said \in [Groups -> SUBSET Nat]
  BY <1>0 DEF SettingsType, Switches!SettingsAssumption
<1>1. /\ Switches!End(t) /\ UNCHANGED <<features, repeat, bots, policy, defaults, daily, setTime, off, known, tangled>>
  BY DEF Switches!Count, Switches!settings
<1>2. setting[t] \in Checking /\ setting[t] # Switches!Idle
  BY <1>0, SettingShape DEF Switches!Count, Switches!At, Switches!Idle
<1> DEFINE g == setting[t].group
           n == setting[t].since
<1>3. g \in Groups /\ n \in Nat /\ n <= setTime /\ setTime <= n + Wait
  BY <1>0, <1>2 DEF Checking, SettingWaits
<1>4. PICK joins \in BOOLEAN :
        /\ joins => Switches!Ready(g, n)
        /\ cooling' = [h \in Groups |-> IF Switches!Forgotten((IF joins THEN [cooling EXCEPT ![g] = n] ELSE cooling)[h], n) THEN Switches!NoTime
                                        ELSE (IF joins THEN [cooling EXCEPT ![g] = n] ELSE cooling)[h]]
        /\ said' = IF joins THEN [said EXCEPT ![g] = @ \cup {n}] ELSE said
  <2> DEFINE remembered == {m \in recent : m.at + 2 * Window >= n}
             senders == {m.sender : m \in {k \in remembered : k.group = g /\ k.at + Window >= n}} \cup {setting[t].sender}
             joins == Switches!Cardinality(senders) >= 2 /\ Switches!Ready(g, n)
  <2>1. joins \in BOOLEAN /\ (joins => Switches!Ready(g, n))
    OBVIOUS
  <2>2. /\ cooling' = [h \in Groups |-> IF Switches!Forgotten((IF joins THEN [cooling EXCEPT ![g] = n] ELSE cooling)[h], n) THEN Switches!NoTime
                                        ELSE (IF joins THEN [cooling EXCEPT ![g] = n] ELSE cooling)[h]]
        /\ said' = IF joins THEN [said EXCEPT ![g] = @ \cup {n}] ELSE said
    BY DEF Switches!Count
  <2> HIDE DEF joins, remembered, senders
  <2> QED BY <2>1, <2>2
<1> HIDE DEF g, n
<1>5. n # Switches!NoTime /\ Switches!NoTime \in Nat /\ ~Switches!Forgotten(n, n)
  BY <1>3, <1>t DEF Switches!NoTime, Switches!Forgotten
<1>6. \A h \in Groups :
        /\ joins /\ h = g => cooling'[h] = n /\ said'[h] = said[h] \cup {n}
        /\ ~(joins /\ h = g) => cooling'[h] = (IF Switches!Forgotten(cooling[h], n) THEN Switches!NoTime ELSE cooling[h]) /\ said'[h] = said[h]
  BY <1>3, <1>4, <1>5, <1>t
<1>7. cooling' \in [Groups -> Nat] /\ said' \in [Groups -> SUBSET Nat]
  <2>1. \A h \in Groups : cooling'[h] \in Nat /\ said'[h] \in SUBSET Nat
    BY <1>3, <1>5, <1>6, <1>t
  <2>2. cooling' = [h \in Groups |-> cooling'[h]] /\ said' = [h \in Groups |-> said'[h]]
    BY <1>4, <1>t
  <2> QED BY <2>1, <2>2
<1>8. SettingsType'
  BY <1>0, <1>1, <1>7, EndKeeps DEF SettingsType
<1>9. RareInv'
  <2> SUFFICES ASSUME NEW h \in Groups
               PROVE  /\ cooling'[h] # Switches!NoTime => cooling'[h] <= setTime' /\ \A s \in said'[h] : s <= cooling'[h]
                      /\ cooling'[h] = Switches!NoTime => \A s \in said'[h] : s + Forget < setTime'
                      /\ \A k, m \in said'[h] : k < m => m >= k + Cooldown
    BY DEF RareInv
  <2>0. /\ cooling[h] # Switches!NoTime => cooling[h] <= setTime /\ \A s \in said[h] : s <= cooling[h]
        /\ cooling[h] = Switches!NoTime => \A s \in said[h] : s + Forget < setTime
        /\ \A k, m \in said[h] : k < m => m >= k + Cooldown
    BY <1>0 DEF RareInv
  <2>1. CASE joins /\ h = g
    <3>1. cooling'[h] = n /\ said'[h] = said[h] \cup {n} /\ Switches!Ready(h, n)
      BY <1>4, <1>6, <2>1
    <3>2. ASSUME NEW s \in said[h] PROVE n >= s + Cooldown
      <4>1. s \in Nat /\ cooling[h] \in Nat
        BY <1>t
      <4>2. CASE cooling[h] = Switches!NoTime
        BY <1>3, <1>t, <2>0, <4>1, <4>2
      <4>3. CASE cooling[h] # Switches!NoTime
        BY <1>3, <1>t, <2>0, <3>1, <4>1, <4>3 DEF Switches!Ready
      <4> QED BY <4>2, <4>3
    <3>3. ASSUME NEW k \in said'[h], NEW m \in said'[h], k < m PROVE m >= k + Cooldown
      <4>1. \A s \in said[h] : s \in Nat
        BY <1>t
      <4> QED BY <1>3, <1>t, <2>0, <3>1, <3>2, <3>3, <4>1
    <3>4. \A s \in said'[h] : s <= n
      BY <1>3, <1>t, <3>1, <3>2
    <3> QED BY <1>1, <1>3, <1>5, <3>1, <3>3, <3>4
  <2>2. CASE ~(joins /\ h = g)
    <3>1. cooling'[h] = (IF Switches!Forgotten(cooling[h], n) THEN Switches!NoTime ELSE cooling[h]) /\ said'[h] = said[h]
      BY <1>6, <2>2
    <3>2. CASE Switches!Forgotten(cooling[h], n)
      <4>1. cooling[h] # Switches!NoTime /\ cooling[h] + Forget < n
        BY <3>2 DEF Switches!Forgotten
      <4>2. \A s \in said[h] : s + Forget < setTime
        BY <1>3, <1>t, <2>0, <4>1
      <4> QED BY <1>1, <2>0, <3>1, <3>2, <4>2
    <3>3. CASE ~Switches!Forgotten(cooling[h], n)
      BY <1>1, <2>0, <3>1, <3>3
    <3> QED BY <3>2, <3>3
  <2> QED BY <2>1, <2>2
<1>10. OffInv'
  BY <1>0, <1>1 DEF OffInv
<1> QED BY <1>1, <1>8, <1>9, <1>10, EndKeeps DEF SettingsInv

\* There is a largest number of a text.
LEMMA Largest ==
  ASSUME SettingsType, NumbersInv, Dates # {}
  PROVE  Switches!Max(Switches!Numbers) \in Switches!Numbers /\ Switches!Max(Switches!Numbers) \in Nat /\ \A n \in Switches!Numbers : n <= Switches!Max(Switches!Numbers)
<1>1. Switches!Numbers \subseteq Nat /\ Switches!Numbers # {}
  BY DEF SettingsType, Switches!Numbers
<1> DEFINE S == {b \in Nat : NumbersBounded(b)}
<1>2. S # {}
  BY DEF NumbersInv
<1>3. PICK b \in S : \A c \in S : b <= c
  BY <1>2, Smallest
<1>4. b \in Switches!Numbers
  <2>1. SUFFICES ASSUME b \notin Switches!Numbers PROVE FALSE
    OBVIOUS
  <2>2. \A n \in Switches!Numbers : n < b
    BY <1>1, <1>3, <2>1 DEF NumbersBounded
  <2>3. b - 1 \in Nat
    <3>1. PICK n \in Switches!Numbers : n < b
      BY <1>1, <2>2
    <3> QED BY <1>1, <3>1
  <2>4. \A n \in Switches!Numbers : n <= b - 1
    BY <1>1, <2>2
  <2>5. b - 1 \in S
    BY <2>3, <2>4 DEF NumbersBounded
  <2> QED BY <1>3, <2>5
<1>5. \A n \in Switches!Numbers : b >= n
  BY <1>1, <1>3 DEF NumbersBounded
<1>6. Switches!Max(Switches!Numbers) \in Switches!Numbers /\ \A n \in Switches!Numbers : Switches!Max(Switches!Numbers) >= n
  BY <1>4, <1>5 DEF Switches!Max
<1> QED BY <1>1, <1>6

LEMMA WriteTextKeeps ==
  ASSUME Switches!SettingsAssumption, SettingsInv, NEW t \in Threads, Switches!WriteText(t)
  PROVE  SettingsInv'
<1>0. SettingsType /\ OffInv /\ RareInv /\ NumbersInv /\ TitlesInv
  BY DEF SettingsInv
<1>1. /\ Switches!End(t) /\ UNCHANGED <<features, repeat, bots, policy, defaults, cooling, setTime, off, said, tangled>> /\ Switches!At(t, "publish", "writes")
  BY DEF Switches!WriteText
<1> DEFINE q == setting[t]
           top == Switches!Max(Switches!Numbers)
<1>2. q.date \in Dates /\ q.title \in Titles /\ q.knew \subseteq Nat
  BY <1>0, <1>1, SettingShape DEF Switches!At, Publishing, KnownNumbers
<1>3. /\ daily' = [daily EXCEPT ![q.date] = [title |-> q.title, number |-> top + 1]]
      /\ known' = [known EXCEPT ![q.date] = q.knew]
  BY DEF Switches!WriteText
<1>4. top \in Switches!Numbers /\ top \in Nat /\ \A n \in Switches!Numbers : n <= top
  BY <1>0, <1>2, Largest
<1>5. setting'[t] = Switches!Idle /\ \A u \in Threads \ {t} : setting'[u] = setting[u]
  BY <1>0, <1>1, IdleShape, SettingMoves DEF Switches!End
<1>6. \A u \in Threads : Switches!At(u, "publish", "writes")' => Switches!At(u, "publish", "writes") /\ setting'[u] = setting[u]
  BY <1>5, IdleShape DEF Switches!At
<1>7. /\ \A n \in q.knew : \E m \in Switches!Numbers : n <= m
      /\ \A d \in Dates : d # q.date /\ daily[d] # Switches!NoText /\ daily[d].title = q.title => daily[d].number \notin q.knew
  BY <1>0, <1>1 DEF NumbersInv, TitlesInv
<1> HIDE DEF q, top
<1>8. /\ \A d \in Dates : d # q.date => daily'[d] = daily[d] /\ known'[d] = known[d]
      /\ daily'[q.date].title = q.title /\ daily'[q.date].number = top + 1 /\ known'[q.date] = q.knew
  BY <1>0, <1>2, <1>3 DEF SettingsType
<1>9. daily' \in [Dates -> [title : Titles \cup {"none"}, number : Nat]] /\ known' \in [Dates -> SUBSET Nat]
  BY <1>0, <1>2, <1>3, <1>4 DEF SettingsType
<1>10. SettingsType'
  BY <1>0, <1>1, <1>9, EndKeeps DEF SettingsType
<1>11. top + 1 \in Switches!Numbers' /\ \A n \in Switches!Numbers' : n <= top + 1
  <2>1. top + 1 \in Switches!Numbers'
    BY <1>2, <1>8 DEF Switches!Numbers
  <2>2. ASSUME NEW d \in Dates PROVE daily'[d].number <= top + 1
    <3>1. CASE d = q.date
      BY <1>4, <1>8, <3>1
    <3>2. CASE d # q.date
      <4>1. daily'[d].number = daily[d].number /\ daily[d].number \in Switches!Numbers /\ daily[d].number \in Nat
        BY <1>0, <1>8, <3>2 DEF Switches!Numbers, SettingsType
      <4> QED BY <1>4, <4>1
    <3> QED BY <3>1, <3>2
  <2> QED BY <2>1, <2>2 DEF Switches!Numbers
<1>12. ASSUME NEW n \in Nat, \E m \in Switches!Numbers : n <= m PROVE n <= top + 1 /\ n # top + 1
  <2>1. PICK m \in Switches!Numbers : n <= m
    BY <1>12
  <2>2. m <= top /\ m \in Nat
    BY <1>0, <1>4, <2>1 DEF Switches!Numbers, SettingsType
  <2> QED BY <1>4, <2>1, <2>2
<1>13. NumbersInv'
  <2>1. \E b \in Nat : \A n \in Switches!Numbers' : n <= b
    BY <1>4, <1>11
  <2>2. ASSUME NEW d \in Dates, NEW n \in known'[d] PROVE \E m \in Switches!Numbers' : n <= m
    <3>1. n \in Nat /\ \E m \in Switches!Numbers : n <= m
      BY <1>0, <1>2, <1>7, <1>8, <2>2 DEF NumbersInv, SettingsType
    <3> QED BY <1>11, <1>12, <3>1
  <2>3. ASSUME NEW u \in Threads, Switches!At(u, "publish", "writes")', NEW n \in setting'[u].knew PROVE \E m \in Switches!Numbers' : n <= m
    <3>1. Switches!At(u, "publish", "writes") /\ setting'[u] = setting[u]
      BY <1>6, <2>3
    <3>2. n \in Nat /\ \E m \in Switches!Numbers : n <= m
      BY <1>0, <2>3, <3>1, SettingShape DEF NumbersInv, Switches!At, Publishing, KnownNumbers
    <3> QED BY <1>11, <1>12, <3>2
  <2> QED BY <2>1, <2>2, <2>3 DEF NumbersInv, NumbersBounded
<1>14. TitlesInv'
  <2>1. ASSUME NEW d \in Dates, NEW e \in Dates, d # e, daily'[d] # Switches!NoText, daily'[d].title = daily'[e].title
        PROVE  daily'[d].number \notin known'[e]
    <3>1. CASE d = q.date
      <4>1. known'[e] = known[e] /\ daily'[d].number = top + 1
        BY <1>8, <2>1, <3>1
      <4>2. \A n \in known[e] : n \in Nat /\ \E m \in Switches!Numbers : n <= m
        BY <1>0 DEF NumbersInv, SettingsType
      <4> QED BY <1>12, <4>1, <4>2
    <3>2. CASE e = q.date /\ d # q.date
      BY <1>7, <1>8, <2>1, <3>2
    <3>3. CASE e # q.date /\ d # q.date
      BY <1>0, <1>8, <2>1, <3>3 DEF TitlesInv
    <3> QED BY <3>1, <3>2, <3>3
  <2>2. ASSUME NEW u \in Threads, Switches!At(u, "publish", "writes")', NEW d \in Dates,
               d # setting'[u].date, daily'[d] # Switches!NoText, daily'[d].title = setting'[u].title
        PROVE  daily'[d].number \notin setting'[u].knew
    <3>1. Switches!At(u, "publish", "writes") /\ setting'[u] = setting[u]
      BY <1>6, <2>2
    <3>2. CASE d = q.date
      <4>1. \A n \in setting[u].knew : n \in Nat /\ \E m \in Switches!Numbers : n <= m
        BY <1>0, <3>1, SettingShape DEF NumbersInv, Switches!At, Publishing, KnownNumbers
      <4> QED BY <1>8, <1>12, <3>1, <3>2, <4>1
    <3>3. CASE d # q.date
      BY <1>0, <1>8, <2>2, <3>1, <3>3 DEF TitlesInv
    <3> QED BY <3>2, <3>3
  <2> QED BY <2>1, <2>2 DEF TitlesInv
<1>15. OffInv' /\ RareInv'
  BY <1>0, <1>1 DEF OffInv, RareInv
<1> QED BY <1>1, <1>10, <1>13, <1>14, <1>15, EndKeeps DEF SettingsInv

LEMMA SettingsKeeps == Switches!SettingsAssumption /\ SettingsInv /\ [Switches!Next]_Switches!vars => SettingsInv'
<1> SUFFICES ASSUME Switches!SettingsAssumption, SettingsInv, [Switches!Next]_Switches!vars PROVE SettingsInv'
  OBVIOUS
<1>1. ASSUME NEW t \in Threads,
         Switches!ReadFeatures(t) \/ Switches!ReadRepeat(t) \/ Switches!ReadBots(t) \/ Switches!CheckPolicy(t) \/ Switches!CopyPolicy(t) \/ Switches!ReadRules(t) \/ Switches!ReadDate(t)
         \/ Switches!ReadTitles(t) \/ Switches!ReadSwitch(t) \/ Switches!ReadCapability(t) \/ Switches!Fail(t)
      PROVE SettingsInv'
  BY <1>1, ReadsKeepAll
<1>2. ASSUME NEW t \in Threads,
         Switches!ReadPolicy(t) \/ Switches!WriteFeatures(t) \/ Switches!WriteRepeat(t) \/ Switches!WriteBots(t) \/ Switches!WritePolicy(t) \/ Switches!Refuse(t) \/ Switches!Count(t) \/ Switches!WriteText(t)
      PROVE SettingsInv'
  BY <1>2, ReadPolicyKeeps, WriteFeaturesKeeps, WriteRepeatKeeps, WriteOthersKeep, CountKeeps, WriteTextKeeps
<1> QED BY <1>1, <1>2, OthersKeep DEF Switches!Next

LEMMA SettingsSafe == SettingsInv => Switches!RepeatStaysOff /\ Switches!RepeatsAreRare /\ Switches!ContestRulesHold
BY DEF SettingsInv, OffInv, RareInv, RulesInv, TitlesInv, Switches!RepeatStaysOff, Switches!RepeatsAreRare, Switches!ContestRulesHold, Switches!RuleOk, Switches!Enabled, Switches!GroupEnabled,
   SettingsType

\* In the service, a group that was switched off stays off, a text is repeated once in a
\* cooldown, and the texts of the day keep the rules, whichever requests overlap
\* (set_group_capability, repeat_check, update_ai_contest_policy,
\* publish_ai_contest_text).
THEOREM SettingsAreKept == ServiceSpec => []SettingsHold
<1>1. ServiceInit => SettingsInv
  BY SettingsBegins, ServiceAssumption DEF ServiceInit
<1>2. SettingsInv /\ [ServiceNext]_serviceVars => SettingsInv'
  <2> SUFFICES ASSUME SettingsInv, [ServiceNext]_serviceVars PROVE SettingsInv'
    OBVIOUS
  <2>1. CASE Settings
    BY <2>1, SettingsKeeps, ServiceAssumption DEF Settings
  <2>2. CASE Sessions \/ Archives \/ Scoring \/ Competition \/ UNCHANGED serviceVars
    <3>1. UNCHANGED settings
      BY <2>2 DEF Sessions, Archives, Scoring, Competition, serviceVars
    <3>2. UNCHANGED Switches!vars
      BY <3>1 DEF settings, Switches!vars, Switches!settings, Switches!ghosts
    <3> QED BY <3>2, SettingsKeeps, ServiceAssumption
  <2> QED BY <2>1, <2>2 DEF ServiceNext
<1>3. SettingsInv => SettingsHold
  BY SettingsSafe DEF SettingsHold
<1> QED BY <1>1, <1>2, <1>3, PTL DEF ServiceSpec

(***************************************************************************)
(* The archive of the service: events are kept, answers are recent.        *)
(***************************************************************************)

Storing == [pc : {"asks", "locks", "clears", "commits"}, message : Messages, asked : BOOLEAN, seen : BOOLEAN, since : Nat]
Queueing == [pc : {"queues"}, message : Messages, inserted : BOOLEAN, since : Nat]
Recalling == [pc : {"recalls"}, message : Messages, since : Nat]
Computing == [pc : {"computes"}, result : Results, since : Nat]
Keeping == [pc : {"keeps"}, result : Results, version : Nat, since : Nat]
Importing == [pc : {"imports"}, since : Nat]
StoringShapes == {Archive!Idle} \cup Storing \cup Queueing \cup Recalling \cup Computing \cup Keeping \cup Importing

ArchiveType ==
  /\ storing \in [Threads \cup {Nobody} -> StoringShapes]
  /\ people \in Nat /\ events \in Nat /\ version \in Nat \ {0} /\ storeTime \in Nat
  /\ archive \subseteq Messages /\ scores \subseteq Messages /\ recalls \subseteq Messages /\ stored \subseteq Messages
  /\ told \in [Messages -> Nat] /\ imported \in BOOLEAN /\ group \in BOOLEAN
  /\ queue \in Seq(Messages) /\ changed \in Seq(Nat) /\ Len(changed) = version - 1
  /\ kept \in [Results -> [at : Nat, version : Nat]]

\* What is known of a request at its stage.
MessagesKept(t) ==
  /\ Archive!At(t, "queues") => /\ storing[t].message \in archive
                                /\ ~imported => /\ storing[t].message \in Scores => storing[t].message \in scores
                                                /\ storing[t].inserted => storing[t].message \in scores /\ told[storing[t].message] = 0
  /\ Archive!At(t, "recalls") => storing[t].message \in archive

Announces(t, m) == Archive!At(t, "queues") /\ storing[t].message = m /\ storing[t].inserted

KeptInv ==
  /\ stored \subseteq archive /\ recalls \subseteq archive
  /\ \A t \in Threads : MessagesKept(t)
  /\ ~imported => /\ stored \cap Scores \subseteq scores
                  /\ \A m \in Messages : told[m] <= 1 /\ (m \notin scores => told[m] = 0)
                  /\ \A t, u \in Threads, m \in Messages : Announces(t, m) /\ Announces(u, m) => t = u

\* Requests that have looked for the sender and found nobody.
Unaware == {t \in Threads : \/ storing[t].pc = "locks" /\ storing[t].asked /\ ~storing[t].seen
                            \/ storing[t].pc \in {"clears", "commits"} /\ ~storing[t].seen}

CountInv ==
  /\ people <= events
  /\ people = 0 => events = 0 /\ \A t \in Threads : storing[t].pc \in {"asks", "locks", "clears", "commits"} => ~storing[t].seen
  /\ people > 0 => events + Cardinality(Unaware) < people + Cardinality(Threads)

RecentInv ==
  /\ \A c \in Results : kept[c] # Archive!NoEntry =>
       /\ kept[c].at <= storeTime /\ kept[c].version \in 1..version
       /\ kept[c].version < version => kept[c].at <= changed[kept[c].version] + Slow
  /\ \A t \in Threads : Archive!At(t, "keeps") =>
       /\ storing[t].since <= storeTime /\ storeTime <= storing[t].since + Slow /\ storing[t].version \in 1..version
       /\ storing[t].version < version => storing[t].since <= changed[storing[t].version]
  /\ late = {}

ArchiveInv == ArchiveType /\ KeptInv /\ CountInv /\ RecentInv

\* The sizes of the sets of the archive are those of the library's theorems.
LEMMA SizeIs == ASSUME NEW S PROVE Archive!Cardinality(S) = Cardinality(S) /\ Archive!IsFiniteSet(S) = IsFiniteSet(S)
BY DEF Archive!Cardinality, Archive!IsFiniteSet, Cardinality, IsFiniteSet

LEMMA ArchiveBegins == Archive!ArchiveAssumption /\ Archive!Init => ArchiveInv
<1> SUFFICES ASSUME Archive!ArchiveAssumption, Archive!Init PROVE ArchiveInv
  OBVIOUS
<1>1. ArchiveType
  <2>1. storing \in [Threads \cup {Nobody} -> StoringShapes]
    BY DEF Archive!Init, StoringShapes
  <2>2. queue \in Seq(Messages) /\ changed \in Seq(Nat) /\ Len(changed) = version - 1 /\ version = 1
    BY DEF Archive!Init
  <2>3. kept \in [Results -> [at : Nat, version : Nat]]
    BY DEF Archive!Init, Archive!NoEntry
  <2>4. group \in BOOLEAN /\ imported \in BOOLEAN /\ told \in [Messages -> Nat]
    BY DEF Archive!Init
  <2> QED BY <2>1, <2>2, <2>3, <2>4 DEF ArchiveType, Archive!Init
<1>2. Archive!Idle.pc = "idle" /\ \A t \in Threads : storing[t].pc = "idle"
  BY DEF Archive!Idle, Archive!Init
<1>3. KeptInv
  BY <1>2 DEF KeptInv, MessagesKept, Announces, Archive!At, Archive!Init
<1>4. CountInv
  BY <1>2 DEF CountInv, Archive!Init
<1>5. RecentInv
  BY <1>2 DEF RecentInv, Archive!At, Archive!Init
<1> QED BY <1>1, <1>3, <1>4, <1>5 DEF ArchiveInv

LEMMA StoringMoves ==
  ASSUME ArchiveType, NEW t \in Threads, NEW q \in StoringShapes, Archive!Go(t, q)
  PROVE  storing' \in [Threads \cup {Nobody} -> StoringShapes] /\ storing'[t] = q /\ \A u \in Threads \ {t} : storing'[u] = storing[u]
BY DEF ArchiveType, Archive!Go

\* A commit makes a version and remembers when the one before was superseded.
LEMMA Commits ==
  ASSUME ArchiveType, NEW a \in SUBSET Messages, NEW s \in SUBSET Messages, Archive!Commit(a, s), UNCHANGED storeTime
  PROVE  /\ archive' = a /\ scores' = s
         /\ version' \in Nat \ {0} /\ version <= version'
         /\ changed' \in Seq(Nat) /\ Len(changed') = version' - 1
         /\ \A v \in 1..(version - 1) : changed'[v] = changed[v]
         /\ version < version' => version' = version + 1 /\ changed'[version] = storeTime
<1>1. changed \in Seq(Nat) /\ Len(changed) = version - 1 /\ version \in Nat \ {0} /\ storeTime \in Nat
  BY DEF ArchiveType
<1>2. CASE UNCHANGED <<version, changed>>
  BY <1>1, <1>2 DEF Archive!Commit
<1>3. CASE version' = version + 1 /\ changed' = Append(changed, storeTime)
  BY <1>1, <1>3 DEF Archive!Commit
<1> QED BY <1>2, <1>3 DEF Archive!Commit

LEMMA StoringShape ==
  ASSUME ArchiveType, NEW t \in Threads
  PROVE  /\ storing[t] \in StoringShapes
         /\ storing[t].pc \in {"asks", "locks", "clears", "commits"} => storing[t] \in Storing
         /\ storing[t].pc = "queues" => storing[t] \in Queueing
         /\ storing[t].pc = "recalls" => storing[t] \in Recalling
         /\ storing[t].pc = "computes" => storing[t] \in Computing
         /\ storing[t].pc = "keeps" => storing[t] \in Keeping
         /\ Archive!Idle \in StoringShapes /\ Archive!Idle.pc = "idle"
<1>1. storing[t] \in StoringShapes
  BY DEF ArchiveType
<1> QED BY <1>1 DEF StoringShapes, Archive!Idle, Storing, Queueing, Recalling, Computing, Keeping, Importing

\* Where a request goes and what it remembers there.
LEMMA StoringTypes ==
  ASSUME Archive!ArchiveAssumption, ArchiveType, NEW t \in Threads,
         Archive!Receive(t) \/ Archive!Ask(t) \/ Archive!Begins(t) \/ Archive!Clear(t) \/ Archive!Store(t) \/ Archive!Enqueue(t) \/ Archive!ReadOriginal(t) \/ Archive!Recall(t)
       \/ Archive!Look(t) \/ Archive!Compute(t) \/ Archive!Keep(t) \/ Archive!Import(t) \/ Archive!Replace(t) \/ Archive!Fail(t)
  PROVE  ArchiveType'
<1>a. ArchiveType
  OBVIOUS
<1>t. /\ people \in Nat /\ events \in Nat /\ version \in Nat \ {0} /\ storeTime \in Nat
      /\ archive \subseteq Messages /\ scores \subseteq Messages /\ recalls \subseteq Messages /\ stored \subseteq Messages
      /\ told \in [Messages -> Nat] /\ imported \in BOOLEAN /\ group \in BOOLEAN
      /\ queue \in Seq(Messages) /\ changed \in Seq(Nat) /\ Len(changed) = version - 1
      /\ kept \in [Results -> [at : Nat, version : Nat]] /\ Archive!NoEntry \in [at : Nat, version : Nat]
      /\ Scores \subseteq Messages /\ Snapshot \subseteq Messages
  BY DEF ArchiveType, Archive!ArchiveAssumption, Archive!NoEntry
<1>u. ASSUME UNCHANGED <<group, people, events, archive, scores, recalls, version, changed, told, stored, imported, queue, kept, storeTime>>,
             NEW q \in StoringShapes, Archive!Go(t, q)
      PROVE  ArchiveType'
  <2>1. storing' \in [Threads \cup {Nobody} -> StoringShapes]
    BY <1>u, StoringMoves
  <2> QED BY <1>u, <1>t, <2>1 DEF ArchiveType
<1>1. CASE Archive!Receive(t)
  <2>1. PICK m \in Messages : Archive!Go(t, [pc |-> IF group THEN "asks" ELSE "locks", message |-> m, asked |-> group, seen |-> FALSE, since |-> storeTime])
    BY <1>1 DEF Archive!Receive
  <2>2. [pc |-> IF group THEN "asks" ELSE "locks", message |-> m, asked |-> group, seen |-> FALSE, since |-> storeTime] \in StoringShapes
    BY <1>t DEF StoringShapes, Storing
  <2> QED BY <1>1, <1>u, <2>1, <2>2 DEF Archive!Receive, Archive!tables, Archive!ghosts
<1>2. CASE Archive!Ask(t)
  <2>1. ASSUME NEW b \in BOOLEAN PROVE [storing[t] EXCEPT !.pc = "locks", !.seen = b] \in StoringShapes
    BY <1>2, <1>t, StoringShape DEF Archive!Ask, Archive!At, StoringShapes, Storing
  <2>2. (people > 0) \in BOOLEAN
    OBVIOUS
  <2> QED BY <1>2, <1>u, <2>1, <2>2 DEF Archive!Ask, Archive!tables, Archive!ghosts
<1>3. CASE Archive!Begins(t)
  <2>1. ASSUME NEW b \in BOOLEAN PROVE [storing[t] EXCEPT !.pc = "clears", !.seen = b] \in StoringShapes
    BY <1>3, <1>t, StoringShape DEF Archive!Begins, Archive!At, StoringShapes, Storing
  <2>2. (people > 0) \in BOOLEAN /\ storing[t].seen \in BOOLEAN
    BY <1>3, StoringShape DEF Archive!Begins, Archive!At, Storing
  <2>3. PICK b \in BOOLEAN : Archive!Go(t, [storing[t] EXCEPT !.pc = "clears", !.seen = b])
    BY <1>3, <2>2, Zenon DEF Archive!Begins
  <2> QED BY <1>3, <1>u, <2>1, <2>3 DEF Archive!Begins, Archive!tables, Archive!ghosts
<1>4. CASE Archive!Clear(t)
  <2>1. [storing[t] EXCEPT !.pc = "commits"] \in StoringShapes /\ Archive!Go(t, [storing[t] EXCEPT !.pc = "commits"])
    BY <1>4, <1>t, StoringShape DEF Archive!Clear, Archive!At, StoringShapes, Storing, Archive!On, Archive!Go, ArchiveType
  <2>2. kept' \in [Results -> [at : Nat, version : Nat]]
    BY <1>4, <1>t DEF Archive!Clear
  <2> QED BY <1>4, <1>t, <2>1, <2>2, StoringMoves DEF Archive!Clear, Archive!tables, Archive!ghosts, ArchiveType
<1>5. CASE Archive!Store(t)
  <2> DEFINE m == storing[t].message
             q == [pc |-> "queues", message |-> m, inserted |-> Archive!Inserted(m), since |-> storeTime]
  <2>1. m \in Messages
    BY <1>5, <1>t, StoringShape DEF Archive!Store, Archive!At, Storing
  <2>2. q \in StoringShapes /\ Archive!Go(t, q)
    BY <1>5, <1>t, <2>1 DEF Archive!Store, StoringShapes, Queueing, Archive!Inserted
  <2>3. /\ group' = TRUE /\ people' = Archive!Counted(storing[t].seen) /\ events' = events + 1 /\ UNCHANGED storeTime
        /\ Archive!Commit(Archive!Archived(m), IF Archive!Inserted(m) THEN scores \cup {m} ELSE scores)
        /\ Archive!Archived(m) \in SUBSET Messages /\ (IF Archive!Inserted(m) THEN scores \cup {m} ELSE scores) \in SUBSET Messages
    BY <1>5, <1>t, <2>1 DEF Archive!Store, Archive!Archived
  <2>4. people' \in Nat
    BY <1>t, <2>3 DEF Archive!Counted
  <2>5. /\ archive' \subseteq Messages /\ scores' \subseteq Messages
        /\ version' \in Nat \ {0} /\ changed' \in Seq(Nat) /\ Len(changed') = version' - 1
    BY <2>3, Commits
  <2>6. storing' \in [Threads \cup {Nobody} -> StoringShapes]
    BY <2>2, StoringMoves
  <2> QED BY <1>5, <1>t, <2>3, <2>4, <2>5, <2>6 DEF Archive!Store, ArchiveType
<1>6. CASE Archive!Enqueue(t)
  <2>1. storing[t].message \in Messages /\ Archive!Idle \in StoringShapes
    BY <1>6, <1>t, StoringShape DEF Archive!Enqueue, Archive!At, Queueing
  <2>2. queue' \in Seq(Messages) /\ stored' \subseteq Messages /\ told' \in [Messages -> Nat]
    BY <1>6, <1>t, <2>1 DEF Archive!Enqueue
  <2>3. storing' \in [Threads \cup {Nobody} -> StoringShapes]
    BY <1>6, <2>1, StoringMoves DEF Archive!Enqueue, Archive!End
  <2> QED BY <1>6, <1>t, <2>2, <2>3 DEF Archive!Enqueue, ArchiveType, Archive!tables
<1>7. CASE Archive!ReadOriginal(t)
  <2>1. PICK m \in Messages : Archive!Go(t, IF m \in archive THEN [pc |-> "recalls", message |-> m, since |-> storeTime] ELSE Archive!Idle)
    BY <1>7 DEF Archive!ReadOriginal
  <2>2. (IF m \in archive THEN [pc |-> "recalls", message |-> m, since |-> storeTime] ELSE Archive!Idle) \in StoringShapes
    BY <1>t, StoringShape DEF StoringShapes, Recalling
  <2> QED BY <1>7, <1>u, <2>1, <2>2 DEF Archive!ReadOriginal, Archive!tables, Archive!ghosts
<1>8. CASE Archive!Recall(t)
  <2>1. storing[t].message \in Messages
    BY <1>8, StoringShape DEF Archive!Recall, Archive!At, Recalling
  <2>2. storing' \in [Threads \cup {Nobody} -> StoringShapes] /\ recalls' \subseteq Messages
    BY <1>8, <1>t, <2>1, StoringMoves, StoringShape DEF Archive!Recall, Archive!End
  <2> QED BY <1>8, <1>t, <2>2 DEF Archive!Recall, ArchiveType, Archive!ghosts
<1>9. CASE Archive!Look(t)
  <2>1. PICK c \in Results : Archive!End(t) \/ Archive!Go(t, [pc |-> "computes", result |-> c, since |-> storeTime])
    BY <1>9 DEF Archive!Look
  <2>2. [pc |-> "computes", result |-> c, since |-> storeTime] \in StoringShapes
    BY <1>t DEF StoringShapes, Computing
  <2>3. Archive!Idle \in StoringShapes
    BY StoringShape
  <2> QED BY <1>9, <1>u, <2>1, <2>2, <2>3 DEF Archive!Look, Archive!End, Archive!tables
<1>10. CASE Archive!Compute(t)
  <2>1. [pc |-> "keeps", result |-> storing[t].result, version |-> version, since |-> storeTime] \in StoringShapes
    BY <1>10, <1>t, StoringShape DEF Archive!Compute, Archive!At, StoringShapes, Computing, Keeping
  <2> QED BY <1>10, <1>u, <2>1 DEF Archive!Compute, Archive!tables, Archive!ghosts
<1>11. CASE Archive!Keep(t)
  <2>1. storing[t].version \in Nat /\ Archive!Idle \in StoringShapes
    BY <1>11, StoringShape DEF Archive!Keep, Archive!At, Keeping
  <2>2. kept' \in [Results -> [at : Nat, version : Nat]] /\ storing' \in [Threads \cup {Nobody} -> StoringShapes]
    BY <1>11, <1>t, <2>1, StoringMoves DEF Archive!Keep, Archive!End
  <2> QED BY <1>11, <1>t, <2>2 DEF Archive!Keep, ArchiveType, Archive!tables
<1>12. CASE Archive!Import(t)
  <2>1. [pc |-> "imports", since |-> storeTime] \in StoringShapes
    BY <1>t DEF StoringShapes, Importing
  <2> QED BY <1>12, <1>u, <2>1 DEF Archive!Import, Archive!tables, Archive!ghosts
<1>13. CASE Archive!Replace(t)
  <2>1. Archive!Commit(archive, Snapshot) /\ UNCHANGED storeTime /\ Archive!End(t)
    BY <1>13 DEF Archive!Replace
  <2>2. /\ archive' \subseteq Messages /\ scores' \subseteq Messages
        /\ version' \in Nat \ {0} /\ changed' \in Seq(Nat) /\ Len(changed') = version' - 1
    BY <1>t, <2>1, Commits
  <2>3. storing' \in [Threads \cup {Nobody} -> StoringShapes]
    BY <2>1, StoringMoves, StoringShape DEF Archive!End
  <2> QED BY <1>13, <1>t, <2>2, <2>3 DEF Archive!Replace, ArchiveType
<1>14. CASE Archive!Fail(t)
  <2>1. Archive!Idle \in StoringShapes
    BY StoringShape
  <2> QED BY <1>14, <1>u, <2>1 DEF Archive!Fail, Archive!End, Archive!tables, Archive!ghosts
<1> QED BY <1>1, <1>2, <1>3, <1>4, <1>5, <1>6, <1>7, <1>8, <1>9, <1>10, <1>11, <1>12, <1>13, <1>14

LEMMA ArchiveTypes ==
  ASSUME Archive!ArchiveAssumption, ArchiveType, Archive!Work \/ Archive!Restart \/ Archive!Tick
  PROVE  ArchiveType'
<1>1. CASE Archive!Work
  <2>1. queue \in Seq(Messages) /\ queue # <<>> /\ queue' = Tail(queue) /\ Head(queue) \in Messages /\ Tail(queue) \in Seq(Messages)
    BY <1>1 DEF Archive!Work, ArchiveType
  <2>2. CASE Archive!Commit(archive \cup {Head(queue)}, scores) /\ UNCHANGED <<group, people, recalls>>
    <3>1. archive \cup {Head(queue)} \in SUBSET Messages /\ scores \in SUBSET Messages /\ UNCHANGED storeTime
      BY <1>1, <2>1 DEF ArchiveType, Archive!Work
    <3>2. /\ archive' \subseteq Messages /\ scores' \subseteq Messages
          /\ version' \in Nat \ {0} /\ changed' \in Seq(Nat) /\ Len(changed') = version' - 1
      BY <2>2, <3>1, Commits
    <3> QED BY <1>1, <2>1, <2>2, <3>2 DEF Archive!Work, ArchiveType, Archive!ghosts
  <2>3. CASE UNCHANGED Archive!tables
    BY <1>1, <2>1, <2>3 DEF Archive!Work, ArchiveType, Archive!ghosts, Archive!tables
  <2> QED BY <1>1, <2>2, <2>3 DEF Archive!Work
<1>2. CASE Archive!Restart
  <2>1. storing' \in [Threads \cup {Nobody} -> StoringShapes]
    BY <1>2 DEF Archive!Restart, ArchiveType, StoringShapes
  <2>2. kept' \in [Results -> [at : Nat, version : Nat]] /\ queue' \in Seq(Messages)
    BY <1>2 DEF Archive!Restart, Archive!NoEntry
  <2> QED BY <1>2, <2>1, <2>2 DEF Archive!Restart, ArchiveType, Archive!tables, Archive!ghosts
<1>3. CASE Archive!Tick
  <2>1. storeTime' \in Nat /\ UNCHANGED <<Archive!tables, kept, queue, writer, storing, eventsServed, Archive!ghosts>>
    BY <1>3 DEF Archive!Tick, ArchiveType, Archive!ArchiveAssumption
  <2> QED BY <2>1 DEF ArchiveType, Archive!tables, Archive!ghosts
<1> QED BY <1>1, <1>2, <1>3

\* A request moves on, and what it has to remember there is true.
LEMMA KeptQuiet ==
  ASSUME ArchiveType, KeptInv, NEW t \in Threads, NEW q \in StoringShapes, Archive!Go(t, q),
         UNCHANGED <<archive, scores, stored, told, imported>>, recalls' \subseteq archive,
         q.pc # "queues", q.pc = "recalls" => q.message \in archive
  PROVE  KeptInv'
<1>1. storing'[t] = q /\ \A u \in Threads \ {t} : storing'[u] = storing[u]
  BY StoringMoves
<1>2. \A u \in Threads : MessagesKept(u)'
  BY <1>1 DEF KeptInv, MessagesKept, Archive!At
<1>3. \A u \in Threads, m \in Messages : Announces(u, m)' => Announces(u, m)
  BY <1>1 DEF Announces, Archive!At
<1> QED BY <1>2, <1>3 DEF KeptInv

LEMMA KeptAnswers ==
  ASSUME Archive!ArchiveAssumption, ArchiveType, KeptInv, NEW t \in Threads,
         Archive!Receive(t) \/ Archive!Ask(t) \/ Archive!Begins(t) \/ Archive!Clear(t) \/ Archive!ReadOriginal(t) \/ Archive!Recall(t)
       \/ Archive!Look(t) \/ Archive!Compute(t) \/ Archive!Keep(t) \/ Archive!Import(t) \/ Archive!Fail(t)
  PROVE  KeptInv'
<1>u. ASSUME UNCHANGED <<archive, scores, stored, told, imported>>, recalls' \subseteq archive, storing'[t].pc # "queues",
             storing'[t].pc = "recalls" => storing'[t].message \in archive, NEW q, Archive!Go(t, q), storing' \in [Threads \cup {Nobody} -> StoringShapes]
      PROVE  KeptInv'
  <2>1. storing'[t] = q /\ q \in StoringShapes
    BY <1>u DEF Archive!Go, ArchiveType
  <2> QED BY <1>u, <2>1, KeptQuiet
<1>t. ArchiveType'
  BY StoringTypes
<1>i. Archive!Idle.pc = "idle" /\ recalls \subseteq archive /\ t \in DOMAIN storing
  BY DEF Archive!Idle, KeptInv, ArchiveType
<1>r. storing' \in [Threads \cup {Nobody} -> StoringShapes]
  BY <1>t DEF ArchiveType
<1>k. MessagesKept(t)
  BY DEF KeptInv
<1>1. CASE Archive!Receive(t)
  <2>1. PICK m \in Messages : Archive!Go(t, [pc |-> IF group THEN "asks" ELSE "locks", message |-> m, asked |-> group, seen |-> FALSE, since |-> storeTime])
    BY <1>1 DEF Archive!Receive
  <2>2. storing'[t].pc \in {"asks", "locks"}
    BY <2>1, <1>i DEF Archive!Go
  <2> QED BY <1>1, <1>u, <1>r, <1>i, <2>1, <2>2 DEF Archive!Receive, Archive!tables, Archive!ghosts
<1>2. CASE Archive!Ask(t)
  <2>1. PICK q : Archive!Go(t, q) /\ q = [storing[t] EXCEPT !.pc = "locks", !.seen = people > 0]
    BY <1>2 DEF Archive!Ask
  <2>2. storing[t] \in Storing
    BY <1>2, StoringShape DEF Archive!Ask, Archive!At
  <2>3. storing'[t].pc = "locks"
    BY <2>1, <2>2, <1>i DEF Archive!Go, Storing
  <2> QED BY <1>2, <1>u, <1>r, <1>i, <2>1, <2>3 DEF Archive!Ask, Archive!tables, Archive!ghosts
<1>3. CASE Archive!Begins(t)
  <2>1. PICK q, b : Archive!Go(t, q) /\ q = [storing[t] EXCEPT !.pc = "clears", !.seen = b]
    BY <1>3, Zenon DEF Archive!Begins
  <2>2. storing[t] \in Storing
    BY <1>3, StoringShape DEF Archive!Begins, Archive!At
  <2>3. storing'[t].pc = "clears"
    BY <2>1, <2>2, <1>i DEF Archive!Go, Storing
  <2> QED BY <1>3, <1>u, <1>r, <1>i, <2>1, <2>3 DEF Archive!Begins, Archive!tables, Archive!ghosts
<1>4. CASE Archive!Clear(t)
  <2>1. Archive!Go(t, [storing[t] EXCEPT !.pc = "commits"])
    BY <1>4, <1>i DEF Archive!Clear, Archive!On, Archive!Go
  <2>2. storing[t] \in Storing
    BY <1>4, StoringShape DEF Archive!Clear, Archive!At
  <2>3. storing'[t].pc = "commits"
    BY <2>1, <2>2, <1>i DEF Archive!Go, Storing
  <2> QED BY <1>4, <1>u, <1>r, <1>i, <2>1, <2>3 DEF Archive!Clear, Archive!tables, Archive!ghosts
<1>5. CASE Archive!ReadOriginal(t)
  <2>1. PICK m \in Messages : Archive!Go(t, IF m \in archive THEN [pc |-> "recalls", message |-> m, since |-> storeTime] ELSE Archive!Idle)
    BY <1>5 DEF Archive!ReadOriginal
  <2>2. storing'[t].pc \in {"recalls", "idle"} /\ (storing'[t].pc = "recalls" => storing'[t].message \in archive)
    BY <2>1, <1>i DEF Archive!Go
  <2> QED BY <1>5, <1>u, <1>r, <1>i, <2>1, <2>2 DEF Archive!ReadOriginal, Archive!tables, Archive!ghosts
<1>6. CASE Archive!Recall(t)
  <2>1. Archive!Go(t, Archive!Idle) /\ storing'[t].pc = "idle"
    BY <1>6, <1>i DEF Archive!Recall, Archive!End, Archive!Go
  <2>2. recalls' \subseteq archive
    BY <1>6, <1>k, <1>i DEF Archive!Recall, MessagesKept
  <2> QED BY <1>6, <1>u, <1>r, <1>i, <2>1, <2>2 DEF Archive!Recall, Archive!ghosts
<1>7. CASE Archive!Look(t)
  <2>1. PICK c \in Results : Archive!End(t) \/ Archive!Go(t, [pc |-> "computes", result |-> c, since |-> storeTime])
    BY <1>7 DEF Archive!Look
  <2>2. storing'[t].pc \in {"computes", "idle"}
    BY <2>1, <1>i DEF Archive!Go, Archive!End
  <2> QED BY <1>7, <1>u, <1>r, <1>i, <2>1, <2>2 DEF Archive!Look, Archive!tables, Archive!End
<1>8. CASE Archive!Compute(t)
  <2>1. Archive!Go(t, [pc |-> "keeps", result |-> storing[t].result, version |-> version, since |-> storeTime])
    BY <1>8 DEF Archive!Compute
  <2>2. storing'[t].pc = "keeps"
    BY <2>1, <1>i DEF Archive!Go
  <2> QED BY <1>8, <1>u, <1>r, <1>i, <2>1, <2>2 DEF Archive!Compute, Archive!tables, Archive!ghosts
<1>9. CASE Archive!Keep(t)
  <2>1. Archive!Go(t, Archive!Idle) /\ storing'[t].pc = "idle"
    BY <1>9, <1>i DEF Archive!Keep, Archive!End, Archive!Go
  <2> QED BY <1>9, <1>u, <1>r, <1>i, <2>1 DEF Archive!Keep, Archive!tables
<1>10. CASE Archive!Import(t)
  <2>1. Archive!Go(t, [pc |-> "imports", since |-> storeTime]) /\ storing'[t].pc = "imports"
    BY <1>10, <1>i DEF Archive!Import, Archive!Go
  <2> QED BY <1>10, <1>u, <1>r, <1>i, <2>1 DEF Archive!Import, Archive!tables, Archive!ghosts
<1>11. CASE Archive!Fail(t)
  <2>1. Archive!Go(t, Archive!Idle) /\ storing'[t].pc = "idle"
    BY <1>11, <1>i DEF Archive!Fail, Archive!End, Archive!Go
  <2> QED BY <1>11, <1>u, <1>r, <1>i, <2>1 DEF Archive!Fail, Archive!tables, Archive!ghosts
<1> QED BY <1>1, <1>2, <1>3, <1>4, <1>5, <1>6, <1>7, <1>8, <1>9, <1>10, <1>11

LEMMA KeptElsewhere ==
  ASSUME Archive!ArchiveAssumption, ArchiveType, KeptInv, NEW t \in Threads, Archive!Store(t) \/ Archive!Enqueue(t) \/ Archive!Replace(t)
  PROVE  KeptInv'
<1>t. /\ Scores \subseteq Messages /\ archive \subseteq Messages /\ scores \subseteq Messages /\ told \in [Messages -> Nat] 
      /\ imported \in BOOLEAN /\ Snapshot \subseteq Messages
  BY DEF ArchiveType, Archive!ArchiveAssumption
<1>i. Archive!Idle.pc = "idle" /\ Archive!Idle \in StoringShapes
  BY StoringShape
<1>1. CASE Archive!Store(t)
  <2> DEFINE m == storing[t].message
             q == [pc |-> "queues", message |-> m, inserted |-> Archive!Inserted(m), since |-> storeTime]
  <2>1. m \in Messages
    BY <1>1, StoringShape DEF Archive!Store, Archive!At, Storing
  <2>2. q \in StoringShapes /\ Archive!Go(t, q)
    BY <1>1, <2>1 DEF Archive!Store, StoringShapes, Queueing, Archive!Inserted, ArchiveType
  <2>3. storing'[t] = q /\ \A u \in Threads \ {t} : storing'[u] = storing[u]
    BY <2>2, StoringMoves
  <2>4. /\ archive' = archive \cup {m} /\ scores' = IF Archive!Inserted(m) THEN scores \cup {m} ELSE scores
        /\ UNCHANGED <<recalls, told, stored, imported>>
    BY <1>1 DEF Archive!Store, Archive!Commit, Archive!Archived
  <2>5. storing'[t].pc = "queues" /\ storing'[t].message = m /\ storing'[t].inserted = Archive!Inserted(m)
    BY <2>3
  <2> HIDE DEF q, m
  <2>6. ASSUME NEW u \in Threads PROVE MessagesKept(u)'
    <3>1. CASE u = t
      BY <1>t, <2>1, <2>4, <2>5, <3>1 DEF MessagesKept, KeptInv, Archive!At, Archive!Inserted
    <3>2. CASE u # t
      BY <2>3, <2>4, <3>2 DEF MessagesKept, KeptInv, Archive!At
    <3> QED BY <3>1, <3>2
  <2>7. ASSUME ~imported, NEW u \in Threads, NEW v \in Threads, NEW n \in Messages, Announces(u, n)', Announces(v, n)' PROVE u = v
    <3>1. ASSUME NEW x \in Threads, x # t, Announces(x, n)' PROVE Announces(x, n) /\ n \in scores
      <4>1. Announces(x, n)
        BY <2>3, <3>1 DEF Announces, Archive!At
      <4> QED BY <2>7, <4>1 DEF Announces, Archive!At, MessagesKept, KeptInv
    <3>2. Announces(t, n)' => n \notin scores
      BY <2>5 DEF Announces, Archive!At, Archive!Inserted
    <3>3. CASE u # t /\ v # t
      BY <2>7, <3>1, <3>3 DEF KeptInv
    <3>4. CASE u = t \/ v = t
      BY <2>7, <3>1, <3>2, <3>4
    <3> QED BY <3>3, <3>4
  <2> QED BY <1>t, <2>1, <2>4, <2>6, <2>7 DEF KeptInv, Archive!Inserted
<1>2. CASE Archive!Enqueue(t)
  <2> DEFINE m == storing[t].message
  <2>1. m \in Messages /\ storing[t].inserted \in BOOLEAN /\ Archive!At(t, "queues")
    BY <1>2, StoringShape DEF Archive!Enqueue, Archive!At, Queueing
  <2>2. storing'[t] = Archive!Idle /\ \A u \in Threads \ {t} : storing'[u] = storing[u]
    BY <1>2, <1>i, StoringMoves DEF Archive!Enqueue, Archive!End
  <2>3. /\ UNCHANGED <<archive, scores, recalls, imported>> /\ stored' = stored \cup {m}
        /\ told' = [told EXCEPT ![m] = IF storing[t].inserted THEN @ + 1 ELSE @]
    BY <1>2 DEF Archive!Enqueue, Archive!tables
  <2>4. /\ m \in archive
        /\ ~imported => /\ m \in Scores => m \in scores
                        /\ storing[t].inserted => m \in scores /\ told[m] = 0
    BY <2>1 DEF KeptInv, MessagesKept
  <2>5. ~imported /\ storing[t].inserted => Announces(t, m)
    BY <2>1 DEF Announces
  <2> HIDE DEF m
  <2>6. \A n \in Messages : told'[n] = IF n = m /\ storing[t].inserted THEN told[n] + 1 ELSE told[n]
    BY <1>t, <2>1, <2>3
  <2>7. ASSUME NEW u \in Threads PROVE MessagesKept(u)'
    <3>1. CASE u = t
      BY <1>i, <2>2, <3>1 DEF MessagesKept, Archive!At
    <3>2. CASE u # t
      <4>1. storing'[u] = storing[u] /\ MessagesKept(u)
        BY <2>2, <3>2 DEF KeptInv
      <4>2. ASSUME ~imported, Archive!At(u, "queues"), storing[u].inserted PROVE told'[storing[u].message] = 0
        <5>1. storing[u].message \in Messages
          BY <4>2, StoringShape DEF Archive!At, Queueing
        <5>2. told[storing[u].message] = 0 /\ Announces(u, storing[u].message)
          BY <4>1, <4>2 DEF MessagesKept, Announces
        <5>3. ~(storing[u].message = m /\ storing[t].inserted)
          BY <2>5, <3>2, <4>2, <5>1, <5>2 DEF KeptInv
        <5> QED BY <2>6, <5>1, <5>2, <5>3
      <4> QED BY <2>3, <4>1, <4>2 DEF MessagesKept, Archive!At
    <3> QED BY <3>1, <3>2
  <2>8. \A u \in Threads, n \in Messages : Announces(u, n)' => Announces(u, n)
    BY <1>i, <2>2 DEF Announces, Archive!At
  <2>9. ~imported => \A n \in Messages : told'[n] <= 1 /\ (n \notin scores => told'[n] = 0)
    BY <1>t, <2>4, <2>6 DEF KeptInv
  <2> QED BY <2>3, <2>4, <2>7, <2>8, <2>9 DEF KeptInv
<1>3. CASE Archive!Replace(t)
  <2>1. /\ archive' = archive /\ imported' = TRUE /\ UNCHANGED <<recalls, stored, told>> /\ Archive!Go(t, Archive!Idle)
    BY <1>3 DEF Archive!Replace, Archive!Commit, Archive!End
  <2>2. storing'[t] = Archive!Idle /\ \A u \in Threads \ {t} : storing'[u] = storing[u]
    BY <1>i, <2>1, StoringMoves
  <2>3. \A u \in Threads : MessagesKept(u)'
    BY <1>i, <2>1, <2>2 DEF MessagesKept, Archive!At, KeptInv
  <2> QED BY <2>1, <2>3 DEF KeptInv
<1> QED BY <1>1, <1>2, <1>3

LEMMA KeptStored ==
  ASSUME ArchiveType, KeptInv, Archive!Work \/ Archive!Restart \/ Archive!Tick
  PROVE  KeptInv'
<1>1. CASE Archive!Work
  <2>1. archive \subseteq archive' /\ UNCHANGED <<scores, recalls, storing, told, stored, imported>>
    BY <1>1 DEF Archive!Work, Archive!Commit, Archive!tables, Archive!ghosts
  <2>2. \A u \in Threads : MessagesKept(u)'
    BY <2>1 DEF MessagesKept, Archive!At, KeptInv
  <2> QED BY <2>1, <2>2 DEF KeptInv, Announces, Archive!At
<1>2. CASE Archive!Restart
  <2>1. \A u \in Threads : storing'[u].pc = "idle"
    BY <1>2 DEF Archive!Restart, ArchiveType, Archive!Idle
  <2>2. UNCHANGED <<archive, scores, recalls, told, stored, imported>>
    BY <1>2 DEF Archive!Restart, Archive!tables, Archive!ghosts
  <2>3. \A u \in Threads : MessagesKept(u)'
    BY <2>1 DEF MessagesKept, Archive!At
  <2> QED BY <2>1, <2>2, <2>3 DEF KeptInv, Announces, Archive!At
<1>3. CASE Archive!Tick
  BY <1>3 DEF Archive!Tick, Archive!tables, Archive!ghosts, KeptInv, MessagesKept, Announces, Archive!At
<1> QED BY <1>1, <1>2, <1>3

LEMMA UnawareBounded ==
  ASSUME Archive!ArchiveAssumption
  PROVE  /\ Cardinality(Threads) \in Nat
         /\ \A S \in SUBSET Threads : IsFiniteSet(S) /\ Cardinality(S) \in Nat /\ Cardinality(S) <= Cardinality(Threads)
         /\ \A S \in SUBSET Threads : \A t \in Threads \ S : Cardinality(S) < Cardinality(Threads)
<1>1. IsFiniteSet(Threads)
  BY SizeIs DEF Archive!ArchiveAssumption
<1>2. \A S \in SUBSET Threads : IsFiniteSet(S) /\ Cardinality(S) \in Nat /\ Cardinality(S) <= Cardinality(Threads)
  BY <1>1, FS_Subset, FS_CardinalityType
<1>3. ASSUME NEW S \in SUBSET Threads, NEW t \in Threads \ S PROVE Cardinality(S) < Cardinality(Threads)
  <2>1. S \in SUBSET (Threads \ {t}) /\ IsFiniteSet(Threads \ {t}) /\ Cardinality(Threads \ {t}) = Cardinality(Threads) - 1
    BY <1>1, <1>3, FS_RemoveElement
  <2>2. Cardinality(S) <= Cardinality(Threads \ {t}) /\ Cardinality(S) \in Nat
    BY <1>2, <2>1, FS_Subset
  <2> QED BY <1>1, <2>1, <2>2, FS_CardinalityType
<1> QED BY <1>1, <1>2, <1>3, FS_CardinalityType

\* A request moves on: if the sender is known by now, it does not miss that any more.
LEMMA CountQuiet ==
  ASSUME Archive!ArchiveAssumption, ArchiveType, CountInv, NEW t \in Threads, storing' \in [Threads \cup {Nobody} -> StoringShapes],
         \A u \in Threads \ {t} : storing'[u] = storing[u], UNCHANGED <<people, events>>,
         people > 0 => (t \in Unaware' => t \in Unaware),
         people = 0 => (storing'[t].pc \in {"asks", "locks", "clears", "commits"} => ~storing'[t].seen)
  PROVE  CountInv'
<1>1. people \in Nat /\ events \in Nat
  BY DEF ArchiveType
<1>2. CASE people > 0
  <2>1. Unaware' \subseteq Unaware /\ Unaware \subseteq Threads
    BY <1>2 DEF Unaware
  <2>2. Cardinality(Unaware') <= Cardinality(Unaware) /\ Cardinality(Unaware') \in Nat /\ Cardinality(Unaware) \in Nat /\ Cardinality(Threads) \in Nat
    BY <2>1, UnawareBounded, FS_Subset
  <2>3. events + Cardinality(Unaware') < people + Cardinality(Threads)
    BY <1>1, <1>2, <2>2 DEF CountInv
  <2> QED BY <1>1, <1>2, <2>3 DEF CountInv
<1>3. CASE people = 0
  BY <1>1, <1>3 DEF CountInv
<1> QED BY <1>1, <1>2, <1>3

LEMMA Count1 ==
  ASSUME Archive!ArchiveAssumption, ArchiveType, CountInv, NEW t \in Threads,
         Archive!Receive(t) \/ Archive!Ask(t) \/ Archive!Begins(t) \/ Archive!Clear(t) \/ Archive!Enqueue(t) \/ Archive!ReadOriginal(t) \/ Archive!Recall(t)
       \/ Archive!Look(t) \/ Archive!Compute(t) \/ Archive!Keep(t) \/ Archive!Import(t) \/ Archive!Replace(t) \/ Archive!Fail(t)
  PROVE  CountInv'
<1>t. ArchiveType'
  BY StoringTypes
<1>i. Archive!Idle.pc = "idle" /\ t \in DOMAIN storing /\ people \in Nat
  BY DEF Archive!Idle, ArchiveType
<1>r. storing' \in [Threads \cup {Nobody} -> StoringShapes]
  BY <1>t DEF ArchiveType
<1>u. ASSUME UNCHANGED <<people, events>>, NEW q, Archive!Go(t, q),
             people > 0 => (t \in Unaware' => t \in Unaware),
             people = 0 => (storing'[t].pc \in {"asks", "locks", "clears", "commits"} => ~storing'[t].seen)
      PROVE  CountInv'
  <2>1. \A u \in Threads \ {t} : storing'[u] = storing[u]
    BY <1>u DEF Archive!Go, ArchiveType
  <2> QED BY <1>r, <1>u, <2>1, CountQuiet
<1>v. ASSUME UNCHANGED <<people, events>>, NEW q, Archive!Go(t, q), storing'[t].pc \notin {"asks", "locks", "clears", "commits"} PROVE CountInv'
  <2>1. t \notin Unaware'
    BY <1>v DEF Unaware
  <2> QED BY <1>u, <1>v, <2>1
<1>1. CASE Archive!Receive(t)
  <2>1. PICK m \in Messages : Archive!Go(t, [pc |-> IF group THEN "asks" ELSE "locks", message |-> m, asked |-> group, seen |-> FALSE, since |-> storeTime])
    BY <1>1 DEF Archive!Receive
  <2>2. storing'[t].pc = (IF group THEN "asks" ELSE "locks") /\ storing'[t].asked = group /\ storing'[t].seen = FALSE
    BY <2>1, <1>i DEF Archive!Go
  <2>3. t \notin Unaware'
    BY <2>2 DEF Unaware
  <2> QED BY <1>1, <1>u, <2>1, <2>2, <2>3 DEF Archive!Receive, Archive!tables, Archive!ghosts
<1>2. CASE Archive!Ask(t)
  <2>0. (people > 0) \in BOOLEAN
    OBVIOUS
  <2>1. PICK b \in BOOLEAN : b = (people > 0)
    BY <2>0, Zenon
  <2>b. b <=> people > 0
    BY <2>1, Zenon
  <2>2. Archive!Go(t, [storing[t] EXCEPT !.pc = "locks", !.seen = b])
    BY <1>2, <2>1 DEF Archive!Ask
  <2>3. storing[t] \in Storing
    BY <1>2, StoringShape DEF Archive!Ask, Archive!At
  <2>4. storing'[t].pc = "locks" /\ storing'[t].seen = b
    BY <2>2, <2>3, <1>i DEF Archive!Go, Storing
  <2>5. people > 0 => t \notin Unaware'
    BY <2>b, <2>4 DEF Unaware
  <2>6. people = 0 => ~storing'[t].seen
    BY <2>b, <2>4
  <2> QED BY <1>2, <1>u, <2>2, <2>5, <2>6 DEF Archive!Ask, Archive!tables, Archive!ghosts
<1>3. CASE Archive!Begins(t)
  <2>1. storing[t] \in Storing /\ storing[t].pc = "locks"
    BY <1>3, StoringShape DEF Archive!Begins, Archive!At
  <2>0. (people > 0) \in BOOLEAN
    OBVIOUS
  <2>2. PICK p \in BOOLEAN : p = (people > 0)
    BY <2>0, Zenon
  <2>b. p <=> people > 0
    BY <2>2, Zenon
  <2>3. PICK b : b = IF storing[t].asked THEN storing[t].seen ELSE p
    OBVIOUS
  <2>4. Archive!Go(t, [storing[t] EXCEPT !.pc = "clears", !.seen = b])
    BY <1>3, <2>2, <2>3, Zenon DEF Archive!Begins
  <2>5. storing'[t].pc = "clears" /\ storing'[t].seen = b
    BY <2>1, <2>4, <1>i DEF Archive!Go, Storing
  <2>6. people > 0 => (t \in Unaware' => t \in Unaware)
    BY <2>1, <2>b, <2>3, <2>5 DEF Unaware
  <2>7. people = 0 => ~b
    BY <1>i, <2>1, <2>b, <2>3 DEF CountInv
  <2> QED BY <1>3, <1>u, <2>4, <2>5, <2>6, <2>7 DEF Archive!Begins, Archive!tables, Archive!ghosts
<1>4. CASE Archive!Clear(t)
  <2>1. Archive!Go(t, [storing[t] EXCEPT !.pc = "commits"])
    BY <1>4, <1>i DEF Archive!Clear, Archive!On, Archive!Go
  <2>2. storing[t] \in Storing /\ storing[t].pc = "clears"
    BY <1>4, StoringShape DEF Archive!Clear, Archive!At
  <2>3. storing'[t].pc = "commits" /\ storing'[t].seen = storing[t].seen
    BY <2>1, <2>2, <1>i DEF Archive!Go, Storing
  <2>4. t \in Unaware' => t \in Unaware
    BY <2>2, <2>3 DEF Unaware
  <2>5. people = 0 => ~storing[t].seen
    BY <2>2 DEF CountInv
  <2> QED BY <1>4, <1>u, <2>1, <2>3, <2>4, <2>5 DEF Archive!Clear, Archive!tables, Archive!ghosts
<1>5. CASE Archive!Enqueue(t)
  <2>1. Archive!Go(t, Archive!Idle) /\ storing'[t].pc = "idle"
    BY <1>5, <1>i DEF Archive!Enqueue, Archive!End, Archive!Go
  <2> QED BY <1>5, <1>v, <2>1 DEF Archive!Enqueue, Archive!tables
<1>6. CASE Archive!ReadOriginal(t)
  <2>1. PICK m \in Messages : Archive!Go(t, IF m \in archive THEN [pc |-> "recalls", message |-> m, since |-> storeTime] ELSE Archive!Idle)
    BY <1>6 DEF Archive!ReadOriginal
  <2>2. storing'[t].pc \in {"recalls", "idle"}
    BY <2>1, <1>i DEF Archive!Go
  <2> QED BY <1>6, <1>v, <2>1, <2>2 DEF Archive!ReadOriginal, Archive!tables, Archive!ghosts
<1>7. CASE Archive!Recall(t)
  <2>1. Archive!Go(t, Archive!Idle) /\ storing'[t].pc = "idle"
    BY <1>7, <1>i DEF Archive!Recall, Archive!End, Archive!Go
  <2> QED BY <1>7, <1>v, <2>1 DEF Archive!Recall, Archive!ghosts
<1>8. CASE Archive!Look(t)
  <2>1. PICK c \in Results : Archive!End(t) \/ Archive!Go(t, [pc |-> "computes", result |-> c, since |-> storeTime])
    BY <1>8 DEF Archive!Look
  <2>2. storing'[t].pc \in {"computes", "idle"}
    BY <2>1, <1>i DEF Archive!Go, Archive!End
  <2> QED BY <1>8, <1>v, <2>1, <2>2 DEF Archive!Look, Archive!tables, Archive!End
<1>9. CASE Archive!Compute(t)
  <2>1. Archive!Go(t, [pc |-> "keeps", result |-> storing[t].result, version |-> version, since |-> storeTime])
    BY <1>9 DEF Archive!Compute
  <2>2. storing'[t].pc = "keeps"
    BY <2>1, <1>i DEF Archive!Go
  <2> QED BY <1>9, <1>v, <2>1, <2>2 DEF Archive!Compute, Archive!tables, Archive!ghosts
<1>10. CASE Archive!Keep(t)
  <2>1. Archive!Go(t, Archive!Idle) /\ storing'[t].pc = "idle"
    BY <1>10, <1>i DEF Archive!Keep, Archive!End, Archive!Go
  <2> QED BY <1>10, <1>v, <2>1 DEF Archive!Keep, Archive!tables
<1>11. CASE Archive!Import(t)
  <2>1. Archive!Go(t, [pc |-> "imports", since |-> storeTime]) /\ storing'[t].pc = "imports"
    BY <1>11, <1>i DEF Archive!Import, Archive!Go
  <2> QED BY <1>11, <1>v, <2>1 DEF Archive!Import, Archive!tables, Archive!ghosts
<1>12. CASE Archive!Replace(t)
  <2>1. Archive!Go(t, Archive!Idle) /\ storing'[t].pc = "idle"
    BY <1>12, <1>i DEF Archive!Replace, Archive!End, Archive!Go
  <2> QED BY <1>12, <1>v, <2>1 DEF Archive!Replace
<1>13. CASE Archive!Fail(t)
  <2>1. Archive!Go(t, Archive!Idle) /\ storing'[t].pc = "idle"
    BY <1>13, <1>i DEF Archive!Fail, Archive!End, Archive!Go
  <2> QED BY <1>13, <1>v, <2>1 DEF Archive!Fail, Archive!tables, Archive!ghosts
<1> QED BY <1>1, <1>2, <1>3, <1>4, <1>5, <1>6, <1>7, <1>8, <1>9, <1>10, <1>11, <1>12, <1>13

LEMMA Count2 ==
  ASSUME Archive!ArchiveAssumption, ArchiveType, CountInv, NEW t \in Threads, Archive!Store(t)
  PROVE  CountInv'
<1>1. /\ people' = Archive!Counted(storing[t].seen) /\ events' = events + 1 /\ people \in Nat /\ events \in Nat
      /\ storing[t] \in Storing /\ storing[t].pc = "commits" /\ storing[t].seen \in BOOLEAN
  BY StoringShape DEF Archive!Store, ArchiveType, Archive!At, Storing
<1>2. storing'[t].pc = "queues" /\ \A u \in Threads \ {t} : storing'[u] = storing[u]
  BY DEF Archive!Store, Archive!Go, ArchiveType
<1>3. t \notin Unaware' /\ Unaware' = Unaware \ {t} /\ Unaware' \in SUBSET Threads /\ Unaware \in SUBSET Threads
  BY <1>2 DEF Unaware
<1>4. /\ Cardinality(Unaware') \in Nat /\ Cardinality(Unaware) \in Nat /\ Cardinality(Threads) \in Nat
      /\ IsFiniteSet(Unaware) /\ Cardinality(Unaware') < Cardinality(Threads)
  BY <1>3, UnawareBounded
<1>5. CASE storing[t].seen
  <2>1. people > 0 /\ people' = people + 1
    BY <1>1, <1>5 DEF CountInv, Archive!Counted
  <2>2. Unaware' = Unaware
    BY <1>1, <1>3, <1>5 DEF Unaware
  <2> QED BY <1>1, <1>4, <2>1, <2>2 DEF CountInv
<1>6. CASE ~storing[t].seen /\ people > 0
  <2>1. people' = people
    BY <1>1, <1>6 DEF Archive!Counted
  <2>2. t \in Unaware
    BY <1>1, <1>6 DEF Unaware
  <2>3. Cardinality(Unaware') = Cardinality(Unaware) - 1
    BY <1>3, <1>4, <2>2, FS_RemoveElement
  <2> QED BY <1>1, <1>4, <1>6, <2>1, <2>3 DEF CountInv
<1>7. CASE ~storing[t].seen /\ people = 0
  BY <1>1, <1>4, <1>7 DEF CountInv, Archive!Counted
<1> QED BY <1>1, <1>5, <1>6, <1>7

LEMMA Count3 ==
  ASSUME Archive!ArchiveAssumption, ArchiveType, CountInv, Archive!Work \/ Archive!Restart \/ Archive!Tick
  PROVE  CountInv'
<1>1. CASE Archive!Work \/ Archive!Tick
  <2>1. UNCHANGED <<people, events, storing>>
    BY <1>1 DEF Archive!Work, Archive!Tick, Archive!tables, Archive!ghosts
  <2> QED BY <2>1 DEF CountInv, Unaware
<1>2. CASE Archive!Restart
  <2>1. \A u \in Threads : storing'[u].pc = "idle"
    BY <1>2 DEF Archive!Restart, ArchiveType, Archive!Idle
  <2>2. UNCHANGED <<people, events>>
    BY <1>2 DEF Archive!Restart, Archive!tables, Archive!ghosts
  <2>3. Unaware' = {} /\ Unaware \in SUBSET Threads
    BY <2>1 DEF Unaware
  <2>4. Cardinality(Unaware') = 0 /\ Cardinality(Unaware) \in Nat /\ Cardinality(Threads) \in Nat /\ people \in Nat /\ events \in Nat
    BY <2>3, FS_EmptySet, UnawareBounded DEF ArchiveType
  <2> QED BY <2>1, <2>2, <2>4 DEF CountInv
<1> QED BY <1>1, <1>2

\* Nothing is computed or kept: what is computed of goes on, and what it was is superseded now.
LEMMA RecentQuiet ==
  ASSUME Archive!ArchiveAssumption, ArchiveType, RecentInv, UNCHANGED <<storeTime, late>>,
         \A c \in Results : kept'[c] \in {kept[c], Archive!NoEntry},
         \A t \in Threads : storing'[t] = storing[t] \/ ~Archive!At(t, "keeps")',
         \/ UNCHANGED <<version, changed>>
         \/ \E a, s \in SUBSET Messages : Archive!Commit(a, s)
  PROVE  RecentInv'
<1>1. /\ version \in Nat \ {0} /\ storeTime \in Nat /\ version' \in Nat \ {0} /\ version <= version'
      /\ \A v \in 1..(version - 1) : changed'[v] = changed[v] /\ changed[v] \in Nat
      /\ version < version' => version' = version + 1 /\ changed'[version] = storeTime
  <2>1. version \in Nat \ {0} /\ storeTime \in Nat /\ changed \in Seq(Nat) /\ Len(changed) = version - 1
    BY DEF ArchiveType
  <2>2. \A v \in 1..(version - 1) : changed[v] \in Nat
    BY <2>1
  <2>3. CASE UNCHANGED <<version, changed>>
    BY <2>1, <2>2, <2>3
  <2>4. CASE \E a, s \in SUBSET Messages : Archive!Commit(a, s)
    BY <2>1, <2>2, <2>4, Commits
  <2> QED BY <2>3, <2>4
<1>2. ASSUME NEW c \in Results, kept'[c] # Archive!NoEntry
      PROVE  /\ kept'[c].at <= storeTime' /\ kept'[c].version \in 1..version'
             /\ kept'[c].version < version' => kept'[c].at <= changed'[kept'[c].version] + Slow
  <2>1. kept'[c] = kept[c]
    BY <1>2
  <2>2. /\ kept[c].at <= storeTime /\ kept[c].version \in 1..version /\ kept[c].at \in Nat
        /\ kept[c].version < version => kept[c].at <= changed[kept[c].version] + Slow
    BY <1>2, <2>1 DEF RecentInv, ArchiveType
  <2> QED BY <1>1, <2>1, <2>2 DEF Archive!ArchiveAssumption
<1>3. ASSUME NEW t \in Threads, Archive!At(t, "keeps")'
      PROVE  /\ storing'[t].since <= storeTime' /\ storeTime' <= storing'[t].since + Slow /\ storing'[t].version \in 1..version'
             /\ storing'[t].version < version' => storing'[t].since <= changed'[storing'[t].version]
  <2>1. storing'[t] = storing[t] /\ Archive!At(t, "keeps")
    BY <1>3 DEF Archive!At
  <2>2. /\ storing[t].since <= storeTime /\ storeTime <= storing[t].since + Slow /\ storing[t].version \in 1..version
        /\ storing[t].version < version => storing[t].since <= changed[storing[t].version]
    BY <2>1 DEF RecentInv
  <2> QED BY <1>1, <2>1, <2>2 DEF Archive!ArchiveAssumption
<1>4. late' = {}
  BY DEF RecentInv
<1> QED BY <1>2, <1>3, <1>4 DEF RecentInv

\* What is kept or was just computed is as recent as was promised.
LEMMA IsRecent ==
  ASSUME Archive!ArchiveAssumption, ArchiveType, NEW v \in 1..version, NEW since \in Nat,
         v < version => since <= changed[v] + Slow, storeTime < since + TTL
  PROVE  ~Archive!TooOld(v)
<1>1. /\ storeTime \in Nat /\ TTL \in Nat /\ Slow \in Nat /\ version \in Nat
      /\ v < version => changed[v] \in Nat
  BY DEF Archive!ArchiveAssumption, ArchiveType
<1> QED BY <1>1 DEF Archive!TooOld

LEMMA Recent1 ==
  ASSUME Archive!ArchiveAssumption, ArchiveType, RecentInv, NEW t \in Threads,
         Archive!Receive(t) \/ Archive!Ask(t) \/ Archive!Begins(t) \/ Archive!Clear(t) \/ Archive!Store(t) \/ Archive!Enqueue(t) \/ Archive!ReadOriginal(t) \/ Archive!Recall(t)
       \/ Archive!Import(t) \/ Archive!Replace(t) \/ Archive!Fail(t)
  PROVE  RecentInv'
<1>i. Archive!Idle.pc = "idle" /\ t \in DOMAIN storing
  BY DEF Archive!Idle, ArchiveType
<1>u. ASSUME UNCHANGED <<storeTime, late>>, \A c \in Results : kept'[c] \in {kept[c], Archive!NoEntry}, NEW q, Archive!Go(t, q), storing'[t].pc # "keeps",
             UNCHANGED <<version, changed>> \/ \E a, s \in SUBSET Messages : Archive!Commit(a, s)
      PROVE  RecentInv'
  <2>1. \A u \in Threads : storing'[u] = storing[u] \/ ~Archive!At(u, "keeps")'
    BY <1>u DEF Archive!Go, ArchiveType, Archive!At
  <2> QED BY <1>u, <2>1, RecentQuiet
<1>1. CASE Archive!Receive(t)
  <2>1. PICK m \in Messages : Archive!Go(t, [pc |-> IF group THEN "asks" ELSE "locks", message |-> m, asked |-> group, seen |-> FALSE, since |-> storeTime])
    BY <1>1 DEF Archive!Receive
  <2>2. storing'[t].pc \in {"asks", "locks"}
    BY <2>1, <1>i DEF Archive!Go
  <2> QED BY <1>1, <1>u, <2>1, <2>2 DEF Archive!Receive, Archive!tables, Archive!ghosts
<1>2. CASE Archive!Ask(t)
  <2>1. PICK q : Archive!Go(t, q) /\ q = [storing[t] EXCEPT !.pc = "locks", !.seen = people > 0]
    BY <1>2 DEF Archive!Ask
  <2>2. storing[t] \in Storing
    BY <1>2, StoringShape DEF Archive!Ask, Archive!At
  <2>3. storing'[t].pc = "locks"
    BY <2>1, <2>2, <1>i DEF Archive!Go, Storing
  <2> QED BY <1>2, <1>u, <2>1, <2>3 DEF Archive!Ask, Archive!tables, Archive!ghosts
<1>3. CASE Archive!Begins(t)
  <2>1. PICK q, b : Archive!Go(t, q) /\ q = [storing[t] EXCEPT !.pc = "clears", !.seen = b]
    BY <1>3, Zenon DEF Archive!Begins
  <2>2. storing[t] \in Storing
    BY <1>3, StoringShape DEF Archive!Begins, Archive!At
  <2>3. storing'[t].pc = "clears"
    BY <2>1, <2>2, <1>i DEF Archive!Go, Storing
  <2> QED BY <1>3, <1>u, <2>1, <2>3 DEF Archive!Begins, Archive!tables, Archive!ghosts
<1>4. CASE Archive!Clear(t)
  <2>1. Archive!Go(t, [storing[t] EXCEPT !.pc = "commits"])
    BY <1>4, <1>i DEF Archive!Clear, Archive!On, Archive!Go
  <2>2. storing[t] \in Storing
    BY <1>4, StoringShape DEF Archive!Clear, Archive!At
  <2>3. storing'[t].pc = "commits"
    BY <2>1, <2>2, <1>i DEF Archive!Go, Storing
  <2>4. \A c \in Results : kept'[c] \in {kept[c], Archive!NoEntry}
    BY <1>4 DEF Archive!Clear
  <2> QED BY <1>4, <1>u, <2>1, <2>3, <2>4 DEF Archive!Clear, Archive!tables, Archive!ghosts
<1>5. CASE Archive!Store(t)
  <2> DEFINE m == storing[t].message
             a == Archive!Archived(m)
             s == IF Archive!Inserted(m) THEN scores \cup {m} ELSE scores
             q == [pc |-> "queues", message |-> m, inserted |-> Archive!Inserted(m), since |-> storeTime]
  <2>1. m \in Messages
    BY <1>5, StoringShape DEF Archive!Store, Archive!At, Storing
  <2>2. Archive!Commit(a, s) /\ Archive!Go(t, q) /\ UNCHANGED <<kept, storeTime, late>>
    BY <1>5 DEF Archive!Store
  <2>3. storing'[t].pc = "queues"
    BY <2>2, <1>i DEF Archive!Go
  <2>4. a \in SUBSET Messages /\ s \in SUBSET Messages
    BY <2>1 DEF ArchiveType, Archive!Archived
  <2> HIDE DEF a, s, q
  <2> QED BY <1>u, <2>2, <2>3, <2>4
<1>6. CASE Archive!Enqueue(t)
  <2>1. Archive!Go(t, Archive!Idle) /\ storing'[t].pc = "idle"
    BY <1>6, <1>i DEF Archive!Enqueue, Archive!End, Archive!Go
  <2> QED BY <1>6, <1>u, <2>1 DEF Archive!Enqueue, Archive!tables
<1>7. CASE Archive!ReadOriginal(t)
  <2>1. PICK m \in Messages : Archive!Go(t, IF m \in archive THEN [pc |-> "recalls", message |-> m, since |-> storeTime] ELSE Archive!Idle)
    BY <1>7 DEF Archive!ReadOriginal
  <2>2. storing'[t].pc \in {"recalls", "idle"}
    BY <2>1, <1>i DEF Archive!Go
  <2> QED BY <1>7, <1>u, <2>1, <2>2 DEF Archive!ReadOriginal, Archive!tables, Archive!ghosts
<1>8. CASE Archive!Recall(t)
  <2>1. Archive!Go(t, Archive!Idle) /\ storing'[t].pc = "idle"
    BY <1>8, <1>i DEF Archive!Recall, Archive!End, Archive!Go
  <2> QED BY <1>8, <1>u, <2>1 DEF Archive!Recall, Archive!ghosts
<1>9. CASE Archive!Import(t)
  <2>1. Archive!Go(t, [pc |-> "imports", since |-> storeTime]) /\ storing'[t].pc = "imports"
    BY <1>9, <1>i DEF Archive!Import, Archive!Go
  <2> QED BY <1>9, <1>u, <2>1 DEF Archive!Import, Archive!tables, Archive!ghosts
<1>10. CASE Archive!Replace(t)
  <2>1. Archive!Go(t, Archive!Idle) /\ storing'[t].pc = "idle"
    BY <1>10, <1>i DEF Archive!Replace, Archive!End, Archive!Go
  <2>2. Archive!Commit(archive, Snapshot) /\ archive \in SUBSET Messages /\ Snapshot \in SUBSET Messages
    BY <1>10 DEF Archive!Replace, Archive!ArchiveAssumption, ArchiveType
  <2> QED BY <1>10, <1>u, <2>1, <2>2 DEF Archive!Replace
<1>11. CASE Archive!Fail(t)
  <2>1. Archive!Go(t, Archive!Idle) /\ storing'[t].pc = "idle"
    BY <1>11, <1>i DEF Archive!Fail, Archive!End, Archive!Go
  <2> QED BY <1>11, <1>u, <2>1 DEF Archive!Fail, Archive!tables, Archive!ghosts
<1> QED BY <1>1, <1>2, <1>3, <1>4, <1>5, <1>6, <1>7, <1>8, <1>9, <1>10, <1>11

LEMMA Recent2 ==
  ASSUME Archive!ArchiveAssumption, ArchiveType, RecentInv, NEW t \in Threads, Archive!Look(t) \/ Archive!Compute(t) \/ Archive!Keep(t)
  PROVE  RecentInv'
<1>i. Archive!Idle.pc = "idle" /\ t \in DOMAIN storing /\ storeTime \in Nat /\ version \in Nat \ {0} /\ Slow \in Nat /\ TTL \in Nat \ {0}
  BY DEF Archive!Idle, ArchiveType, Archive!ArchiveAssumption
<1>1. CASE Archive!Look(t)
  <2>1. PICK c \in Results : IF Archive!Fresh(kept[c], storeTime) THEN Archive!End(t) /\ Archive!Answer(c, kept[c].version)
                             ELSE Archive!Go(t, [pc |-> "computes", result |-> c, since |-> storeTime]) /\ UNCHANGED late
    BY <1>1 DEF Archive!Look
  <2>2. UNCHANGED late
    <3>1. CASE Archive!Fresh(kept[c], storeTime)
      <4>1. kept[c] # Archive!NoEntry /\ storeTime < kept[c].at + TTL
        BY <3>1 DEF Archive!Fresh
      <4>2. kept[c].version \in 1..version /\ (kept[c].version < version => kept[c].at <= changed[kept[c].version] + Slow) /\ kept[c].at \in Nat
        BY <4>1 DEF RecentInv, ArchiveType
      <4>3. ~Archive!TooOld(kept[c].version)
        BY <4>1, <4>2, IsRecent
      <4> QED BY <2>1, <3>1, <4>3 DEF Archive!Answer
    <3> QED BY <2>1, <3>1
  <2>3. PICK q : Archive!Go(t, q) /\ (q = Archive!Idle \/ q = [pc |-> "computes", result |-> c, since |-> storeTime])
    BY <2>1 DEF Archive!End
  <2>4. storing'[t].pc # "keeps"
    BY <2>3, <1>i DEF Archive!Go
  <2>5. \A u \in Threads : storing'[u] = storing[u] \/ ~Archive!At(u, "keeps")'
    BY <2>3, <2>4 DEF Archive!Go, ArchiveType, Archive!At
  <2> QED BY <1>1, <2>2, <2>5, RecentQuiet DEF Archive!Look, Archive!tables
<1>2. CASE Archive!Compute(t)
  <2> DEFINE q == [pc |-> "keeps", result |-> storing[t].result, version |-> version, since |-> storeTime]
  <2>1. Archive!Go(t, q) /\ UNCHANGED <<version, changed, kept, storeTime, late>>
    BY <1>2 DEF Archive!Compute, Archive!tables, Archive!ghosts
  <2>2. storing'[t] = q /\ \A u \in Threads \ {t} : storing'[u] = storing[u]
    BY <2>1, <1>i DEF Archive!Go, ArchiveType
  <2>3. storing'[t].pc = "keeps" /\ storing'[t].version = version /\ storing'[t].since = storeTime
    BY <2>2
  <2> HIDE DEF q
  <2>4. ASSUME NEW u \in Threads, Archive!At(u, "keeps")'
        PROVE  /\ storing'[u].since <= storeTime /\ storeTime <= storing'[u].since + Slow /\ storing'[u].version \in 1..version
               /\ storing'[u].version < version => storing'[u].since <= changed[storing'[u].version]
    <3>1. CASE u = t
      BY <1>i, <2>3, <3>1
    <3>2. CASE u # t
      BY <2>2, <2>4, <3>2 DEF RecentInv, Archive!At
    <3> QED BY <3>1, <3>2
  <2> QED BY <2>1, <2>4 DEF RecentInv
<1>3. CASE Archive!Keep(t)
  <2> DEFINE v == storing[t].version
             c == storing[t].result
             e == [at |-> storeTime, version |-> v]
  <2>1. Archive!At(t, "keeps") /\ Archive!End(t) /\ Archive!Answer(c, v) /\ kept' = [kept EXCEPT ![c] = e] /\ UNCHANGED <<version, changed, storeTime>>
    BY <1>3 DEF Archive!Keep, Archive!tables
  <2>2. storing[t] \in Keeping /\ c \in Results /\ v \in Nat /\ storing[t].since \in Nat
    BY <2>1, StoringShape DEF Archive!At, Keeping
  <2>3. /\ storing[t].since <= storeTime /\ storeTime <= storing[t].since + Slow /\ v \in 1..version
        /\ v < version => storing[t].since <= changed[v]
    BY <2>1 DEF RecentInv
  <2>4. v < version => changed[v] \in Nat
    BY SMTT(30), <1>i, <2>3 DEF ArchiveType
  <2>5. v < version => storeTime <= changed[v] + Slow
    BY <1>i, <2>2, <2>3, <2>4
  <2>6. ~Archive!TooOld(v)
    BY <1>i, <2>3, <2>5, IsRecent
  <2>7. late' = {}
    BY <2>1, <2>6 DEF Archive!Answer, RecentInv
  <2>8. \A u \in Threads : Archive!At(u, "keeps")' => Archive!At(u, "keeps") /\ storing'[u] = storing[u]
    BY <2>1, <1>i DEF Archive!End, Archive!Go, ArchiveType, Archive!At
  <2>9. e.at = storeTime /\ e.version = v
    OBVIOUS
  <2> HIDE DEF e, v, c
  <2>10. \A r \in Results : kept'[r] = IF r = c THEN e ELSE kept[r]
    BY <2>1, <2>2 DEF ArchiveType
  <2>11. ASSUME NEW r \in Results, kept'[r] # Archive!NoEntry
         PROVE  /\ kept'[r].at <= storeTime /\ kept'[r].version \in 1..version
                /\ kept'[r].version < version => kept'[r].at <= changed[kept'[r].version] + Slow
    <3>1. CASE r = c
      BY <1>i, <2>3, <2>5, <2>9, <2>10, <3>1
    <3>2. CASE r # c
      BY <2>10, <2>11, <3>2 DEF RecentInv
    <3> QED BY <3>1, <3>2
  <2> QED BY <2>1, <2>7, <2>8, <2>11 DEF RecentInv
<1> QED BY <1>1, <1>2, <1>3

LEMMA Recent3 ==
  ASSUME Archive!ArchiveAssumption, ArchiveType, RecentInv, Archive!Work \/ Archive!Restart \/ Archive!Tick
  PROVE  RecentInv'
<1>1. CASE Archive!Work
  <2>1. UNCHANGED <<storeTime, late, kept, storing>>
    BY <1>1 DEF Archive!Work, Archive!ghosts
  <2>2. UNCHANGED <<version, changed>> \/ \E a, s \in SUBSET Messages : Archive!Commit(a, s)
    <3>1. archive \cup {Head(queue)} \in SUBSET Messages /\ scores \in SUBSET Messages
      BY <1>1 DEF Archive!Work, ArchiveType
    <3> QED BY <1>1, <3>1 DEF Archive!Work, Archive!tables
  <2> QED BY <2>1, <2>2, RecentQuiet
<1>2. CASE Archive!Restart
  <2>1. \A u \in Threads : storing'[u].pc = "idle"
    BY <1>2 DEF Archive!Restart, ArchiveType, Archive!Idle
  <2>2. UNCHANGED <<version, changed, storeTime, late>> /\ \A c \in Results : kept'[c] = Archive!NoEntry
    BY <1>2 DEF Archive!Restart, Archive!tables, Archive!ghosts
  <2>3. \A u \in Threads : ~Archive!At(u, "keeps")'
    BY <2>1 DEF Archive!At
  <2> QED BY <2>2, <2>3, RecentQuiet
<1>3. CASE Archive!Tick
  <2>1. /\ storeTime' = storeTime + 1 /\ storeTime \in Nat /\ Slow \in Nat /\ UNCHANGED <<version, changed, kept, storing, late>>
        /\ \A t \in Threads : Archive!At(t, "keeps") => storeTime < storing[t].since + Slow
    BY <1>3 DEF Archive!Tick, Archive!tables, Archive!ghosts, ArchiveType, Archive!ArchiveAssumption
  <2>2. ASSUME NEW t \in Threads, Archive!At(t, "keeps")'
        PROVE  /\ storing'[t].since <= storeTime' /\ storeTime' <= storing'[t].since + Slow /\ storing'[t].version \in 1..version'
               /\ storing'[t].version < version' => storing'[t].since <= changed'[storing'[t].version]
    <3>1. Archive!At(t, "keeps") /\ storing[t].since \in Nat
      BY <2>1, <2>2, StoringShape DEF Archive!At, Keeping
    <3> QED BY <2>1, <3>1 DEF RecentInv
  <2>3. ASSUME NEW c \in Results, kept'[c] # Archive!NoEntry PROVE kept'[c].at <= storeTime'
    <3>1. kept[c].at <= storeTime /\ kept[c].at \in Nat
      BY <2>1, <2>3 DEF RecentInv, ArchiveType
    <3> QED BY <2>1, <3>1
  <2> QED BY <2>1, <2>2, <2>3 DEF RecentInv
<1> QED BY <1>1, <1>2, <1>3

LEMMA ArchiveStays == ArchiveInv /\ UNCHANGED Archive!vars => ArchiveInv'
<1> SUFFICES ASSUME ArchiveInv, UNCHANGED Archive!vars PROVE ArchiveInv'
  OBVIOUS
<1>1. UNCHANGED <<group, people, archive, scores, recalls, version, changed, kept, queue, storeTime, storing, events, told, stored, imported, late>>
  BY DEF Archive!vars, Archive!tables, Archive!ghosts
<1>2. ArchiveType'
  BY <1>1 DEF ArchiveInv, ArchiveType
<1>3. KeptInv'
  BY <1>1 DEF ArchiveInv, KeptInv, MessagesKept, Announces, Archive!At
<1>4. CountInv'
  BY <1>1 DEF ArchiveInv, CountInv, Unaware
<1>5. RecentInv'
  BY <1>1 DEF ArchiveInv, RecentInv, Archive!At
<1> QED BY <1>2, <1>3, <1>4, <1>5 DEF ArchiveInv

LEMMA ArchiveKeeps == Archive!ArchiveAssumption /\ ArchiveInv /\ [Archive!Next]_Archive!vars => ArchiveInv'
<1> SUFFICES ASSUME Archive!ArchiveAssumption, ArchiveInv, [Archive!Next]_Archive!vars PROVE ArchiveInv'
  OBVIOUS
<1>i. ArchiveType /\ KeptInv /\ CountInv /\ RecentInv
  BY DEF ArchiveInv
<1>1. CASE Archive!Work \/ Archive!Restart \/ Archive!Tick
  BY <1>i, <1>1, ArchiveTypes, KeptStored, Count3, Recent3 DEF ArchiveInv
<1>2. ASSUME NEW t \in Threads,
             \/ Archive!Receive(t) \/ Archive!Ask(t) \/ Archive!Begins(t) \/ Archive!Clear(t) \/ Archive!Store(t) \/ Archive!Enqueue(t) \/ Archive!ReadOriginal(t) \/ Archive!Recall(t)
             \/ Archive!Look(t) \/ Archive!Compute(t) \/ Archive!Keep(t) \/ Archive!Import(t) \/ Archive!Replace(t) \/ Archive!Fail(t)
      PROVE  ArchiveInv'
  <2>1. ArchiveType'
    BY <1>i, <1>2, StoringTypes
  <2>2. KeptInv'
    BY <1>i, <1>2, KeptAnswers, KeptElsewhere
  <2>3. CountInv'
    BY <1>i, <1>2, Count1, Count2
  <2>4. RecentInv'
    BY <1>i, <1>2, Recent1, Recent2
  <2> QED BY <2>1, <2>2, <2>3, <2>4 DEF ArchiveInv
<1> QED BY <1>1, <1>2, ArchiveStays DEF Archive!Next

LEMMA ArchiveSafe == Archive!ArchiveAssumption /\ ArchiveInv => Archive!EventsAreKept /\ Archive!AnswersAreRecent
<1> SUFFICES ASSUME Archive!ArchiveAssumption, ArchiveInv PROVE Archive!EventsAreKept /\ Archive!AnswersAreRecent
  OBVIOUS
<1>1. people \in Nat /\ events \in Nat /\ Cardinality(Threads) \in Nat /\ Cardinality(Unaware) \in Nat
  <2>1. Unaware \in SUBSET Threads
    BY DEF Unaware
  <2> QED BY <2>1, UnawareBounded DEF ArchiveInv, ArchiveType
<1>2. events < people + Cardinality(Threads)
  <2>1. CASE people > 0
    BY <1>1, <2>1 DEF ArchiveInv, CountInv
  <2>2. CASE people = 0
    <3>1. Cardinality(Threads) # 0
      BY SizeIs, FS_EmptySet DEF Archive!ArchiveAssumption
    <3> QED BY <1>1, <2>2, <3>1 DEF ArchiveInv, CountInv
  <2> QED BY <1>1, <2>1, <2>2
<1> QED BY <1>2, SizeIs DEF ArchiveInv, KeptInv, CountInv, RecentInv, Archive!EventsAreKept, Archive!AnswersAreRecent

\* The service keeps the invariant of its archive.
LEMMA ServiceArchive == (ServiceInit => ArchiveInv) /\ (ArchiveInv /\ [ServiceNext]_serviceVars => ArchiveInv')
<1>1. ServiceInit => ArchiveInv
  BY ArchiveBegins, ServiceAssumption DEF ServiceInit
<1>2. ArchiveInv /\ [ServiceNext]_serviceVars => ArchiveInv'
  <2> SUFFICES ASSUME ArchiveInv, [ServiceNext]_serviceVars PROVE ArchiveInv'
    OBVIOUS
  <2>1. CASE Archives
    BY <2>1, ArchiveKeeps, ServiceAssumption DEF Archives
  <2>2. CASE Sessions \/ Settings \/ Scoring \/ Competition \/ UNCHANGED serviceVars
    <3>1. UNCHANGED archives
      BY <2>2 DEF Sessions, Settings, Scoring, Competition, serviceVars
    <3>2. UNCHANGED Archive!vars
      BY <3>1 DEF archives, Archive!vars, Archive!tables, Archive!ghosts
    <3> QED BY <3>2, ArchiveKeeps, ServiceAssumption
  <2> QED BY <2>1, <2>2 DEF ServiceNext
<1> QED BY <1>1, <1>2

\* In the service, an event that was answered is in its table and in the count of the
\* day, through failures, imports and restarts (Api.record_message_event,
\* archive_message_worker, import_snapshot).
THEOREM EventsStay == ServiceSpec => []EventsAreKept
<1>1. ArchiveInv => EventsAreKept
  BY ArchiveSafe, ServiceAssumption DEF EventsAreKept
<1> QED BY <1>1, ServiceArchive, PTL DEF ServiceSpec

\* In the service, an answer from a kept result is not older than the time results are
\* kept and computed in (score_agg_cache, stats_cache).
THEOREM AnswersStayRecent == ServiceSpec => []AnswersAreRecent
<1>1. ArchiveInv => AnswersAreRecent
  BY ArchiveSafe, ServiceAssumption DEF AnswersAreRecent
<1> QED BY <1>1, ServiceArchive, PTL DEF ServiceSpec

(***************************************************************************)
(* The public competitions of the service: rankings are whole.             *)
(***************************************************************************)

\* A request that asks the site, and what it or the kept result has.
RankingStages == {"pages", "keeps"}
RankingAsked  == [pc : RankingStages, at : Nat, had : Nat, rows : Seq(Nat), total : Nat, since : Nat]
KeptRankings == [at : Nat, had : Nat, rows : Seq(Nat), kept : BOOLEAN]

DistinctScores == \A i, j \in 1..Len(board) : board[i] = board[j] => i = j

\* Nothing begins later than now, and nobody had a score that comes later.
CompetitionType ==
  /\ board \in Seq(Nat) /\ entries \in Nat /\ (\A i \in 1..Len(board) : board[i] <= entries) /\ DistinctScores
  /\ kind \in {"group", "counted", "tiger", "page"} /\ moved \in Nat /\ askTime \in Nat /\ moved <= askTime
  /\ cache \in KeptRankings /\ cache.at <= askTime /\ cache.had <= entries
  /\ asking \in [Threads -> {Public!Idle} \cup RankingAsked]
  /\ \A t \in Threads : ~Public!At(t, "idle") => asking[t].at <= askTime /\ asking[t].had <= entries

\* Whoever was there and is ahead of a row of then is in the rows.
WholeRanking(rows, had) == \A x, y \in 1..had : y \in Public!ToSet(rows) /\ Public!Ahead(x, y) => x \in Public!ToSet(rows)

\* Whoever was there and is in the ranks that were fetched is in the rows.
CoversRanks(rows, had) == \A i \in 1..Len(rows) : i <= Len(board) /\ board[i] <= had => board[i] \in Public!ToSet(rows)

\* The rows are the first ranks, as they are now.
ExactRanks(rows) == /\ Len(rows) <= Len(board)
                    /\ \A i \in 1..Len(rows) : rows[i] = board[i]

WholePages(n) == \E m \in Nat : n = m * PageSize

InPages == kind \in {"group", "counted"}

RankingFetch(q) ==
  /\ ~InPages => q.rows = <<>>
  /\ WholeRanking(q.rows, q.had) /\ CoversRanks(q.rows, q.had)
  /\ WholePages(Len(q.rows)) /\ Len(q.rows) < MaxPlaces
  /\ kind = "group" => q.total = 0
  /\ q.at > moved => ExactRanks(q.rows) /\ (kind = "counted" /\ q.rows # <<>> => q.total = Len(board))

RankingAnswer(a) ==
  /\ a.at > moved => a.rows = Public!Shown
  /\ WholeRanking(a.rows, a.had)
  /\ kind # "page" => Len(a.rows) <= MaxPlaces

CompetitionInv ==
  /\ CompetitionType
  /\ \A t \in Threads : (Public!At(t, "pages") => RankingFetch(asking[t])) /\ (Public!At(t, "keeps") => RankingAnswer(asking[t]))
  /\ RankingAnswer(cache)

LEMMA MinIs == ASSUME NEW a \in Nat, NEW b \in Nat PROVE Public!Min({a, b}) = IF a <= b THEN a ELSE b
<1>1. \A x \in {a, b} : (\A y \in {a, b} : x <= y) => x = IF a <= b THEN a ELSE b
  OBVIOUS
<1>2. (IF a <= b THEN a ELSE b) \in {a, b} /\ \A y \in {a, b} : (IF a <= b THEN a ELSE b) <= y
  OBVIOUS
<1> QED BY <1>1, <1>2 DEF Public!Min

LEMMA PageMultiple ==
  ASSUME Public!CompetitionAssumption, NEW n \in Nat, WholePages(n), n < MaxPlaces
  PROVE  n + PageSize <= MaxPlaces /\ WholePages(n + PageSize)
<1>1. PageSize \in Nat \ {0} /\ MaxPlaces \in Nat \ {0} /\ MaxPlaces % PageSize = 0
  BY DEF Public!CompetitionAssumption
<1>2. PICK k \in Nat : MaxPlaces = k * PageSize
  <2>1. MaxPlaces \div PageSize \in Nat
    BY <1>1
  <2>2. MaxPlaces = (MaxPlaces \div PageSize) * PageSize
    BY <1>1
  <2> QED BY <2>1, <2>2
<1>3. PICK m \in Nat : n = m * PageSize
  BY DEF WholePages
<1>4. n + PageSize = (m + 1) * PageSize
  BY <1>1, <1>3
<1>5. m < k
  <2> SUFFICES ASSUME m >= k PROVE FALSE
    BY <1>2, <1>3
  <2>1. PICK d \in Nat : m = k + d
    BY <1>2, <1>3
  <2>2. n = MaxPlaces + d * PageSize /\ d * PageSize \in Nat
    BY <1>1, <1>2, <1>3, <2>1
  <2> QED BY <1>1, <2>2
<1>6. PICK d \in Nat : k = m + 1 + d
  BY <1>2, <1>3, <1>5
<1>7. MaxPlaces = n + PageSize + d * PageSize /\ d * PageSize \in Nat
  BY <1>1, <1>2, <1>4, <1>6
<1> QED BY <1>1, <1>4, <1>7 DEF WholePages

\* The ranks from one after n on, up to m.
LEMMA RanksAre ==
  ASSUME board \in Seq(Nat), NEW n \in Nat, NEW m \in Nat
  PROVE  /\ Public!Ranks(n + 1, m) \in Seq(Nat)
         /\ Len(Public!Ranks(n + 1, m)) = IF m <= Len(board) THEN IF n <= m THEN m - n ELSE 0 ELSE IF n <= Len(board) THEN Len(board) - n ELSE 0
         /\ \A i \in 1..Len(Public!Ranks(n + 1, m)) : n + i \in 1..Len(board) /\ Public!Ranks(n + 1, m)[i] = board[n + i]
<1> DEFINE top == IF m <= Len(board) THEN m ELSE Len(board)
           p == SubSeq(board, n + 1, top)
<1>1. Len(board) \in Nat /\ top \in Nat /\ top <= Len(board)
  OBVIOUS
<1>2. Public!Ranks(n + 1, m) = p
  <2>1. Public!Min({m, Len(board)}) = top
    BY <1>1, MinIs
  <2> QED BY <2>1 DEF Public!Ranks
<1>3. Len(p) = IF n + 1 <= top THEN top - n ELSE 0
  BY <1>1
<1>4. \A i \in 1..Len(p) : n + i \in 1..Len(board) /\ p[i] = board[n + i]
  BY <1>1, <1>3
<1>5. p \in Seq(Nat)
  <2>1. \A i \in 1..Len(p) : p[i] \in Nat
    BY <1>4
  <2> QED BY <1>1, <1>3, <2>1
<1> HIDE DEF p
<1> QED BY <1>1, <1>2, <1>3, <1>4, <1>5

LEMMA JoinIs ==
  ASSUME NEW s \in Seq(Nat), NEW p \in Seq(Nat)
  PROVE  /\ s \o p \in Seq(Nat) /\ Len(s \o p) = Len(s) + Len(p)
         /\ \A i \in 1..Len(s) : (s \o p)[i] = s[i]
         /\ \A i \in 1..Len(p) : (s \o p)[Len(s) + i] = p[i]
         /\ \A i \in 1..Len(s \o p) : i \in 1..Len(s) \/ (i - Len(s) \in 1..Len(p) /\ (s \o p)[i] = p[i - Len(s)])
         /\ Public!ToSet(s \o p) = Public!ToSet(s) \cup Public!ToSet(p)
<1> DEFINE r == s \o p
<1>1. r \in Seq(Nat) /\ Len(r) = Len(s) + Len(p) /\ Len(s) \in Nat /\ Len(p) \in Nat
  OBVIOUS
<1>2. \A i \in 1..Len(s) : r[i] = s[i]
  OBVIOUS
<1>3. \A i \in 1..Len(p) : r[Len(s) + i] = p[i] /\ Len(s) + i \in 1..Len(r)
  OBVIOUS
<1>4. \A i \in 1..Len(r) : i \in 1..Len(s) \/ (i - Len(s) \in 1..Len(p) /\ r[i] = p[i - Len(s)])
  OBVIOUS
<1>5. DOMAIN r = 1..Len(r) /\ DOMAIN s = 1..Len(s) /\ DOMAIN p = 1..Len(p) /\ 1..Len(s) \subseteq 1..Len(r)
  OBVIOUS
<1> HIDE DEF r
<1>6. ASSUME NEW x PROVE x \in Public!ToSet(r) <=> x \in Public!ToSet(s) \cup Public!ToSet(p)
  <2>1. ASSUME NEW i \in 1..Len(r), x = r[i] PROVE x \in Public!ToSet(s) \cup Public!ToSet(p)
    <3>1. CASE i \in 1..Len(s)
      BY <1>2, <1>5, <2>1, <3>1 DEF Public!ToSet
    <3>2. CASE i - Len(s) \in 1..Len(p) /\ r[i] = p[i - Len(s)]
      BY <1>5, <2>1, <3>2 DEF Public!ToSet
    <3> QED BY <1>4, <2>1, <3>1, <3>2
  <2>2. ASSUME NEW i \in 1..Len(s), x = s[i] PROVE x \in Public!ToSet(r)
    BY <1>2, <1>5, <2>2 DEF Public!ToSet
  <2>3. ASSUME NEW i \in 1..Len(p), x = p[i] PROVE x \in Public!ToSet(r)
    BY <1>3, <1>5, <2>3 DEF Public!ToSet
  <2> QED BY <1>5, <2>1, <2>2, <2>3 DEF Public!ToSet
<1>7. Public!ToSet(r) = Public!ToSet(s) \cup Public!ToSet(p)
  BY <1>6
<1> QED BY <1>1, <1>2, <1>3, <1>4, <1>7 DEF r

LEMMA ElementIs == ASSUME NEW s \in Seq(Nat), NEW x PROVE x \in Public!ToSet(s) <=> \E i \in 1..Len(s) : s[i] = x
BY DEF Public!ToSet

\* Somebody ahead, by the ranks.
LEMMA AheadIs ==
  ASSUME board \in Seq(Nat), NEW x, NEW y
  PROVE  Public!Ahead(x, y) <=> \E i, j \in 1..Len(board) : i < j /\ board[i] = x /\ board[j] = y
BY DEF Public!Ahead

\* Another page leaves out nobody.
LEMMA PageAdded ==
  ASSUME CompetitionType, NEW rows \in Seq(Nat), NEW had \in Nat, NEW m \in Nat, Len(rows) <= m,
         WholeRanking(rows, had), CoversRanks(rows, had)
  PROVE  LET p == Public!Ranks(Len(rows) + 1, m) IN
         /\ WholeRanking(rows \o p, had) /\ CoversRanks(rows \o p, had)
         /\ ExactRanks(rows) => ExactRanks(rows \o p)
<1> DEFINE n == Len(rows)
           p == Public!Ranks(n + 1, m)
           r == rows \o p
<1>1. n \in Nat /\ board \in Seq(Nat) /\ Len(board) \in Nat /\ DistinctScores
  BY DEF CompetitionType
<1>2. /\ p \in Seq(Nat)
      /\ Len(p) = IF m <= Len(board) THEN m - n ELSE IF n <= Len(board) THEN Len(board) - n ELSE 0
      /\ \A i \in 1..Len(p) : n + i \in 1..Len(board) /\ p[i] = board[n + i]
  <2>1. n <= m
    OBVIOUS
  <2> HIDE DEF n
  <2> QED BY <1>1, <2>1, RanksAre
<1>3. /\ r \in Seq(Nat) /\ Len(r) = n + Len(p)
      /\ \A i \in 1..n : r[i] = rows[i]
      /\ \A i \in 1..Len(p) : r[n + i] = p[i]
      /\ \A i \in 1..Len(r) : i \in 1..n \/ (i - n \in 1..Len(p) /\ r[i] = p[i - n])
      /\ Public!ToSet(r) = Public!ToSet(rows) \cup Public!ToSet(p)
  BY <1>2, JoinIs
<1>4. \A x : x \in Public!ToSet(p) <=> \E i \in 1..Len(p) : p[i] = x
  BY <1>2, ElementIs
<1> HIDE DEF p, r, n
<1>5. \A i \in 1..Len(board) : i > n /\ i - n <= Len(p) => board[i] \in Public!ToSet(p)
  <2> SUFFICES ASSUME NEW i \in 1..Len(board), i > n, i - n <= Len(p) PROVE board[i] \in Public!ToSet(p)
    OBVIOUS
  <2>1. i - n \in 1..Len(p) /\ n + (i - n) = i
    BY <1>1, <1>2
  <2> QED BY <1>2, <1>4, <2>1
<1>6. CoversRanks(r, had)
  <2> SUFFICES ASSUME NEW i \in 1..Len(r), i <= Len(board), board[i] <= had PROVE board[i] \in Public!ToSet(r)
    BY DEF CoversRanks
  <2>1. CASE i \in 1..n
    BY <1>3, <2>1 DEF CoversRanks, n
  <2>2. CASE i \notin 1..n
    <3>1. i > n /\ i - n <= Len(p) /\ i \in 1..Len(board)
      BY <1>1, <1>2, <1>3, <2>2
    <3> QED BY <1>3, <1>5, <3>1
  <2> QED BY <2>1, <2>2
<1>7. WholeRanking(r, had)
  <2> SUFFICES ASSUME NEW x \in 1..had, NEW y \in 1..had, y \in Public!ToSet(r), Public!Ahead(x, y) PROVE x \in Public!ToSet(r)
    BY DEF WholeRanking
  <2>1. CASE y \in Public!ToSet(rows)
    BY <1>3, <2>1 DEF WholeRanking
  <2>2. CASE y \in Public!ToSet(p)
    <3>1. PICK k \in 1..Len(p) : board[n + k] = y /\ n + k \in 1..Len(board)
      BY <1>2, <1>4, <2>2
    <3>2. PICK i \in 1..Len(board), j \in 1..Len(board) : i < j /\ board[i] = x /\ board[j] = y
      BY <1>1, AheadIs
    <3>3. j = n + k
      BY <1>1, <3>1, <3>2 DEF DistinctScores
    <3>4. CASE i \in 1..n
      <4>1. board[i] <= had /\ i <= Len(board) /\ i \in 1..Len(rows)
        BY <1>1, <3>2, <3>4 DEF n
      <4>2. board[i] \in Public!ToSet(rows)
        BY <4>1 DEF CoversRanks
      <4> QED BY <1>3, <3>2, <4>2
    <3>5. CASE i \notin 1..n
      <4>1. i > n /\ i - n <= Len(p)
        BY <1>1, <1>2, <3>2, <3>3, <3>5
      <4> QED BY <1>3, <1>5, <3>2, <4>1
    <3> QED BY <3>4, <3>5
  <2> QED BY <1>3, <2>1, <2>2
<1>8. ASSUME ExactRanks(rows) PROVE ExactRanks(r)
  <2>1. Len(r) <= Len(board)
    BY <1>1, <1>2, <1>3, <1>8 DEF ExactRanks, n
  <2>2. ASSUME NEW i \in 1..Len(r) PROVE r[i] = board[i]
    <3>1. CASE i \in 1..n
      BY <1>3, <1>8, <3>1 DEF ExactRanks, n
    <3>2. CASE i \notin 1..n
      <4>1. i - n \in 1..Len(p) /\ r[i] = p[i - n] /\ n + (i - n) = i
        BY <1>1, <1>2, <1>3, <2>2, <3>2
      <4> QED BY <1>2, <4>1
    <3> QED BY <3>1, <3>2
  <2> QED BY <2>1, <2>2 DEF ExactRanks
<1> QED BY <1>6, <1>7, <1>8 DEF n, p, r

LEMMA CompetitionBegins == Public!CompetitionAssumption /\ Public!Init => CompetitionInv
<1> SUFFICES ASSUME Public!CompetitionAssumption, Public!Init PROVE CompetitionInv
  OBVIOUS
<1>1. entries \in Nat /\ board = [i \in 1..entries |-> i] /\ board \in Seq(Nat) /\ Len(board) = entries
  <2>1. entries \in Nat /\ board = [i \in 1..entries |-> i]
    BY DEF Public!Init, Public!CompetitionAssumption
  <2> QED BY <2>1
<1>2. \A i \in 1..Len(board) : board[i] = i
  BY <1>1
<1>3. cache \in KeptRankings /\ cache.at = 0 /\ cache.had = 0 /\ cache.rows = <<>>
  BY DEF Public!Init, Public!None, KeptRankings
<1>4. CompetitionType
  <2>1. asking \in [Threads -> {Public!Idle} \cup RankingAsked] /\ \A t \in Threads : Public!At(t, "idle")
    BY DEF Public!Init, Public!At, Public!Idle
  <2>2. kind \in {"group", "counted", "tiger", "page"} /\ moved = 0 /\ askTime = 0
    BY DEF Public!Init
  <2> QED BY <1>1, <1>2, <1>3, <2>1, <2>2 DEF CompetitionType, DistinctScores
<1>5. \A t \in Threads : ~Public!At(t, "pages") /\ ~Public!At(t, "keeps")
  BY DEF Public!Init, Public!At, Public!Idle
<1>6. RankingAnswer(cache)
  <2>1. Len(cache.rows) = 0 /\ MaxPlaces \in Nat
    BY <1>3 DEF Public!CompetitionAssumption
  <2>2. moved = 0
    BY DEF Public!Init
  <2> QED BY <1>3, <2>1, <2>2 DEF RankingAnswer, WholeRanking
<1> QED BY <1>4, <1>5, <1>6 DEF CompetitionInv

LEMMA SiteStays ==
  ASSUME UNCHANGED <<board, entries, kind, moved>>, NEW x
  PROVE  (RankingFetch(x) => RankingFetch(x)') /\ (RankingAnswer(x) => RankingAnswer(x)')
BY DEF RankingFetch, RankingAnswer, WholeRanking, CoversRanks, ExactRanks, InPages, Public!Shown, Public!Ranks, Public!Ahead

\* Nothing happens.
LEMMA RankingStays == CompetitionInv /\ UNCHANGED <<Public!site, askTime, cache, asking>> => CompetitionInv'
<1> SUFFICES ASSUME CompetitionInv, UNCHANGED <<Public!site, askTime, cache, asking>> PROVE CompetitionInv'
  OBVIOUS
<1>1. UNCHANGED <<board, entries, kind, moved, askTime, cache, asking>>
  BY DEF Public!site
<1>2. CompetitionType'
  BY <1>1 DEF CompetitionInv, CompetitionType, DistinctScores, Public!At
<1>3. ASSUME NEW u \in Threads PROVE (Public!At(u, "pages")' => RankingFetch(asking[u])') /\ (Public!At(u, "keeps")' => RankingAnswer(asking[u])')
  BY <1>1, SiteStays DEF CompetitionInv, Public!At
<1>4. RankingAnswer(cache)'
  BY <1>1, SiteStays DEF CompetitionInv
<1> QED BY <1>2, <1>3, <1>4 DEF CompetitionInv

\* A request goes on, and what is kept may change.
LEMMA RankingRequestMoves ==
  ASSUME CompetitionInv, UNCHANGED <<Public!site, askTime>>, NEW t \in Threads, NEW q \in {Public!Idle} \cup RankingAsked, asking' = [asking EXCEPT ![t] = q],
         q.pc # "idle" => q.at <= askTime /\ q.had <= entries,
         q.pc = "pages" => RankingFetch(q), q.pc = "keeps" => RankingAnswer(q),
         NEW c \in KeptRankings, cache' = c, c.at <= askTime, c.had <= entries, RankingAnswer(c)
  PROVE  CompetitionInv'
<1>1. asking \in [Threads -> {Public!Idle} \cup RankingAsked]
  BY DEF CompetitionInv, CompetitionType
<1>2. asking' \in [Threads -> {Public!Idle} \cup RankingAsked] /\ asking'[t] = q /\ \A u \in Threads \ {t} : asking'[u] = asking[u]
  BY <1>1
<1>3. UNCHANGED <<board, entries, kind, moved, askTime>>
  BY DEF Public!site
<1>4. CompetitionType'
  BY <1>2, <1>3 DEF CompetitionInv, CompetitionType, DistinctScores, Public!At
<1>5. \A x \in {Public!Idle} \cup RankingAsked : (RankingFetch(x) => RankingFetch(x)') /\ (RankingAnswer(x) => RankingAnswer(x)')
  BY <1>3, SiteStays
<1>7. ASSUME NEW u \in Threads PROVE (Public!At(u, "pages")' => RankingFetch(asking[u])') /\ (Public!At(u, "keeps")' => RankingAnswer(asking[u])')
  <2>1. CASE u = t
    BY <1>2, <1>5, <2>1 DEF Public!At
  <2>2. CASE u # t
    BY <1>2, <1>5, <2>2 DEF CompetitionInv, Public!At
  <2> QED BY <2>1, <2>2
<1>6. RankingAnswer(cache)'
  BY <1>3 DEF RankingAnswer, WholeRanking, Public!Shown, Public!Ranks, Public!Ahead
<1> QED BY <1>4, <1>6, <1>7 DEF CompetitionInv

LEMMA RankingRequestIs ==
  ASSUME CompetitionInv
  PROVE  /\ asking \in [Threads -> {Public!Idle} \cup RankingAsked] /\ Public!Idle.pc = "idle" /\ Public!Idle \in {Public!Idle} \cup RankingAsked
         /\ cache \in KeptRankings /\ cache.at <= askTime /\ cache.had <= entries /\ RankingAnswer(cache)
         /\ askTime \in Nat /\ entries \in Nat /\ moved \in Nat /\ moved <= askTime
         /\ board \in Seq(Nat) /\ Len(board) \in Nat
         /\ \A t \in Threads : ~Public!At(t, "idle") => asking[t] \in RankingAsked /\ asking[t].at <= askTime /\ asking[t].had <= entries
<1>1. \A t \in Threads : ~Public!At(t, "idle") => asking[t] \in RankingAsked
  BY DEF CompetitionInv, CompetitionType, Public!At, Public!Idle
<1> QED BY <1>1 DEF CompetitionInv, CompetitionType, Public!Idle

\* A request goes on, and what is kept stays.
LEMMA RankingRequestGoes ==
  ASSUME CompetitionInv, UNCHANGED <<Public!site, askTime, cache>>, NEW t \in Threads, NEW q \in {Public!Idle} \cup RankingAsked, asking' = [asking EXCEPT ![t] = q],
         q.pc # "idle" => q.at <= askTime /\ q.had <= entries,
         q.pc = "pages" => RankingFetch(q), q.pc = "keeps" => RankingAnswer(q)
  PROVE  CompetitionInv'
<1>1. PICK c \in KeptRankings : cache' = c /\ c.at <= askTime /\ c.had <= entries /\ RankingAnswer(c)
  BY RankingRequestIs
<1> QED BY <1>1, RankingRequestMoves

LEMMA RankingLookKeeps ==
  ASSUME Public!CompetitionAssumption, CompetitionInv, NEW t \in Threads, NEW refresh \in BOOLEAN, Public!Look(t, refresh) PROVE CompetitionInv'
<1>1. UNCHANGED <<Public!site, askTime, cache>>
  BY DEF Public!Look, Public!Quiet
<1>2. CASE UNCHANGED asking
  BY <1>1, <1>2, RankingStays
<1>3. CASE ~(UNCHANGED asking)
  <2> DEFINE q == [pc |-> "pages", at |-> askTime, had |-> entries, rows |-> <<>>, total |-> 0, since |-> askTime]
  <2>1. asking' = [asking EXCEPT ![t] = q]
    BY <1>3 DEF Public!Look, Public!Go
  <2>2. q \in RankingAsked
    BY RankingRequestIs DEF RankingAsked, RankingStages
  <2>3. q.pc = "pages" /\ q.at = askTime /\ q.had = entries /\ q.rows = <<>> /\ q.total = 0
    OBVIOUS
  <2> HIDE DEF q
  <2>4. Len(q.rows) = 0 /\ Public!ToSet(q.rows) = {}
    BY <2>3 DEF Public!ToSet
  <2>5. RankingFetch(q)
    <3>1. WholePages(0) /\ 0 < MaxPlaces
      BY DEF WholePages, Public!CompetitionAssumption
    <3>2. ExactRanks(q.rows)
      BY <2>4, RankingRequestIs DEF ExactRanks
    <3>3. WholeRanking(q.rows, q.had)
      BY <2>4 DEF WholeRanking
    <3>4. CoversRanks(q.rows, q.had)
      BY <2>4 DEF CoversRanks
    <3> QED BY <2>3, <2>4, <3>1, <3>2, <3>3, <3>4 DEF RankingFetch
  <2>6. q \in {Public!Idle} \cup RankingAsked /\ (q.pc # "idle" => q.at <= askTime /\ q.had <= entries) /\ q.pc # "keeps"
    BY <2>2, <2>3, RankingRequestIs
  <2> QED BY <1>1, <2>1, <2>5, <2>6, RankingRequestGoes
<1> QED BY <1>2, <1>3

LEMMA AnswerKeeps ==
  ASSUME Public!CompetitionAssumption, CompetitionInv, NEW t \in Threads, Public!Keep(t) \/ Public!Fail(t) PROVE CompetitionInv'
<1>1. UNCHANGED <<Public!site, askTime>> /\ asking' = [asking EXCEPT ![t] = Public!Idle] /\ Public!Idle.pc = "idle"
  BY DEF Public!Keep, Public!Fail, Public!Go, Public!Quiet, Public!Idle
<1>2. CASE Public!Keep(t)
  <2>1. PICK q \in RankingAsked : q = asking[t] /\ q.at <= askTime /\ q.had <= entries /\ RankingAnswer(q)
    BY <1>2, RankingRequestIs DEF Public!Keep, Public!At, CompetitionInv
  <2>2. PICK c \in KeptRankings : cache' = c /\ c.at = q.at /\ c.had = q.had /\ c.rows = q.rows
    <3> DEFINE k == Public!Kept(q)
    <3>1. k \in KeptRankings /\ k.at = q.at /\ k.had = q.had /\ k.rows = q.rows
      BY <2>1 DEF Public!Kept, RankingAsked, KeptRankings
    <3>2. cache' = k
      BY <1>2, <2>1 DEF Public!Keep
    <3> QED BY <3>1, <3>2
  <2>3. RankingAnswer(c)
    BY <2>1, <2>2 DEF RankingAnswer
  <2>4. c.at <= askTime /\ c.had <= entries
    BY <2>1, <2>2
  <2> QED BY <1>1, <2>2, <2>3, <2>4, RankingRequestIs, RankingRequestMoves
<1>3. CASE Public!Fail(t)
  <2>1. cache' = cache
    BY <1>3 DEF Public!Fail
  <2> QED BY <1>1, <2>1, RankingRequestIs, RankingRequestMoves
<1> QED BY <1>2, <1>3

LEMMA FirstRanks ==
  ASSUME board \in Seq(Nat), NEW m \in Nat
  PROVE  /\ Public!Ranks(1, m) \in Seq(Nat) /\ Len(Public!Ranks(1, m)) = IF m <= Len(board) THEN m ELSE Len(board)
         /\ \A i \in 1..Len(Public!Ranks(1, m)) : i \in 1..Len(board) /\ Public!Ranks(1, m)[i] = board[i]
<1>1. PICK n \in Nat : n = 0
  OBVIOUS
<1>2. Public!Ranks(n + 1, m) = Public!Ranks(1, m)
  BY <1>1
<1>3. /\ Public!Ranks(n + 1, m) \in Seq(Nat)
      /\ Len(Public!Ranks(n + 1, m)) = IF m <= Len(board) THEN IF n <= m THEN m - n ELSE 0 ELSE IF n <= Len(board) THEN Len(board) - n ELSE 0
      /\ \A i \in 1..Len(Public!Ranks(n + 1, m)) : n + i \in 1..Len(board) /\ Public!Ranks(n + 1, m)[i] = board[n + i]
  BY RanksAre
<1> DEFINE p == Public!Ranks(1, m)
<1>4. /\ p \in Seq(Nat)
      /\ Len(p) = IF m <= Len(board) THEN IF n <= m THEN m - n ELSE 0 ELSE IF n <= Len(board) THEN Len(board) - n ELSE 0
      /\ \A i \in 1..Len(p) : n + i \in 1..Len(board) /\ p[i] = board[n + i]
  BY <1>2, <1>3
<1> HIDE DEF p
<1>5. Len(board) \in Nat /\ \A i \in 1..Len(p) : n + i = i
  BY <1>1
<1> QED BY <1>1, <1>4, <1>5 DEF p

\* Rows that are the first ranks up to m are the answer of the site.
LEMMA ExactIs ==
  ASSUME board \in Seq(Nat), NEW rows \in Seq(Nat), NEW m \in Nat, ExactRanks(rows), Len(rows) = IF m <= Len(board) THEN m ELSE Len(board)
  PROVE  rows = Public!Ranks(1, m)
<1> DEFINE p == Public!Ranks(1, m)
<1>1. p \in Seq(Nat) /\ Len(p) = (IF m <= Len(board) THEN m ELSE Len(board)) /\ \A i \in 1..Len(p) : p[i] = board[i]
  BY FirstRanks
<1> HIDE DEF p
<1>3. Len(rows) = Len(p) /\ \A i \in 1..Len(rows) : rows[i] = p[i]
  BY <1>1 DEF ExactRanks
<1>4. rows = p
  BY SMTT(30), <1>1, <1>3
<1> QED BY <1>4 DEF p

\* What a request has after a page of a group.
PageTaken(q, r) ==
  LET p == Public!Ranks(Len(q.rows) + 1, Len(q.rows) + PageSize)
      total == IF q.rows = <<>> THEN IF kind = "counted" THEN Len(board) ELSE 0 ELSE q.total
  IN /\ r.rows = q.rows \o p /\ r.total = total /\ r.at = q.at /\ r.had = q.had
     /\ r.pc = IF Public!GoesOn(r.rows, Len(p), total) THEN "pages" ELSE "keeps"

\* A page of a group.
LEMMA PageFetched ==
  ASSUME Public!CompetitionAssumption, CompetitionType, InPages, NEW q \in RankingAsked, RankingFetch(q), NEW r \in RankingAsked,
         PageTaken(q, r)
  PROVE  (r.pc = "pages" => RankingFetch(r)) /\ (r.pc = "keeps" => RankingAnswer(r))
<1> DEFINE n == Len(q.rows)
           m == n + PageSize
           p == Public!Ranks(n + 1, m)
           total == IF q.rows = <<>> THEN IF kind = "counted" THEN Len(board) ELSE 0 ELSE q.total
<1>1. /\ n \in Nat /\ q.rows \in Seq(Nat) /\ board \in Seq(Nat) /\ Len(board) \in Nat /\ q.had \in Nat /\ q.at \in Nat /\ q.total \in Nat
      /\ PageSize \in Nat \ {0} /\ MaxPlaces \in Nat \ {0} /\ n < MaxPlaces /\ WholePages(n)
  <2>1. q.rows \in Seq(Nat) /\ q.had \in Nat /\ q.at \in Nat /\ q.total \in Nat
    BY DEF RankingAsked
  <2>2. board \in Seq(Nat)
    BY DEF CompetitionType
  <2>3. PageSize \in Nat \ {0} /\ MaxPlaces \in Nat \ {0}
    BY DEF Public!CompetitionAssumption
  <2>4. Len(q.rows) < MaxPlaces /\ WholePages(Len(q.rows))
    BY DEF RankingFetch
  <2> QED BY <2>1, <2>2, <2>3, <2>4
<1>2. r.rows = q.rows \o p /\ r.total = total /\ r.at = q.at /\ r.had = q.had /\ r.pc = IF Public!GoesOn(r.rows, Len(p), total) THEN "pages" ELSE "keeps"
  BY DEF PageTaken
<1>3. m <= MaxPlaces /\ WholePages(m) /\ m \in Nat /\ n <= m /\ total \in Nat
  <2>1. n + PageSize <= MaxPlaces /\ WholePages(n + PageSize)
    BY <1>1, PageMultiple
  <2> QED BY <1>1, <2>1
<1>4. /\ p \in Seq(Nat) /\ Len(p) = IF m <= Len(board) THEN m - n ELSE IF n <= Len(board) THEN Len(board) - n ELSE 0
  <2> HIDE DEF n, m
  <2> QED BY <1>1, <1>3, RanksAre
<1>5. Len(r.rows) = n + Len(p) /\ r.rows \in Seq(Nat) /\ Len(p) \in Nat /\ Len(r.rows) \in Nat
  <2>1. Len(r.rows) = n + Len(p) /\ r.rows \in Seq(Nat)
    BY <1>1, <1>2, <1>4, JoinIs
  <2> HIDE DEF p, n, m
  <2>2. Len(p) \in Nat
    BY <1>4
  <2>3. Len(r.rows) \in Nat
    BY <2>1
  <2> QED BY <2>1, <2>2, <2>3
<1>6. WholeRanking(r.rows, r.had) /\ CoversRanks(r.rows, r.had) /\ (ExactRanks(q.rows) => ExactRanks(r.rows))
  <2>1. WholeRanking(q.rows, q.had) /\ CoversRanks(q.rows, q.had)
    BY DEF RankingFetch
  <2>2. PICK rows \in Seq(Nat) : rows = q.rows
    BY <1>1
  <2>3. PICK k \in Nat : k = m
    BY <1>3
  <2>4. /\ WholeRanking(rows \o Public!Ranks(Len(rows) + 1, k), q.had) /\ CoversRanks(rows \o Public!Ranks(Len(rows) + 1, k), q.had)
        /\ ExactRanks(rows) => ExactRanks(rows \o Public!Ranks(Len(rows) + 1, k))
    BY <1>1, <1>3, <2>1, <2>2, <2>3, PageAdded
  <2> QED BY <1>2, <2>2, <2>3, <2>4
<1>a. m = n + PageSize
  OBVIOUS
<1> HIDE DEF p, total, n, m
<1>7. Public!GoesOn(r.rows, Len(p), total) <=> /\ Len(p) = PageSize
                                                /\ Len(r.rows) < MaxPlaces /\ (total = 0 \/ Len(r.rows) < total)
  <2> DEFINE b == IF total = 0 THEN MaxPlaces ELSE total
  <2>1. b \in Nat
    BY <1>1, <1>3
  <2>2. Public!Min({b, MaxPlaces}) = IF b <= MaxPlaces THEN b ELSE MaxPlaces
    BY <1>1, <2>1, MinIs
  <2>3. Public!GoesOn(r.rows, Len(p), total) <=> Len(p) = PageSize /\ Len(r.rows) < Public!Min({b, MaxPlaces})
    BY DEF Public!GoesOn, InPages
  <2>4. Len(r.rows) \in Nat
    BY <1>1, <1>4, <1>5
  <2> QED BY <1>1, <1>3, <2>2, <2>3, <2>4
<1>8. ASSUME r.at > moved, kind = "counted" PROVE total = Len(board)
  BY <1>1, <1>2, <1>8 DEF RankingFetch, total, n
<1>9. ASSUME kind = "group" PROVE total = 0
  BY <1>9 DEF RankingFetch, total
<1>10. ASSUME r.at > moved PROVE ExactRanks(r.rows)
  BY <1>1, <1>2, <1>6, <1>10 DEF RankingFetch
<1>11. ASSUME r.pc = "pages" PROVE RankingFetch(r)
  <2>1. Public!GoesOn(r.rows, Len(p), total)
    BY <1>2, <1>11
  <2>2. Len(r.rows) = m /\ Len(r.rows) < MaxPlaces
    BY <1>1, <1>a, <1>5, <1>7, <2>1
  <2> QED BY <1>2, <1>3, <1>6, <1>8, <1>9, <1>10, <2>2 DEF RankingFetch
<1>12. ASSUME r.pc = "keeps" PROVE RankingAnswer(r)
  <2>1. ~Public!GoesOn(r.rows, Len(p), total)
    BY <1>2, <1>12
  <2>2. Len(p) <= PageSize /\ Len(r.rows) <= MaxPlaces
    BY <1>1, <1>a, <1>3, <1>4, <1>5
  <2>3. ASSUME r.at > moved PROVE r.rows = Public!Shown
    <3>1. ExactRanks(r.rows) /\ Len(r.rows) <= Len(board)
      BY <1>10, <2>3 DEF ExactRanks
    <3>2. Len(r.rows) = IF MaxPlaces <= Len(board) THEN MaxPlaces ELSE Len(board)
      <4>1. CASE Len(p) # PageSize
        <5>1. Len(r.rows) = Len(board)
          BY <1>1, <1>a, <1>3, <1>4, <1>5, <3>1, <4>1
        <5> QED BY <1>1, <2>2, <5>1
      <4>2. CASE Len(r.rows) >= MaxPlaces
        BY <1>1, <2>2, <3>1, <4>2
      <4>3. CASE total # 0 /\ Len(r.rows) >= total
        <5>1. total = Len(board)
          BY <1>8, <1>9, <2>3, <4>3 DEF InPages
        <5> QED BY <1>1, <1>5, <2>2, <3>1, <4>3, <5>1
      <4>4. Len(r.rows) \in Nat /\ total \in Nat
        BY <1>1, <1>a, <1>3, <1>4, <1>5
      <4> QED BY <1>1, <1>7, <2>1, <4>1, <4>2, <4>3, <4>4
    <3>3. r.rows = Public!Ranks(1, MaxPlaces)
      BY <1>1, <1>5, <3>1, <3>2, ExactIs
    <3> QED BY <3>3 DEF Public!Shown, InPages
  <2> QED BY <1>6, <2>2, <2>3 DEF RankingAnswer
<1> QED BY <1>11, <1>12

\* Everything there is, in one answer.
LEMMA AllFetched ==
  ASSUME Public!CompetitionAssumption, CompetitionType, ~InPages, NEW q \in RankingAsked, RankingFetch(q), NEW r \in RankingAsked,
         r.rows = q.rows \o Public!Page(Len(q.rows)), r.at = q.at, r.had = q.had
  PROVE  RankingAnswer(r)
<1>1. q.rows = <<>> /\ board \in Seq(Nat) /\ Len(board) \in Nat /\ MaxPlaces \in Nat /\ q.had \in Nat /\ kind \in {"tiger", "page"}
  BY DEF CompetitionType, RankingFetch, RankingAsked, Public!CompetitionAssumption, InPages
<1>2. CASE kind = "tiger"
  <2>1. Public!Page(Len(q.rows)) = Public!Ranks(1, MaxPlaces)
    BY <1>2 DEF Public!Page
  <2>2. Public!Ranks(1, MaxPlaces) \in Seq(Nat) /\ Len(Public!Ranks(1, MaxPlaces)) <= MaxPlaces
    <3>1. PICK m \in Nat : m = MaxPlaces
      BY <1>1
    <3>2. Public!Ranks(1, m) \in Seq(Nat)
      BY <1>1, FirstRanks
    <3>3. Len(Public!Ranks(1, m)) = IF m <= Len(board) THEN m ELSE Len(board)
      BY <1>1, FirstRanks
    <3>4. Len(Public!Ranks(1, m)) <= m
      BY <1>1, <3>3
    <3> QED BY <3>1, <3>2, <3>4
  <2>3. r.rows = Public!Ranks(1, MaxPlaces) /\ r.rows = Public!Shown /\ Len(r.rows) <= MaxPlaces
    BY <1>1, <1>2, <2>1, <2>2 DEF Public!Shown
  <2>4. <<>> \in Seq(Nat) /\ Len(<<>>) = 0
    OBVIOUS
  <2>5. WholeRanking(<<>>, q.had) /\ CoversRanks(<<>>, q.had)
    BY <1>1 DEF RankingFetch
  <2>6. PICK rows \in Seq(Nat) : rows = <<>> /\ Len(rows) = 0
    BY <2>4
  <2>7. WholeRanking(rows \o Public!Ranks(Len(rows) + 1, MaxPlaces), q.had)
    <3>1. WholeRanking(rows, q.had) /\ CoversRanks(rows, q.had) /\ Len(rows) <= MaxPlaces
      BY <1>1, <2>5, <2>6
    <3> QED BY <1>1, <3>1, PageAdded
  <2>8. r.rows = rows \o Public!Ranks(Len(rows) + 1, MaxPlaces)
    BY <1>1, <2>1, <2>6
  <2> QED BY <2>3, <2>7, <2>8 DEF RankingAnswer
<1>3. CASE kind = "page"
  <2>1. Public!Page(Len(q.rows)) = board /\ Public!Shown = board
    BY <1>3 DEF Public!Page, Public!Shown
  <2>2. r.rows = board
    BY <1>1, <2>1
  <2>3. WholeRanking(board, r.had)
    BY <1>1, AheadIs, ElementIs DEF WholeRanking
  <2> QED BY <1>3, <2>1, <2>2, <2>3 DEF RankingAnswer
<1> QED BY <1>1, <1>2, <1>3

\* What a request has after a call.
Fetched(q, rows, total, since, pc) == [q EXCEPT !.rows = rows, !.total = total, !.since = since, !.pc = pc]

LEMMA FetchedIs ==
  ASSUME NEW q \in RankingAsked, NEW rows \in Seq(Nat), NEW total \in Nat, NEW since \in Nat, NEW pc \in RankingStages
  PROVE  /\ Fetched(q, rows, total, since, pc) \in RankingAsked /\ Fetched(q, rows, total, since, pc).rows = rows
         /\ Fetched(q, rows, total, since, pc).total = total /\ Fetched(q, rows, total, since, pc).at = q.at
         /\ Fetched(q, rows, total, since, pc).had = q.had /\ Fetched(q, rows, total, since, pc).pc = pc
BY DEF Fetched, RankingAsked

LEMMA PageIs ==
  ASSUME Public!CompetitionAssumption, CompetitionType, NEW n \in Nat
  PROVE  /\ Public!Page(n) \in Seq(Nat)
         /\ InPages => Public!Page(n) = Public!Ranks(n + 1, n + PageSize)
<1>1. board \in Seq(Nat) /\ PageSize \in Nat /\ MaxPlaces \in Nat /\ n + PageSize \in Nat /\ kind \in {"group", "counted", "tiger", "page"}
  BY DEF CompetitionType, Public!CompetitionAssumption
<1>2. Public!Ranks(n + 1, n + PageSize) \in Seq(Nat)
  BY <1>1, RanksAre
<1>3. Public!Ranks(1, MaxPlaces) \in Seq(Nat)
  BY <1>1, FirstRanks
<1> QED BY <1>1, <1>2, <1>3 DEF Public!Page, InPages

LEMMA PageKeeps ==
  ASSUME Public!CompetitionAssumption, CompetitionInv, NEW t \in Threads, Public!Fetch(t) PROVE CompetitionInv'
<1>1. UNCHANGED <<Public!site, askTime, cache>> /\ Public!At(t, "pages")
  BY DEF Public!Fetch, Public!Quiet
<1>2. PICK q \in RankingAsked : q = asking[t] /\ q.at <= askTime /\ q.had <= entries /\ RankingFetch(q)
  BY <1>1, RankingRequestIs DEF Public!At, CompetitionInv
<1>3. CompetitionType /\ askTime \in Nat /\ Len(board) \in Nat /\ Len(q.rows) \in Nat /\ q.rows \in Seq(Nat) /\ q.total \in Nat
  BY RankingRequestIs DEF CompetitionInv, RankingAsked
<1> DEFINE page == Public!Page(Len(q.rows))
           rows == q.rows \o page
           total == IF q.rows = <<>> THEN IF kind = "counted" THEN Len(board) ELSE 0 ELSE q.total
           pc == IF Public!GoesOn(rows, Len(page), total) THEN "pages" ELSE "keeps"
           r == Fetched(q, rows, total, askTime, pc)
<1>4. asking' = [asking EXCEPT ![t] = r]
  BY <1>2 DEF Public!Fetch, Public!Go, Fetched
<1>5. page \in Seq(Nat) /\ (InPages => page = Public!Ranks(Len(q.rows) + 1, Len(q.rows) + PageSize))
  BY <1>3, PageIs
<1>6. rows \in Seq(Nat)
  BY <1>3, <1>5, JoinIs
<1>7. total \in Nat
  BY <1>3
<1>8. pc \in RankingStages
  BY DEF RankingStages
<1>9. r \in RankingAsked /\ r.rows = rows /\ r.total = total /\ r.at = q.at /\ r.had = q.had /\ r.pc = pc
  <2> HIDE DEF rows, total, pc, page
  <2>1. q \in RankingAsked /\ rows \in Seq(Nat) /\ total \in Nat /\ askTime \in Nat /\ pc \in RankingStages
    BY <1>2, <1>3, <1>6, <1>7, <1>8
  <2>2. r = Fetched(q, rows, total, askTime, pc)
    OBVIOUS
  <2> HIDE DEF r
  <2>3. /\ Fetched(q, rows, total, askTime, pc) \in RankingAsked /\ Fetched(q, rows, total, askTime, pc).rows = rows
        /\ Fetched(q, rows, total, askTime, pc).total = total /\ Fetched(q, rows, total, askTime, pc).at = q.at
        /\ Fetched(q, rows, total, askTime, pc).had = q.had /\ Fetched(q, rows, total, askTime, pc).pc = pc
    BY <2>1, FetchedIs
  <2> QED BY <2>2, <2>3
<1> HIDE DEF r
<1>10. (r.pc = "pages" => RankingFetch(r)) /\ (r.pc = "keeps" => RankingAnswer(r))
  <2>1. CASE InPages
    <3>1. PageTaken(q, r)
      BY <1>5, <1>9, <2>1 DEF PageTaken
    <3> HIDE DEF pc, rows, total, page
    <3> QED BY <1>2, <1>3, <1>9, <2>1, <3>1, PageFetched
  <2>2. CASE ~InPages
    <3>1. r.pc = "keeps"
      BY <1>9, <2>2 DEF Public!GoesOn, InPages
    <3>2. r.rows = q.rows \o Public!Page(Len(q.rows))
      BY <1>9
    <3> HIDE DEF pc, rows, total, page
    <3> QED BY <1>2, <1>3, <1>9, <2>2, <3>1, <3>2, AllFetched
  <2> QED BY <2>1, <2>2
<1>11. r \in {Public!Idle} \cup RankingAsked /\ (r.pc # "idle" => r.at <= askTime /\ r.had <= entries)
  BY <1>2, <1>9
<1> HIDE DEF pc, rows, total, page
<1> QED BY <1>1, <1>4, <1>10, <1>11, RankingRequestGoes

\* A sequence that has a row more, at a rank.
Inserted(new, s, i, e) ==
  /\ new \in Seq(Nat) /\ Len(new) = Len(s) + 1 /\ new[i] = e
  /\ \A k \in 1..Len(s) : k < i => new[k] = s[k]
  /\ \A k \in 1..Len(s) : k >= i => new[k + 1] = s[k]

\* A row that is inserted.
LEMMA InsertIs ==
  ASSUME NEW s \in Seq(Nat), NEW i \in Nat, i >= 1, i <= Len(s) + 1, NEW e \in Nat, NEW new, new = Public!InsertAt(s, i, e)
  PROVE  Inserted(new, s, i, e)
<1> DEFINE a == SubSeq(s, 1, i - 1)
           b == SubSeq(s, i, Len(s))
           c == a \o <<e>>
           r == c \o b
<1>1. Len(s) \in Nat /\ i \in Nat /\ i >= 1 /\ i <= Len(s) + 1
  OBVIOUS
<1>2. a \in Seq(Nat) /\ Len(a) = i - 1 /\ \A k \in 1..(i - 1) : a[k] = s[k]
  BY <1>1
<1>3. b \in Seq(Nat) /\ Len(b) = Len(s) - i + 1 /\ \A k \in 1..Len(b) : b[k] = s[(i - 1) + k]
  BY <1>1
<1>4. <<e>> \in Seq(Nat) /\ Len(<<e>>) = 1 /\ <<e>>[1] = e
  OBVIOUS
<1> HIDE DEF a, b
<1>5. c \in Seq(Nat) /\ Len(c) = i /\ c[i] = e /\ \A k \in 1..(i - 1) : c[k] = a[k]
  <2>1. PICK f \in Seq(Nat) : f = <<e>> /\ Len(f) = 1 /\ f[1] = e
    BY <1>4
  <2>2. c = a \o f
    BY <2>1
  <2>3. /\ a \o f \in Seq(Nat) /\ Len(a \o f) = Len(a) + Len(f) /\ (\A k \in 1..Len(a) : (a \o f)[k] = a[k])
        /\ \A k \in 1..Len(f) : (a \o f)[Len(a) + k] = f[k]
    BY <1>2, JoinIs
  <2> HIDE DEF c
  <2>4. Len(a) = i - 1 /\ Len(a) + 1 = i /\ 1 \in 1..Len(f)
    BY <1>1, <1>2, <2>1
  <2>5. c[i] = e
    BY <2>1, <2>2, <2>3, <2>4
  <2> QED BY <1>1, <2>1, <2>2, <2>3, <2>4, <2>5
<1> HIDE DEF c
<1>6. r \in Seq(Nat) /\ Len(r) = Len(s) + 1
  <2>1. r \in Seq(Nat) /\ Len(r) = Len(c) + Len(b)
    BY <1>3, <1>5, JoinIs
  <2> HIDE DEF r
  <2> QED BY <1>1, <1>3, <1>5, <2>1
<1>7. \A k \in 1..i : r[k] = c[k]
  BY <1>3, <1>5, JoinIs
<1>8. \A k \in 1..Len(b) : r[i + k] = b[k]
  BY <1>3, <1>5, JoinIs
<1>9. new = r
  BY DEF Public!InsertAt, a, b, c
<1> HIDE DEF r
<1>10. ASSUME NEW k \in 1..Len(s), k < i PROVE r[k] = s[k]
  BY <1>1, <1>2, <1>5, <1>7, <1>10
<1>11. ASSUME NEW k \in 1..Len(s), k >= i PROVE r[k + 1] = s[k]
  <2>1. k - i + 1 \in 1..Len(b) /\ i + (k - i + 1) = k + 1 /\ (i - 1) + (k - i + 1) = k
    BY <1>1, <1>3, <1>11
  <2> QED BY ZenonT(40), <1>3, <1>8, <2>1
<1>12. r[i] = e
  BY <1>1, <1>5, <1>7
<1> QED BY <1>6, <1>9, <1>10, <1>11, <1>12 DEF Inserted

\* A score that is handed in: all who were there keep their order.
LEMMA ScoreSubmitKeeps == ASSUME Public!CompetitionAssumption, CompetitionInv, Public!Submit PROVE CompetitionInv'
<1>1. /\ entries' = entries + 1 /\ moved' = askTime /\ UNCHANGED <<kind, cache, askTime, asking>>
  BY DEF Public!Submit
<1>2. PICK i \in 1..(Len(board) + 1) : board' = Public!InsertAt(board, i, entries')
  BY DEF Public!Submit
<1>3. /\ board \in Seq(Nat) /\ Len(board) \in Nat /\ entries \in Nat /\ (\A k \in 1..Len(board) : board[k] <= entries /\ board[k] \in Nat) /\ DistinctScores
      /\ askTime \in Nat /\ i \in Nat
  BY <1>2 DEF CompetitionInv, CompetitionType
<1>4. PICK e \in Nat : e = entries + 1 /\ e = entries'
  BY <1>1, <1>3
<1>5. /\ board' \in Seq(Nat) /\ Len(board') = Len(board) + 1 /\ board'[i] = e
      /\ \A k \in 1..Len(board) : k < i => board'[k] = board[k]
      /\ \A k \in 1..Len(board) : k >= i => board'[k + 1] = board[k]
  <2>1. board' = Public!InsertAt(board, i, e)
    BY <1>2, <1>4
  <2>2. PICK s \in Seq(Nat) : s = board /\ Len(s) = Len(board)
    BY <1>3
  <2>3. i \in Nat /\ i >= 1 /\ i <= Len(s) + 1
    BY <1>2, <1>3, <2>2
  <2>4. PICK new : new = board'
    OBVIOUS
  <2>5. new = Public!InsertAt(s, i, e)
    BY <2>1, <2>2, <2>4
  <2>6. Inserted(new, s, i, e)
    BY <2>3, <2>5, InsertIs
  <2> QED BY <2>2, <2>4, <2>6 DEF Inserted
\* Where a row that is not the new one was.
<1>6. ASSUME NEW k \in 1..Len(board'), k # i
      PROVE  \E l \in 1..Len(board) : /\ board'[k] = board[l] /\ l <= k
                                      /\ (k < i /\ l = k) \/ (k > i /\ k = l + 1)
  <2>1. CASE k < i
    <3>1. k \in 1..Len(board)
      BY <1>2, <1>3, <1>5, <2>1
    <3> QED BY <1>5, <2>1, <3>1
  <2>2. CASE k > i
    <3>1. k - 1 \in 1..Len(board) /\ k - 1 >= i /\ (k - 1) + 1 = k /\ k - 1 <= k
      BY <1>2, <1>3, <1>5, <2>2
    <3> QED BY <1>5, <2>2, <3>1
  <2> QED BY <1>2, <1>5, <1>6, <2>1, <2>2
<1>7. DistinctScores' /\ \A k \in 1..Len(board') : board'[k] <= entries'
  <2>1. ASSUME NEW k \in 1..Len(board'), NEW l \in 1..Len(board'), board'[k] = board'[l] PROVE k = l
    <3>1. CASE k # i /\ l # i
      <4>1. PICK a \in 1..Len(board) : board'[k] = board[a] /\ ((k < i /\ a = k) \/ (k > i /\ k = a + 1))
        BY <1>6, <3>1
      <4>2. PICK b \in 1..Len(board) : board'[l] = board[b] /\ ((l < i /\ b = l) \/ (l > i /\ l = b + 1))
        BY <1>6, <3>1
      <4>3. a = b
        BY <1>3, <2>1, <4>1, <4>2 DEF DistinctScores
      <4>4. (a < i \/ a >= i) /\ (k < i <=> a < i) /\ (l < i <=> b < i)
        BY <1>2, <1>3, <4>1, <4>2
      <4> QED BY <4>1, <4>2, <4>3, <4>4
    <3>2. ASSUME NEW a \in 1..Len(board'), a # i PROVE board'[a] # e
      <4>1. PICK c \in 1..Len(board) : board'[a] = board[c]
        BY <1>6, <3>2
      <4> QED BY <1>3, <1>4, <4>1
    <3> QED BY <1>5, <2>1, <3>1, <3>2
  <2>2. ASSUME NEW k \in 1..Len(board') PROVE board'[k] <= entries'
    <3>1. CASE k = i
      BY <1>3, <1>4, <1>5, <3>1
    <3>2. CASE k # i
      <4>1. PICK c \in 1..Len(board) : board'[k] = board[c]
        BY <1>6, <3>2
      <4> QED BY <1>3, <1>4, <4>1
    <3> QED BY <3>1, <3>2
  <2> QED BY <2>1, <2>2 DEF DistinctScores
<1>8. ASSUME NEW x \in 1..entries, NEW y \in 1..entries, Public!Ahead(x, y)' PROVE Public!Ahead(x, y)
  <2>1. PICK k \in 1..Len(board'), l \in 1..Len(board') : k < l /\ board'[k] = x /\ board'[l] = y
    BY <1>8 DEF Public!Ahead
  <2>2. k # i /\ l # i
    BY <1>3, <1>4, <1>5, <2>1
  <2>3. PICK a \in 1..Len(board) : board'[k] = board[a] /\ ((k < i /\ a = k) \/ (k > i /\ k = a + 1))
    BY <1>6, <2>2
  <2>4. PICK b \in 1..Len(board) : board'[l] = board[b] /\ ((l < i /\ b = l) \/ (l > i /\ l = b + 1))
    BY <1>6, <2>2
  <2>5. a < b
    BY <1>2, <1>3, <2>1, <2>3, <2>4
  <2> QED BY <1>3, <2>1, <2>3, <2>4, <2>5, AheadIs
<1>9. ASSUME NEW rows, NEW had \in Nat, had <= entries, WholeRanking(rows, had) PROVE WholeRanking(rows, had)'
  <2>1. \A x \in 1..had : x \in 1..entries
    BY <1>3, <1>9
  <2> QED BY <1>8, <1>9, <2>1 DEF WholeRanking
<1>10. ASSUME NEW rows \in Seq(Nat), NEW had \in Nat, had <= entries, CoversRanks(rows, had) PROVE CoversRanks(rows, had)'
  <2> SUFFICES ASSUME NEW k \in 1..Len(rows), k <= Len(board'), board'[k] <= had PROVE board'[k] \in Public!ToSet(rows)
    BY DEF CoversRanks
  <2>1. k \in 1..Len(board') /\ k # i
    BY <1>3, <1>4, <1>5, <1>10
  <2>2. PICK l \in 1..Len(board) : board'[k] = board[l] /\ l <= k
    BY <1>6, <2>1
  <2>3. l \in 1..Len(rows) /\ l <= Len(board)
    BY <2>2
  <2> QED BY <1>10, <2>2, <2>3 DEF CoversRanks
<1>11. CompetitionType'
  <2>1. entries' \in Nat /\ moved' \in Nat /\ moved' <= askTime' /\ entries <= entries'
    BY <1>1, <1>3
  <2>2. kind' \in {"group", "counted", "tiger", "page"} /\ askTime' \in Nat /\ cache' \in KeptRankings /\ cache'.at <= askTime' /\ cache'.had <= entries
        /\ cache'.had \in Nat /\ asking' \in [Threads -> {Public!Idle} \cup RankingAsked]
    BY <1>1 DEF CompetitionInv, CompetitionType, KeptRankings
  <2>3. ASSUME NEW t \in Threads, ~Public!At(t, "idle")' PROVE asking'[t].at <= askTime' /\ asking'[t].had <= entries /\ asking'[t].had \in Nat
    BY <1>1, <2>3, RankingRequestIs DEF Public!At, RankingAsked
  <2>4. cache'.had <= entries' /\ \A t \in Threads : ~Public!At(t, "idle")' => asking'[t].at <= askTime' /\ asking'[t].had <= entries'
    BY <1>3, <2>1, <2>2, <2>3
  <2> QED BY <1>5, <1>7, <2>1, <2>2, <2>4 DEF CompetitionType
<1>12. ASSUME NEW a, a.at \in Nat, a.at <= askTime, a.had \in Nat, a.had <= entries, RankingAnswer(a) PROVE RankingAnswer(a)'
  <2>1. ~(a.at > moved')
    BY <1>1, <1>3, <1>12
  <2>2. WholeRanking(a.rows, a.had)'
    BY <1>9, <1>12 DEF RankingAnswer
  <2> QED BY <1>1, <1>12, <2>1, <2>2 DEF RankingAnswer
<1>13. ASSUME NEW q \in RankingAsked, q.at <= askTime, q.had <= entries, RankingFetch(q) PROVE RankingFetch(q)'
  <2>0. q.rows \in Seq(Nat) /\ q.at \in Nat /\ q.had \in Nat
    BY DEF RankingAsked
  <2>1. ~(q.at > moved')
    BY <1>1, <1>3, <1>13, <2>0
  <2>2. WholeRanking(q.rows, q.had)' /\ CoversRanks(q.rows, q.had)'
    BY <1>9, <1>10, <1>13, <2>0 DEF RankingFetch
  <2> QED BY <1>1, <1>13, <2>1, <2>2 DEF RankingFetch, InPages, WholePages
<1>14. ASSUME NEW t \in Threads PROVE (Public!At(t, "pages")' => RankingFetch(asking[t])') /\ (Public!At(t, "keeps")' => RankingAnswer(asking[t])')
  <2>1. CASE Public!At(t, "idle")
    BY <1>1, <2>1 DEF Public!At
  <2>2. CASE ~Public!At(t, "idle")
    <3>1. PICK q \in RankingAsked : q = asking[t] /\ q.at <= askTime /\ q.had <= entries /\ q.at \in Nat /\ q.had \in Nat
      BY <2>2, RankingRequestIs DEF RankingAsked
    <3>2. q = asking'[t]
      BY <1>1, <3>1
    <3>3. (Public!At(t, "pages") => RankingFetch(q)) /\ (Public!At(t, "keeps") => RankingAnswer(q))
      BY <3>1 DEF CompetitionInv
    <3>4. (Public!At(t, "pages") => RankingFetch(q)') /\ (Public!At(t, "keeps") => RankingAnswer(q)')
      BY <1>12, <1>13, <3>1, <3>3
    <3> QED BY <1>1, <3>2, <3>4 DEF Public!At
  <2> QED BY <2>1, <2>2
<1>15. RankingAnswer(cache)'
  <2>1. PICK c \in KeptRankings : c = cache /\ c.at <= askTime /\ c.had <= entries /\ c.at \in Nat /\ c.had \in Nat /\ RankingAnswer(c)
    BY RankingRequestIs DEF KeptRankings
  <2>2. RankingAnswer(c)'
    BY <1>12, <2>1
  <2> QED BY <1>1, <2>1, <2>2
<1> QED BY <1>11, <1>14, <1>15 DEF CompetitionInv

LEMMA ClockKeeps == ASSUME CompetitionInv, Public!Tick PROVE CompetitionInv'
<1>1. UNCHANGED <<board, entries, kind, moved, cache, asking>> /\ askTime' = askTime + 1
  BY DEF Public!Tick, Public!site
<1>2. CompetitionType'
  <2>1. askTime \in Nat /\ askTime' \in Nat /\ askTime <= askTime' /\ moved' <= askTime' /\ cache'.at <= askTime'
    BY <1>1, RankingRequestIs DEF KeptRankings
  <2>2. \A t \in Threads : ~Public!At(t, "idle")' => asking'[t].at <= askTime' /\ asking'[t].had <= entries'
    BY <1>1, <2>1, RankingRequestIs DEF Public!At, RankingAsked
  <2> QED BY <1>1, <2>1, <2>2 DEF CompetitionInv, CompetitionType, DistinctScores
<1>3. ASSUME NEW u \in Threads PROVE (Public!At(u, "pages")' => RankingFetch(asking[u])') /\ (Public!At(u, "keeps")' => RankingAnswer(asking[u])')
  BY <1>1, SiteStays DEF CompetitionInv, Public!At
<1>4. RankingAnswer(cache)'
  BY <1>1, SiteStays DEF CompetitionInv
<1> QED BY <1>2, <1>3, <1>4 DEF CompetitionInv

LEMMA CompetitionKeeps == Public!CompetitionAssumption /\ CompetitionInv /\ [Public!Next]_Public!vars => CompetitionInv'
<1> SUFFICES ASSUME Public!CompetitionAssumption, CompetitionInv, [Public!Next]_Public!vars PROVE CompetitionInv'
  OBVIOUS
<1>1. ASSUME NEW t \in Threads, (\E refresh \in BOOLEAN : Public!Look(t, refresh)) \/ Public!Fetch(t) \/ Public!Keep(t) \/ Public!Fail(t) PROVE CompetitionInv'
  BY <1>1, RankingLookKeeps, PageKeeps, AnswerKeeps
<1>2. CASE UNCHANGED Public!vars
  BY <1>2, RankingStays DEF Public!vars
<1> QED BY <1>1, <1>2, ScoreSubmitKeeps, ClockKeeps DEF Public!Next

LEMMA CompetitionSafe == Public!CompetitionAssumption /\ CompetitionInv => Public!RankingsAreWhole
<1> SUFFICES ASSUME Public!CompetitionAssumption, CompetitionInv PROVE Public!RankingsAreWhole
  OBVIOUS
<1>1. ASSUME Public!Fresh(cache), moved + TTL <= askTime PROVE cache.rows = Public!Shown
  <2>1. cache.at \in Nat /\ moved \in Nat /\ TTL \in Nat /\ askTime \in Nat /\ askTime < cache.at + TTL
    BY <1>1, RankingRequestIs DEF Public!Fresh, KeptRankings, Public!CompetitionAssumption
  <2>2. cache.at > moved
    BY <1>1, <2>1
  <2> QED BY <2>2, RankingRequestIs DEF RankingAnswer
<1>2. ASSUME NEW a \in {cache} \cup {asking[t] : t \in {u \in Threads : Public!At(u, "keeps")}} PROVE RankingAnswer(a)
  BY <1>2, RankingRequestIs DEF CompetitionInv
<1> QED BY <1>1, <1>2 DEF Public!RankingsAreWhole, RankingAnswer, WholeRanking

\* In the service, a ranking that did not change while its pages were fetched is given
\* whole, and one that changed leaves out nobody who was in it before, whichever requests
\* overlap (get_public_competition, fetch_public_group_competition).
THEOREM RankingsStayWhole == ServiceSpec => []RankingsAreWhole
<1>1. ServiceInit => CompetitionInv
  BY CompetitionBegins, ServiceAssumption DEF ServiceInit
<1>2. CompetitionInv /\ [ServiceNext]_serviceVars => CompetitionInv'
  <2> SUFFICES ASSUME CompetitionInv, [ServiceNext]_serviceVars PROVE CompetitionInv'
    OBVIOUS
  <2>1. CASE Competition
    BY <2>1, CompetitionKeeps, ServiceAssumption DEF Competition
  <2>2. CASE Sessions \/ Settings \/ Archives \/ Scoring \/ UNCHANGED serviceVars
    <3>1. UNCHANGED competition
      BY <2>2 DEF Sessions, Settings, Archives, Scoring, serviceVars
    <3>2. UNCHANGED Public!vars
      BY <3>1 DEF competition, Public!vars, Public!site
    <3> QED BY <3>2, CompetitionKeeps, ServiceAssumption
  <2> QED BY <2>1, <2>2 DEF ServiceNext
<1>3. CompetitionInv => RankingsAreWhole
  BY CompetitionSafe, ServiceAssumption DEF RankingsAreWhole
<1> QED BY <1>1, <1>2, <1>3, PTL DEF ServiceSpec
=============================================================================
