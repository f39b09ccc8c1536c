----------------------------- MODULE PythonWorker -----------------------------
(***************************************************************************)
(* One run of src/cosmobot/python/cosmobot_worker.py: the host sends a     *)
(* program, the supervisor forks a child that executes it, relays the      *)
(* tool batches the program asks for, captures what it prints and answers  *)
(* with one result.  Bytes, characters and frames keep only what the       *)
(* limits depend on: "w" is a character of two bytes, "z" one that JSON    *)
(* escapes, "m" the truncation marker.  The program itself is arbitrary:   *)
(* it prints, asks, ends in any of the ways the module it imports offers,  *)
(* may be killed by a resource limit, and may leave a process behind.      *)
(***************************************************************************)
EXTENDS Integers, Sequences, SequencesExt, FiniteSetsExt

CONSTANTS
  Chars,      \* the characters the program prints
  Limit,      \* MAX_STDOUT_BYTES
  Budget,     \* bytes a JSON string may take in a frame of MAX_RPC_BYTES
  MaxPrints,  \* bound: characters printed, by the program and what it leaves behind
  MaxBatches  \* bound: tool batches asked for

ASSUME WorkerAssumption ==
  Limit \in Nat \ {0} /\ Budget \in Nat \ {0} /\ MaxPrints \in Nat /\ MaxBatches \in Nat

VARIABLES
  child,      \* the forked program: code, waiting, leaving, dead
  status,     \* what waitpid will say of it; 0 is a clean exit
  twin,       \* none, pipes (a subprocess), fork (a copy of the program), asking, gone
  buffer,     \* characters printed into sys.stdout and not flushed
  pipe,       \* bytes in the stdout and stderr pipes
  up, down,   \* frames on the private channel, to the supervisor and back
  sup,        \* the supervisor: loop, host (awaiting tools.run), done, raised
  registered, \* descriptors in the selector
  captured,   \* the Capture of stdout
  errors,     \* bytes captured of stderr
  terminal,   \* the terminal frame received, or "none"
  nextId,     \* id of the next tools.run
  requests, answers,   \* frames written to and read from the host
  stdin,      \* the host still holds our standard input open
  result,     \* what the host is told
  asked, got, written, \* history: batches asked for, answers taken, bytes printed
  crossed     \* history: a copy of the program has asked on the same channel

procVars == <<child, status, twin, buffer, asked, got, crossed>>
supVars == <<sup, registered, captured, errors, terminal, nextId, result>>
hostVars == <<requests, answers, stdin>>
vars == <<procVars, supVars, hostVars, pipe, up, down, written>>

Terminal == {"completed", "failed", "fallthrough"}
Marker == <<"m">>
(* The characters up to the i-th take so many bytes.                       *)
Bytes(text, i) == i + Cardinality({j \in 1..i : text[j] = "w"})
Encode(text) ==
  LET Of(b) == CHOOSE i \in 1..Len(text) : Bytes(text, i - 1) < b /\ b <= Bytes(text, i)
  IN [b \in 1..Bytes(text, Len(text)) |->
        IF text[Of(b)] # "w" THEN text[Of(b)]
        ELSE IF b = Bytes(text, Of(b)) THEN "C" ELSE "L"]
(* bytes.decode(errors="ignore"): half a character is dropped.             *)
Starts(bytes) == {i \in 1..Len(bytes) :
  bytes[i] \notin {"L", "C"} \/ (bytes[i] = "L" /\ i < Len(bytes) /\ bytes[i + 1] = "C")}
Decode(bytes) ==
  LET Start(k) == CHOOSE i \in Starts(bytes) : Cardinality(Starts(bytes) \cap 1..i) = k
  IN [k \in 1..Cardinality(Starts(bytes)) |->
        IF bytes[Start(k)] = "L" THEN "w" ELSE bytes[Start(k)]]

Capture == [data |-> <<>>, truncated |-> FALSE]
CaptureAppend(cap, chunk) ==
  IF cap.truncated THEN cap
  ELSE IF Len(cap.data) + Len(chunk) <= Limit THEN [cap EXCEPT !.data = @ \o chunk]
  ELSE [data |-> Encode(Decode(SubSeq(cap.data \o chunk, 1, Limit - Len(Marker)))) \o Marker,
        truncated |-> TRUE]

(* What is said of a program that printed nothing.                         *)
Said(text) == IF text = <<>> THEN <<"d">> ELSE text

JsonBytes(text) == Len(text) + Cardinality({i \in 1..Len(text) : text[i] \in {"w", "z"}})
FitFrame(text) ==
  IF JsonBytes(text) <= Budget THEN text
  ELSE SubSeq(text, 1, Max({0} \cup {n \in 1..Len(text) :
                  JsonBytes(SubSeq(text, 1, n)) + JsonBytes(Marker) <= Budget})) \o Marker

Init ==
  /\ child = "code" /\ status = 0 /\ twin = "none" /\ buffer = <<>>
  /\ pipe = [p \in {"stdout", "stderr"} |-> <<>>] /\ up = <<>> /\ down = <<>>
  /\ sup = "loop" /\ registered = {"control", "stdout", "stderr"}
  /\ captured = Capture /\ errors = <<>> /\ terminal = "none" /\ nextId = 1
  /\ requests = <<>> /\ answers = <<>> /\ stdin = TRUE /\ result = [kind |-> "none"]
  /\ asked = 0 /\ got = <<>> /\ written = <<>> /\ crossed = FALSE

Open(p) == child # "dead" \/ twin \in {"fork", "asking"} \/ (p # "control" /\ twin = "pipes")
Printed == Len(Decode(written)) + Len(buffer)
Put(text) == /\ pipe' = [pipe EXCEPT !["stdout"] = @ \o Encode(text)]
             /\ written' = written \o Encode(text)
-----------------------------------------------------------------------------
(* The program.  print() fills sys.stdout's buffer; os.write and a full    *)
(* buffer reach the pipe.                                                  *)
Prints ==
  /\ child = "code" /\ Printed < MaxPrints
  /\ \E c \in Chars : buffer' = Append(buffer, c)
  /\ UNCHANGED <<child, status, twin, asked, got, crossed, supVars, hostVars, pipe, up, down, written>>

Flush ==
  /\ child = "code" /\ buffer # <<>> /\ Put(buffer) /\ buffer' = <<>>
  /\ UNCHANGED <<child, status, twin, asked, got, crossed, supVars, hostVars, up, down>>

(* run_tools: one frame up, then the answer is awaited.  A batch that      *)
(* validate_calls refuses is never sent.                                   *)
RunTools ==
  /\ child = "code" /\ asked < MaxBatches
  /\ asked' = asked + 1 /\ up' = Append(up, [kind |-> "tools", batch |-> asked + 1])
  /\ child' = "waiting"
  /\ UNCHANGED <<status, twin, buffer, got, crossed, supVars, hostVars, pipe, down, written>>

TakeResults ==
  /\ child = "waiting" /\ down # <<>>
  /\ got' = Append(got, Head(down)) /\ down' = Tail(down) /\ child' = "code"
  /\ UNCHANGED <<status, twin, buffer, asked, crossed, supVars, hostVars, pipe, up, written>>

(* complete() and fail() unwind to a terminal frame; what is still in the  *)
(* buffer is never written.                                                *)
Conclude(kind) ==
  /\ child = "code" /\ up' = Append(up, [kind |-> kind]) /\ child' = "leaving"
  /\ UNCHANGED <<status, twin, buffer, asked, got, crossed, supVars, hostVars, pipe, down, written>>

\* Mutant: the streams are not flushed before the event.
MutFallThrough ==
  /\ child = "code" /\ up' = Append(up, [kind |-> "fallthrough"]) /\ child' = "leaving"
  /\ UNCHANGED <<status, twin, buffer, asked, got, crossed, supVars, hostVars, pipe, down, written>>
FallThrough ==
  /\ child = "code" /\ Put(buffer) /\ buffer' = <<>>
  /\ up' = Append(up, [kind |-> "fallthrough"]) /\ child' = "leaving"
  /\ UNCHANGED <<status, twin, asked, got, crossed, supVars, hostVars, down>>

(* An exception, SystemExit included, prints its traceback.                *)
Raises ==
  /\ child = "code" /\ child' = "leaving" /\ status' = 1
  /\ pipe' = [pipe EXCEPT !["stderr"] = Append(@, "a")]
  /\ UNCHANGED <<twin, buffer, asked, got, crossed, supVars, hostVars, up, down, written>>

Exit == /\ child = "leaving" /\ child' = "dead"
        /\ UNCHANGED <<status, twin, buffer, asked, got, crossed, supVars, hostVars, pipe, up, down, written>>

(* The memory or CPU limit of the sandbox, at any point.                   *)
Killed == /\ child # "dead" /\ child' = "dead" /\ status' = 9
          /\ UNCHANGED <<twin, buffer, asked, got, crossed, supVars, hostVars, pipe, up, down, written>>

(* A subprocess inherits stdout and stderr only; os.fork() copies the      *)
(* channel too, and the copy runs the rest of the program.                 *)
LeaveBehind ==
  /\ child = "code" /\ twin = "none" /\ twin' \in {"pipes", "fork"}
  /\ UNCHANGED <<child, status, buffer, asked, got, crossed, supVars, hostVars, pipe, up, down, written>>
TwinPrints ==
  /\ twin \in {"pipes", "fork"} /\ Printed < MaxPrints /\ \E c \in Chars : Put(<<c>>)
  /\ UNCHANGED <<procVars, supVars, hostVars, up, down>>
TwinAsks ==
  /\ twin = "fork" /\ asked < MaxBatches /\ twin' = "asking" /\ crossed' = TRUE
  /\ asked' = asked + 1 /\ up' = Append(up, [kind |-> "tools", batch |-> asked + 1])
  /\ UNCHANGED <<child, status, buffer, got, supVars, hostVars, pipe, down, written>>
TwinTakes ==
  /\ twin = "asking" /\ down # <<>> /\ down' = Tail(down) /\ twin' = "fork"
  /\ UNCHANGED <<child, status, buffer, asked, got, crossed, supVars, hostVars, pipe, up, written>>
TwinEnds ==
  /\ twin \in {"pipes", "fork", "asking"} /\ twin' = "gone"
  /\ \/ UNCHANGED up
     \/ twin = "fork" /\ \E kind \in Terminal : up' = Append(up, [kind |-> kind])
  /\ UNCHANGED <<child, status, buffer, asked, got, crossed, supVars, hostVars, pipe, down, written>>

Program == \/ Prints \/ Flush \/ RunTools \/ TakeResults \/ FallThrough \/ Raises \/ Exit
           \/ Killed \/ LeaveBehind \/ TwinPrints \/ TwinAsks \/ TwinTakes \/ TwinEnds
           \/ \E kind \in Terminal \ {"fallthrough"} : Conclude(kind)
-----------------------------------------------------------------------------
(* run_child's handler: kill, reap, and let the error end the worker.      *)
\* Mutant: the child is not killed.
MutRaiseError == /\ sup' = "raised" /\ UNCHANGED <<child, status>>
RaiseError ==
  /\ sup' = "raised" /\ child' = "dead" /\ status' = IF child = "dead" THEN status ELSE 9

(* consume_event on the channel.                                           *)
ControlEnds ==
  /\ sup = "loop" /\ "control" \in registered /\ up = <<>> /\ ~Open("control")
  /\ registered' = registered \ {"control"}
  /\ UNCHANGED <<procVars, sup, captured, errors, terminal, nextId, result, hostVars, pipe, up, down, written>>

ControlTools ==
  /\ sup = "loop" /\ "control" \in registered /\ up # <<>> /\ Head(up).kind = "tools"
  /\ terminal = "none" /\ up' = Tail(up)
  /\ requests' = Append(requests, [id |-> nextId, batch |-> Head(up).batch]) /\ sup' = "host"
  /\ UNCHANGED <<procVars, registered, captured, errors, terminal, nextId, result, answers, stdin, pipe, down, written>>

ControlTerminal ==
  /\ sup = "loop" /\ "control" \in registered /\ up # <<>> /\ Head(up).kind # "tools"
  /\ terminal = "none" /\ terminal' = Head(up).kind /\ up' = Tail(up)
  /\ UNCHANGED <<procVars, sup, registered, captured, errors, nextId, result, hostVars, pipe, down, written>>

ControlInvalid ==
  /\ sup = "loop" /\ "control" \in registered /\ up # <<>> /\ terminal # "none"
  /\ up' = Tail(up) /\ RaiseError
  /\ UNCHANGED <<twin, buffer, asked, got, crossed, registered, captured, errors, terminal, nextId, result, hostVars, pipe, down, written>>

(* The answer is read in place: nothing else is served meanwhile.  An      *)
(* error of the host is handed to the program as a failure.                *)
\* Mutant: the number of the answer is not compared, nor counted on.
MutHostResponse ==
  /\ sup = "host" /\ answers # <<>> /\ answers' = Tail(answers)
  /\ down' = Append(down, Head(answers)) /\ sup' = "loop"
  /\ UNCHANGED <<procVars, registered, captured, errors, terminal, nextId, result, requests, stdin,
                 pipe, up, written>>
HostResponse ==
  /\ sup = "host" /\ answers # <<>> /\ answers' = Tail(answers)
  /\ IF Open("control") /\ Head(answers).id = nextId
     THEN /\ down' = Append(down, Head(answers)) /\ nextId' = nextId + 1 /\ sup' = "loop"
          /\ UNCHANGED <<child, status>>
     ELSE RaiseError /\ UNCHANGED <<down, nextId>>
  /\ UNCHANGED <<twin, buffer, asked, got, crossed, registered, captured, errors, terminal, result, requests, stdin, pipe, up, written>>
HostGone ==
  /\ sup = "host" /\ answers = <<>> /\ ~stdin /\ RaiseError
  /\ UNCHANGED <<twin, buffer, asked, got, crossed, registered, captured, errors, terminal, nextId, result, hostVars, pipe, up, down, written>>

(* consume_event on an output pipe: a chunk of any size, then end of file. *)
ReadChunk(p) ==
  /\ sup = "loop" /\ p \in registered /\ pipe[p] # <<>>
  /\ \E n \in 1..Len(pipe[p]) :
       LET chunk == SubSeq(pipe[p], 1, n)
       IN /\ pipe' = [pipe EXCEPT ![p] = SubSeq(@, n + 1, Len(@))]
          /\ captured' = IF p = "stdout" THEN CaptureAppend(captured, chunk) ELSE captured
          /\ errors' = IF p = "stderr" THEN errors \o chunk ELSE errors
  /\ UNCHANGED <<procVars, sup, registered, terminal, nextId, result, hostVars, up, down, written>>
\* Mutant: a pipe is given up only after a final event.
MutPipeEnds(p) ==
  /\ sup = "loop" /\ p \in registered /\ pipe[p] = <<>> /\ ~Open(p)
  /\ terminal # "none" /\ registered' = registered \ {p}
  /\ UNCHANGED <<procVars, sup, captured, errors, terminal, nextId, result, hostVars, pipe, up, down, written>>
PipeEnds(p) ==
  /\ sup = "loop" /\ p \in registered /\ pipe[p] = <<>> /\ ~Open(p)
  /\ registered' = registered \ {p}
  /\ UNCHANGED <<procVars, sup, captured, errors, terminal, nextId, result, hostVars, pipe, up, down, written>>

(* Every descriptor is at its end: waitpid, and what serve_once answers.   *)
\* Mutant: how the child ended is not looked at.
MutOutcome ==
  IF terminal = "fallthrough"
  THEN [kind |-> "completed", content |-> FitFrame(Said(Decode(captured.data)))]
  ELSE [kind |-> terminal]
Outcome ==
  IF terminal = "none" \/ status # 0 THEN [kind |-> "exit 1", stderr |-> errors]
  ELSE IF terminal = "fallthrough"
       THEN [kind |-> "completed", content |-> FitFrame(Said(Decode(captured.data)))]
       ELSE [kind |-> terminal]
Reap ==
  /\ sup = "loop" /\ registered = {} /\ child = "dead"
  /\ result' = Outcome /\ sup' = "done"
  /\ UNCHANGED <<procVars, registered, captured, errors, terminal, nextId, hostVars, pipe, up, down, written>>

Supervisor == \/ ControlEnds \/ ControlTools \/ ControlTerminal \/ ControlInvalid
              \/ HostResponse \/ HostGone \/ Reap
              \/ \E p \in {"stdout", "stderr"} : ReadChunk(p) \/ PipeEnds(p)
-----------------------------------------------------------------------------
(* The host, external: it answers the request it has read, or goes away.   *)
Answer ==
  /\ stdin /\ sup = "host" /\ answers = <<>>
  /\ answers' = <<Last(requests)>> /\ UNCHANGED <<procVars, supVars, requests, stdin, pipe, up, down, written>>
HostCloses ==
  /\ stdin /\ stdin' = FALSE
  /\ UNCHANGED <<procVars, supVars, requests, answers, pipe, up, down, written>>

Next == Program \/ Supervisor \/ Answer \/ HostCloses
Spec == Init /\ [][Next]_vars /\ WF_vars(Supervisor) /\ WF_vars(Answer)
-----------------------------------------------------------------------------
TypeOK ==
  /\ child \in {"code", "waiting", "leaving", "dead"} /\ status \in {0, 1, 9}
  /\ twin \in {"none", "pipes", "fork", "asking", "gone"} /\ sup \in {"loop", "host", "done", "raised"}
  /\ registered \subseteq {"control", "stdout", "stderr"}
  /\ Len(captured.data) <= Limit /\ Len(up) + Len(down) <= 2 /\ Len(answers) <= 1
  /\ terminal \in Terminal \cup {"none"} /\ nextId \in 1..(MaxBatches + 1)

(* A completion is reported only for a program that ended cleanly, and the *)
(* output of one that ran to its end is everything it, and what it left    *)
(* behind, printed: whole when it fits the capture and the frame, else a   *)
(* prefix of whole characters closed by the marker, however the pipe cut   *)
(* it into chunks.                                                         *)
OutputArrivesWhole ==
  (sup = "done" /\ result.kind # "exit 1") =>
    /\ status = 0 /\ terminal # "none"
    /\ terminal = "fallthrough" =>
         LET text == Decode(written)
             content == result.content
         IN /\ buffer = <<>>
            /\ IF Len(written) <= Limit /\ JsonBytes(text) <= Budget THEN content = Said(text)
               ELSE /\ JsonBytes(content) <= Budget /\ Len(Encode(content)) <= Limit
                    /\ Last(content) = "m" /\ IsPrefix(Front(content), text)

(* However the worker ends, the program it forked is dead and reaped, and  *)
(* a worker that failed has told the host no result.                       *)
NothingOutlivesTheWorker ==
  /\ sup \in {"done", "raised"} => child = "dead"
  /\ sup = "raised" => result.kind = "none"

(* The host is told nothing but what has happened, and whatever ends the   *)
(* worker leaves no program of it behind.                                  *)
ResultsAreTrue == TypeOK /\ OutputArrivesWhole /\ NothingOutlivesTheWorker

(* The host is asked for the batches 1, 2, ... in the order in which they  *)
(* were asked for, and the program is handed, for each of its batches, the *)
(* answer to that batch, unless a copy of it asks on the same channel.     *)
BatchesAreServedInOrder ==
  /\ \A i \in DOMAIN requests : requests[i] = [id |-> i, batch |-> i]
  /\ ~crossed => \A i \in DOMAIN got : got[i] = requests[i]

(* Once the program and what it left behind have ended, the worker ends.   *)
WorkerEnds ==
  (child = "dead" /\ twin \in {"none", "gone"}) ~> sup \in {"done", "raised"}
=============================================================================
