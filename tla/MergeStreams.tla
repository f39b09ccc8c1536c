---------------------------- MODULE MergeStreams ----------------------------
(***************************************************************************)
(* mergeStreams of Util/Stream.hs: one pump per input writes into a        *)
(* bounded queue, and one reader hands the events on.  The program merges  *)
(* the chat drivers with it, and the drivers with the scheduler; whoever   *)
(* consumes the merged stream runs the handlers of each message before it  *)
(* asks for the next.                                                      *)
(*                                                                         *)
(* An item is its number within its input.  A thread that is cancelled     *)
(* first stops (it runs its handlers) and then is over; nobody cancels a   *)
(* thread twice (ConcurrencyManager).                                      *)
(***************************************************************************)
EXTENDS Naturals, Sequences, FiniteSets

CONSTANTS Inputs,    \* how many streams are merged
          Items,     \* bound: items an input yields at most
          Capacity   \* streamQueueCapacity

ASSUME MergeAssumption == /\ Inputs \in Nat \ {0}
                          /\ Items \in Nat
                          /\ Capacity \in Nat \ {0}

Pumps == 1..Inputs
None == [pump |-> 0, kind |-> "none", n |-> 0]
Item(p, k) == [pump |-> p, kind |-> "item", n |-> k]
MergeDone(p) == [pump |-> p, kind |-> "done", n |-> 0]
MergeFailed(p) == [pump |-> p, kind |-> "failed", n |-> 0]
Events == [pump : Pumps, kind : {"item", "done", "failed"}, n : 0..Items]

VARIABLES
  pump,       \* what became of the thread of each input
  offered,    \* the event each pump is writing
  sent,       \* items each input has yielded
  queue,
  reader,     \* where the reader is
  result,     \* how the merged stream came to its end
  remaining, failures,   \* MergeState
  got,        \* the last item of each input that was handed on
  cleaned     \* pumps that cleanupPumps is through with

pumps == <<pump, offered, sent>>
vars == <<pump, offered, sent, queue, reader, result, remaining, failures, got, cleaned>>

TypeOK ==
  /\ pump \in [Pumps -> {"none", "running", "ended", "failed", "stopping", "cancelled"}]
  /\ offered \in [Pumps -> Events \cup {None}]
  /\ sent \in [Pumps -> 0..Items]
  /\ queue \in Seq(Events) /\ Len(queue) <= Capacity
  /\ reader \in {"forking", "reading", "yielding", "cleaning", "returned", "gone"}
  /\ result \in {"none", "ended", "threw", "killed"}
  /\ remaining \in 0..Inputs /\ failures \in 0..Inputs
  /\ got \in [Pumps -> 0..Items]
  /\ cleaned \in 0..Inputs

Init ==
  /\ pump = [p \in Pumps |-> "none"]
  /\ offered = [p \in Pumps |-> None]
  /\ sent = [p \in Pumps |-> 0]
  /\ queue = <<>>
  /\ reader = "forking" /\ result = "none"
  /\ remaining = Inputs /\ failures = 0
  /\ got = [p \in Pumps |-> 0]
  /\ cleaned = 0

-----------------------------------------------------------------------------
(* The pumps *)

Fork(p) ==
  /\ reader = "forking" /\ pump[p] = "none"
  /\ \A q \in 1..(p - 1) : pump[q] # "none"
  /\ pump' = [pump EXCEPT ![p] = "running"]
  /\ reader' = IF p = Inputs THEN "reading" ELSE reader
  /\ UNCHANGED <<offered, sent, queue, result, remaining, failures, got, cleaned>>

Idle(p) == pump[p] = "running" /\ offered[p] = None

(* The input yields an item ... *)
Yield(p) ==
  /\ Idle(p) /\ sent[p] < Items
  /\ sent' = [sent EXCEPT ![p] = @ + 1]
  /\ offered' = [offered EXCEPT ![p] = Item(p, sent[p] + 1)]
  /\ UNCHANGED <<pump, queue, reader, result, remaining, failures, got, cleaned>>

(* ... or it ends, or throws. *)
End(p) ==
  /\ Idle(p)
  /\ \E e \in {MergeDone(p), MergeFailed(p)} : offered' = [offered EXCEPT ![p] = e]
  /\ UNCHANGED <<pump, sent, queue, reader, result, remaining, failures, got, cleaned>>

(* An end that was written is the last thing a pump does. *)
AfterWrite(e) == CASE e.kind = "done" -> "ended" [] e.kind = "failed" -> "failed" [] OTHER -> "running"

HasRoom == Len(queue) < Capacity

\* Mutant: the event is written at the head.
MutWritten(p) == <<offered[p]>> \o queue
Written(p) == Append(queue, offered[p])

Write(p) ==
  /\ pump[p] = "running" /\ offered[p] # None /\ HasRoom
  /\ queue' = Written(p)
  /\ offered' = [offered EXCEPT ![p] = None]
  /\ pump' = [pump EXCEPT ![p] = AfterWrite(offered[p])]
  /\ UNCHANGED <<sent, reader, result, remaining, failures, got, cleaned>>

(* Async.cancel: an event that is being written is lost, and no end is written. *)
Cancel(p) ==
  /\ pump[p] = "running"
  /\ pump' = [pump EXCEPT ![p] = "stopping"]
  /\ offered' = [offered EXCEPT ![p] = None]

(* The RPC method concurrency.cancel reaches any thread. *)
CancelOutside(p) ==
  /\ Cancel(p)
  /\ UNCHANGED <<sent, queue, reader, result, remaining, failures, got, cleaned>>

Stop(p) ==
  /\ pump[p] = "stopping"
  /\ pump' = [pump EXCEPT ![p] = "cancelled"]
  /\ UNCHANGED <<offered, sent, queue, reader, result, remaining, failures, got, cleaned>>

-----------------------------------------------------------------------------
(* The reader *)

ReadItem ==
  /\ reader = "reading" /\ remaining > 0 /\ queue # <<>> /\ Head(queue).kind = "item"
  /\ queue' = Tail(queue)
  /\ got' = [got EXCEPT ![Head(queue).pump] = Head(queue).n]
  /\ reader' = "yielding"
  /\ UNCHANGED <<pumps, result, remaining, failures, cleaned>>

\* Mutant: a failed input is not counted as ended.
MutStillOpen(e) == IF e.kind = "failed" THEN remaining ELSE remaining - 1
StillOpen(e) == remaining - 1
Failed(e) == IF e.kind = "failed" THEN failures + 1 ELSE failures

ReadEnd ==
  /\ reader = "reading" /\ remaining > 0 /\ queue # <<>> /\ Head(queue).kind # "item"
  /\ queue' = Tail(queue)
  /\ remaining' = StillOpen(Head(queue))
  /\ failures' = Failed(Head(queue))
  /\ UNCHANGED <<pumps, reader, result, got, cleaned>>

\* Mutant: one failure is enough to throw.
MutOutcome == IF failures > 0 THEN "threw" ELSE "ended"
Outcome == IF failures = Inputs THEN "threw" ELSE "ended"

(* The last failure is thrown on only when every input has failed. *)
FinishMerged ==
  /\ reader = "reading" /\ remaining = 0
  /\ result' = Outcome
  /\ reader' = "cleaning"
  /\ UNCHANGED <<pumps, queue, remaining, failures, got, cleaned>>

(* The consumer has dealt with the item and asks for the next. *)
Resume ==
  /\ reader = "yielding"
  /\ reader' = "reading"
  /\ UNCHANGED <<pumps, queue, result, remaining, failures, got, cleaned>>

(* The thread of the reader is cancelled while it waits for an event. *)
Kill ==
  /\ reader = "reading"
  /\ result' = "killed" /\ reader' = "cleaning"
  /\ UNCHANGED <<pumps, queue, remaining, failures, got, cleaned>>

(* streamFinally sees only what happens inside the stream: nobody cleans   *)
(* up when the thread is cancelled, or a handler throws, while the         *)
(* consumer has the item, while the pumps are being forked, or for the     *)
(* first time while it cleans up.                                          *)
Abandon ==
  /\ \/ reader \in {"forking", "yielding"}
     \/ reader = "cleaning" /\ result # "killed"
  /\ reader' = "gone"
  /\ UNCHANGED <<pumps, queue, result, remaining, failures, got, cleaned>>

Over(p) == pump[p] \in {"ended", "failed", "cancelled"}

(* cancelAndAwaitPump, one pump after the other: cancel has no effect on a *)
(* thread that is over or already stopping, and await waits for both.      *)
CleanCancel(p) ==
  /\ reader = "cleaning" /\ cleaned = p - 1
  /\ Cancel(p)
  /\ UNCHANGED <<sent, queue, reader, result, remaining, failures, got, cleaned>>

\* Mutant: a pump that is unwinding is not awaited.
MutAwaited(p) == pump[p] # "running"
Awaited(p) == Over(p)

CleanAwait(p) ==
  /\ reader = "cleaning" /\ cleaned = p - 1 /\ Awaited(p)
  /\ cleaned' = p
  /\ reader' = IF p = Inputs THEN "returned" ELSE reader
  /\ UNCHANGED <<pumps, queue, result, remaining, failures, got>>

Next ==
  \/ \E p \in Pumps : \/ Fork(p) \/ Yield(p) \/ End(p) \/ Write(p)
                      \/ CancelOutside(p) \/ Stop(p) \/ CleanCancel(p) \/ CleanAwait(p)
  \/ ReadItem \/ ReadEnd \/ FinishMerged \/ Resume \/ Kill \/ Abandon

Spec == Init /\ [][Next]_vars

(* Threads that can run do; the consumer returns from its handlers.  That  *)
(* an input yields or ends is not assumed.                                 *)
FairSpec ==
  /\ Spec
  /\ \A p \in Pumps : WF_vars(Fork(p)) /\ WF_vars(Write(p)) /\ WF_vars(Stop(p))
                      /\ WF_vars(CleanCancel(p)) /\ WF_vars(CleanAwait(p))
  /\ WF_vars(ReadItem) /\ WF_vars(ReadEnd) /\ WF_vars(FinishMerged) /\ WF_vars(Resume)

-----------------------------------------------------------------------------
(* Properties *)

Waiting(p) == {i \in DOMAIN queue : queue[i].kind = "item" /\ queue[i].pump = p}

(* Nothing an input has yielded is lost, doubled or put out of order on    *)
(* its way: what is queued and what is being written follows on what was   *)
(* handed on, and makes up what was yielded unless the pump was cancelled. *)
NothingIsLost ==
  \A p \in Pumps :
    LET held == IF offered[p].kind = "item" THEN 1 ELSE 0
        last == got[p] + Cardinality(Waiting(p))
    IN /\ \A i \in Waiting(p) : queue[i].n = got[p] + Cardinality({j \in Waiting(p) : j <= i})
       /\ held = 1 => offered[p].n = last + 1
       /\ pump[p] \in {"running", "ended", "failed"} => sent[p] = last + held

(* The merged stream ends by itself only when every input has, with all    *)
(* their items handed on, and throws exactly when all of them threw        *)
(* (readMerged, finishMerged; the tests of StreamSpec.hs).                 *)
EndsAfterAllInputs ==
  result \in {"ended", "threw"} =>
    /\ \A p \in Pumps : pump[p] \in {"ended", "failed"} /\ got[p] = sent[p]
    /\ result = "threw" <=> \A p \in Pumps : pump[p] = "failed"

(* Both, with the types of the variables, the bound of the queue among     *)
(* them.                                                                   *)
ItemsStayInOrder == TypeOK /\ NothingIsLost /\ EndsAfterAllInputs

(* When the merged stream has returned or thrown, no thread of it runs,    *)
(* whoever else cancels pumps meanwhile (cleanupPumps).                    *)
NoPumpOutlivesTheReader == reader = "returned" => \A p \in Pumps : Over(p)

(* Every item reaches the consumer, however full the queue is, unless      *)
(* somebody cancels the pump or the reader; and when all inputs have come  *)
(* to an end by themselves, so does the merged stream.                     *)
Live == reader \in {"forking", "reading", "yielding"}
Delivers ==
  /\ \A p \in Pumps, k \in 1..Items :
       (pump[p] = "running" /\ sent[p] = k) ~> (got[p] >= k \/ pump[p] \in {"stopping", "cancelled"} \/ ~Live)
  /\ (\A p \in Pumps : pump[p] \in {"ended", "failed"}) ~> (reader \in {"returned", "gone"})
=============================================================================
