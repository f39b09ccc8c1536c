--------------------------- MODULE DelayedMessages ---------------------------
(***************************************************************************)
(* What the scheduler promises: a message asked for now comes back into    *)
(* the incoming stream once, no earlier than its due time and in the order *)
(* of due times, unless its owner deletes it first or the process dies     *)
(* while the message is being handed over.                                 *)
(***************************************************************************)
EXTENDS Integers

CONSTANT Ids

VARIABLES
  phase,  \* none, scheduled, delivered, deleted or lost
  dueAt,  \* when a scheduled message may come back
  time

Init ==
  /\ phase = [i \in Ids |-> "none"]
  /\ dueAt = [i \in Ids |-> 0]
  /\ time \in Int

\* Ids are given out in order.
Schedule(i) ==
  /\ phase[i] = "none"
  /\ \A j \in Ids : phase[j] = "none" => i <= j
  /\ phase' = [phase EXCEPT ![i] = "scheduled"]
  /\ dueAt' \in [Ids -> Int]
  /\ \A j \in Ids \ {i} : dueAt'[j] = dueAt[j]
  /\ UNCHANGED time

\* No message scheduled before this one and due no later is still waiting.
Deliver(i) ==
  /\ phase[i] = "scheduled"
  /\ dueAt[i] <= time
  /\ \A j \in Ids : phase[j] = "scheduled" /\ j < i => dueAt[j] > dueAt[i]
  /\ phase' = [phase EXCEPT ![i] = "delivered"]
  /\ UNCHANGED <<dueAt, time>>

Delete(i) ==
  /\ phase[i] = "scheduled"
  /\ phase' = [phase EXCEPT ![i] = "deleted"]
  /\ UNCHANGED <<dueAt, time>>

Lose(i) ==
  /\ phase[i] = "scheduled"
  /\ dueAt[i] <= time
  /\ phase' = [phase EXCEPT ![i] = "lost"]
  /\ UNCHANGED <<dueAt, time>>

Pass == time' > time /\ UNCHANGED <<phase, dueAt>>

Next ==
  \/ \E i \in Ids : Schedule(i) \/ Deliver(i) \/ Delete(i) \/ Lose(i)
  \/ Pass

Spec == Init /\ [][Next]_<<phase, dueAt, time>>
=============================================================================
