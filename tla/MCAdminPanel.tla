---------------------------- MODULE MCAdminPanel ----------------------------
(* AdminPanel for TLC: the threads of each pool are interchangeable.       *)
EXTENDS AdminPanel, TLC

InterchangeableThreads == Permutations(Threads) \cup Permutations(Pool)

(* What is overwritten before it is read again is left out: the request of *)
(* an idle thread, what a change of the configuration remembers in another *)
(* request, and the age of a copy that is gone.                            *)
Remembered(p) ==
  IF Configures(p) \/ Compares(p) \/ (p \in Pool /\ \E t \in Threads : Compares(t)) THEN req[p]
  ELSE IF todo[p] = <<>> THEN Idle
  ELSE [Idle EXCEPT !.n = req[p].n, !.key = req[p].key, !.content = req[p].content, !.copy = req[p].copy]
Relevant ==
  <<todo, [p \in Procs |-> Remembered(p)], file, lock, config, served, shown, ideal,
    {p \in stale : req[p].copy # NoCopy}, overlapped, causes>>
=============================================================================
