------------------------------ MODULE Operation ------------------------------
(***************************************************************************)
(* The life of the process (Lifecycle) among what operates the bot: its    *)
(* constants and variables under names of their own, so that what is       *)
(* proved of it can stand beside the control center (AdminPanel), which    *)
(* runs in another process and shares nothing with it.                     *)
(***************************************************************************)
EXTENDS Naturals

CONSTANTS Restarts,   \* restarts that are asked for
          Uniques,    \* what hashUnique gives
          Signals, Failures, Starts, None

VARIABLES phase, actions, used,
          owed,       \* rows loaded and not yet run
          replied, asked, answers, exitRequest, result, waiter, inner, done,
          signals, failures, starts, first, excused

Process == INSTANCE Lifecycle WITH Requests <- Restarts, Keys <- Uniques, todo <- owed

ASSUME OperationAssumption == Process!LifecycleAssumption

ProcessSpec == Process!FairSpec
-----------------------------------------------------------------------------
\* Every restart that was asked for is answered once, and the first request decides
\* how the program ends (queueRestart, runStartupActions, runUntilExit).
RepliesAreGivenOnce == Process!RepliesAreGivenOnce

\* A request ends the program, which then is down or comes to run again.
RequestsAreHeeded == Process!RequestsAreHeeded
=============================================================================
