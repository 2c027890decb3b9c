----------------------------- MODULE MCScheduler -----------------------------
(***************************************************************************)
(* Small instances of Scheduler: the job of every minute, which may be on  *)
(* two threads of the pool at once, and one of the daily jobs.             *)
(***************************************************************************)
EXTENDS Scheduler, TLC

CONSTANTS monitor_trades, evaluate_signals

MonitorTwice == (monitor_trades :> 2) @@ (evaluate_signals :> 1)
=============================================================================
