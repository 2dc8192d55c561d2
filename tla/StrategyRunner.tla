--------------------------- MODULE StrategyRunner ----------------------------
(***************************************************************************)
(* position_manager/app/strategy/strategy_runner.py: the main thread.  It  *)
(* replays the events of its log, terminates the manager, waits for the    *)
(* manager's thread and ends.  What is in the log is not fixed: a Target   *)
(* event sends a target, a Wait event only lets the others run, an unknown *)
(* one is skipped; StateSnapshot has LogPosition.  Nobody else sets        *)
(* terminate_flag, so the replay is never cut short by it.                 *)
(***************************************************************************)
EXTENDS PositionManager

VARIABLE runner   \* what the main thread is doing: "replay", "join" or "exit"

RunnerInit == runner = "replay"

\* The threads of the process are daemons: they end with the main thread.
Running == runner # "exit"

\* replay_events_log, one Target event.
ReplayTarget ==
  /\ runner = "replay"
  /\ \E symbol \in Symbols, target \in Targets : UpdateTargetPosition(symbol, target)
  /\ UNCHANGED runner

FinishReplay ==
  /\ runner = "replay"
  /\ Terminate
  /\ runner' = "join"

\* join(timeout=10) returns, with the manager's thread at its end or not, the
\* last summary is logged and the process ends.
Exit ==
  /\ runner = "join"
  /\ runner' = "exit"
  /\ UNCHANGED pmVars

Runner == ReplayTarget \/ FinishReplay \/ Exit
=============================================================================
