--------------------------- MODULE MCPluginWorker ---------------------------
(* Three calls: one whose exchange goes wrong, one that inherits what is   *)
(* left in the pipes, one more to wait its turn behind them.               *)
EXTENDS PluginWorker

CONSTANTS c1, c2, c3
=============================================================================
