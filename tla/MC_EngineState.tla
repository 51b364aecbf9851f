--------------------------- MODULE MC_EngineState ---------------------------
(* EngineState with two threads, one of them the main thread, and the       *)
(* commands whose body may raise CalculationCancelledError: all, or none.   *)
EXTENDS EngineState

AllCommands == Command
NoCommands  == {}
=============================================================================
