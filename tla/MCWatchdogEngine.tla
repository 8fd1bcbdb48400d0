--------------------------- MODULE MCWatchdogEngine ---------------------------
(* A small instance of WatchdogEngine for TLC.                             *)
EXTENDS WatchdogEngine
=============================================================================
