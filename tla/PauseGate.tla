------------------------------- MODULE PauseGate -------------------------------
(***************************************************************************)
(* What core/WatchdogEngine.h promises of pause(), resume() and stop(),    *)
(* without threads or locks: a pass changes a device only while RUNNING,   *)
(* and the engine becomes PAUSED or STOPPED only when no change is in      *)
(* flight.                                                                 *)
(***************************************************************************)
VARIABLES
  mode,   \* the engine's state
  busy    \* a pass is changing a device

gate == <<mode, busy>>

GateInit == mode = "running" /\ busy = FALSE

BeginChange == mode = "running" /\ ~busy /\ busy' = TRUE /\ UNCHANGED mode
EndChange == busy /\ busy' = FALSE /\ UNCHANGED mode
Pause == mode = "running" /\ ~busy /\ mode' = "paused" /\ UNCHANGED busy
Resume == mode = "paused" /\ ~busy /\ mode' = "running" /\ UNCHANGED busy
StopRequested == mode \in {"running", "paused"} /\ mode' = "stopping" /\ UNCHANGED busy
Stopped == mode = "stopping" /\ ~busy /\ mode' = "stopped" /\ UNCHANGED busy

GateNext == BeginChange \/ EndChange \/ Pause \/ Resume \/ StopRequested \/ Stopped

GateSpec == GateInit /\ [][GateNext]_gate
=============================================================================
