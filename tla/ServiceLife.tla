------------------------------ MODULE ServiceLife ------------------------------
(***************************************************************************)
(* What the SCM may rely on of the states service/WindowsService.cpp       *)
(* reports, without threads, locks or queues: a service that has begun to  *)
(* end is never active again, and "once SERVICE_STOPPED is reported the    *)
(* process may be torn down at any moment: everything is released before". *)
(***************************************************************************)
VARIABLES
  life,    \* "starting", "serving", "ending" or "over"
  status,  \* the state the SCM was last told
  up       \* there is an engine

service == <<life, status, up>>

Live == {"running", "paused"}
Waiting == {"startPending", "pausePending", "continuePending", "stopPending"}

LifeInit == life = "starting" /\ status = "startPending" /\ ~up

Starts == life = "starting" /\ life' = "serving" /\ up' /\ UNCHANGED status
Fails == life = "starting" /\ life' = "ending" /\ up' \in BOOLEAN /\ UNCHANGED status

(* Listeners and the handler, in any order.                                *)
Tells == life = "serving" /\ status' \in Live \cup Waiting /\ UNCHANGED <<life, up>>

Ends == life = "serving" /\ life' = "ending" /\ status' \in Waiting /\ UNCHANGED up

(* A control that was accepted before.                                     *)
TellsLate == life = "ending" /\ status' \in Waiting /\ UNCHANGED <<life, up>>

Releases == life = "ending" /\ up /\ ~up' /\ UNCHANGED <<life, status>>
Stops == life = "ending" /\ ~up /\ life' = "over" /\ status' = "stopped" /\ UNCHANGED up

LifeNext == Starts \/ Fails \/ Tells \/ Ends \/ TellsLate \/ Releases \/ Stops

LifeSpec == LifeInit /\ [][LifeNext]_service
=============================================================================
