-------------------------------- MODULE Consent --------------------------------
(***************************************************************************)
(* What config/Configuration.h and core/WatchdogEngine.h promise of        *)
(* disabling an incompatible device, without files, requests, statuses or  *)
(* dialogs.  "Opt-in, and never acted on before the user has confirmed it  *)
(* for the current target": the policy in force is one that somebody       *)
(* agreed to for that very target, and a pass leaves the device disabled   *)
(* exactly when the policy it found in force is for a target the driver    *)
(* does not take.                                                          *)
(***************************************************************************)
CONSTANTS Targets, Supported, NoTarget, Idle

VARIABLES
  agreed,  \* the targets for which somebody agreed to disable devices
  policy,  \* the target whose policy is in force, or NoTarget
  judged,  \* the policy the running pass found, or Idle
  paused,  \* monitoring is paused: nothing changes the device
  device   \* "on", or "off": disabled by Audioslave

consent == <<agreed, policy, judged, paused, device>>

ConsentInit == agreed = {} /\ policy = NoTarget /\ judged = Idle /\ paused = FALSE /\ device = "on"

(* Somebody may agree to a target, and the settings in force may change:   *)
(* to a policy that was agreed to, or to none.  A resume reads them again. *)
Decides ==
  /\ \E more \in SUBSET Targets : agreed' = agreed \cup more
  /\ policy' \in agreed' \cup {NoTarget}
  /\ paused' \in {paused, FALSE}
  /\ UNCHANGED <<judged, device>>

Pauses == paused' = TRUE /\ UNCHANGED <<agreed, policy, judged, device>>

Judges(p) == device' = IF p \in Targets \ Supported THEN "off" ELSE "on"

PassBegins == judged = Idle /\ ~paused /\ judged' = policy /\ UNCHANGED <<agreed, policy, paused, device>>

PassEnds ==
  /\ judged # Idle /\ judged' = Idle
  /\ IF paused THEN UNCHANGED device ELSE Judges(judged)
  /\ UNCHANGED <<agreed, policy, paused>>

(* The pass of a configure runs while no other one does, on what it saved. *)
ConfigurePass == judged = Idle /\ ~paused /\ Judges(policy) /\ UNCHANGED <<agreed, policy, judged, paused>>

ConsentNext == Decides \/ Pauses \/ PassBegins \/ PassEnds \/ ConfigurePass

ConsentSpec == ConsentInit /\ [][ConsentNext]_consent
=============================================================================
