------------------------------- MODULE Restraint -------------------------------
(***************************************************************************)
(* What core/DeviceStateStore.h promises of how Audioslave treats one      *)
(* device, without records, files, copies, Windows or crashes: it disables *)
(* the device for a policy that asks for it, at most MaxDisables times in  *)
(* a window, and not at all once the user chose to keep it enabled, which  *)
(* stands until the settings change or a pass finds that the policy does   *)
(* not ask for it.  The count starts over with the settings, and once more *)
(* a moment later: so twice MaxDisables in a window at most for a policy.  *)
(***************************************************************************)
EXTENDS Naturals

CONSTANTS
  Policies,     \* what the settings may say
  Wanting,      \* those that ask for the device to be disabled
  None,         \* no pass is running
  MaxDisables,  \* in a window
  Window        \* in ticks of the clock

VARIABLES
  policy,  \* in force
  judged,  \* the one the running pass has read, or None
  kept,    \* the user chose to keep the device enabled
  recent,  \* the ages of the last disables under this policy, newest first, as
           \* far as they count
  renewal  \* the settings have changed and the count has yet to start over

restraint == <<policy, judged, kept, recent, renewal>>

Never == [i \in 1..(MaxDisables + 1) |-> Window]

RestraintInit == policy \in Policies /\ judged = None /\ kept = FALSE /\ recent = Never /\ renewal = FALSE

PassBegins == judged = None /\ judged' = policy /\ UNCHANGED <<policy, kept, recent, renewal>>
PassEnds == judged' = None /\ UNCHANGED <<policy, kept, recent, renewal>>

(* The last thing a pass does with the device.                             *)
Disables ==
  /\ judged \in Wanting
  /\ ~kept
  /\ recent[MaxDisables] = Window
  /\ recent' = [i \in 1..(MaxDisables + 1) |-> IF i = 1 THEN 0 ELSE recent[i - 1]]
  /\ judged' = None
  /\ UNCHANGED <<policy, kept, renewal>>

Forgets ==
  judged \in Policies \ Wanting /\ kept' = FALSE /\ judged' = None /\ UNCHANGED <<policy, recent, renewal>>

(* The user does, or a pass puts back the choice it has read.              *)
Keeps == kept' = TRUE /\ judged' \in {judged, None} /\ UNCHANGED <<policy, recent, renewal>>

(* By a command, after which the count is to start over, or by a restart,  *)
(* which ends the pass and forgets about that.                             *)
SettingsChange ==
  /\ policy' \in Policies \ {policy}
  /\ recent' = Never
  /\ \/ ~renewal /\ renewal' = TRUE /\ UNCHANGED judged
     \/ renewal' = FALSE /\ judged' = None
  /\ UNCHANGED kept

(* Once for every change: passes may have disabled the device in between.  *)
StartsOver ==
  /\ renewal
  /\ renewal' = FALSE
  /\ kept' = FALSE
  /\ recent' = Never
  /\ UNCHANGED <<policy, judged>>

(* With the settings as they were, before or after the count started over. *)
Restarts == renewal' = FALSE /\ judged' = None /\ UNCHANGED <<policy, kept, recent>>

TimePasses ==
  /\ recent' = [i \in 1..(MaxDisables + 1) |-> IF recent[i] < Window THEN recent[i] + 1 ELSE Window]
  /\ UNCHANGED <<policy, judged, kept, renewal>>

RestraintNext ==
  \/ PassBegins
  \/ PassEnds
  \/ Disables
  \/ Forgets
  \/ Keeps
  \/ SettingsChange
  \/ StartsOver
  \/ Restarts
  \/ TimePasses

RestraintSpec == RestraintInit /\ [][RestraintNext]_restraint
=============================================================================
