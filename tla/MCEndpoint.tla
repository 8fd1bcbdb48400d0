----------------------------- MODULE MCEndpoint -----------------------------
EXTENDS Endpoint

CONSTANTS surround, stereo

T48 == [rate |-> 48, bits |-> 16]
T22 == [rate |-> 22, bits |-> 16]
T96 == [rate |-> 96, bits |-> 24]

(* A driver that takes 96 kHz in stereo only, 24 bits in a container of    *)
(* 32, and one that never does and that has a rate of its own in surround. *)
MCTargets == {T48, T96}
MCDrivers ==
  {{Format(T48, 16, FALSE, stereo), Format(T96, 32, FALSE, stereo), Format(T48, 16, FALSE, surround)},
   {Format(T48, 16, FALSE, stereo), Format(T22, 16, FALSE, surround)}}

(* Everything on, and report only with the policy off.                     *)
MCConfigs ==
  {[std |-> TRUE, target |-> T96, disable |-> on, exclusive |-> on, enforce |-> on] : on \in BOOLEAN}
MCBrokenSets == {{}, {"name", "exclusive"}}
=============================================================================
