------------------------------- MODULE MCSetup -------------------------------
(* Two formats, and a configuration with a confirmed policy.               *)
EXTENDS Setup, TLC

CONSTANTS f48, f96

Confirmed == [DefaultConfig EXCEPT !.std = TRUE, !.disable = TRUE, !.confirmedFor = DefaultTarget]
MCConfigs == {Confirmed}
=============================================================================
