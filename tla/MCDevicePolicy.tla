--------------------------- MODULE MCDevicePolicy ---------------------------
(* Two formats, of which the endpoint's driver takes one, and the           *)
(* configurations that differ in what the policy does with the endpoint.   *)
EXTENDS DevicePolicy, TLC

CONSTANTS Taken, Rejected

MCFormats == {Taken, Rejected}
MCSupported == {Taken}

Off == [std |-> FALSE, target |-> Rejected, disable |-> FALSE, confirmedFor |-> NoFormat,
        enforce |-> TRUE, monitor |-> TRUE]
On == [Off EXCEPT !.std = TRUE, !.disable = TRUE, !.confirmedFor = Rejected]
Other == [On EXCEPT !.target = Taken]

MCConfigs == {Off, On, Other}
=============================================================================
