--------------------------- MODULE MCControlChannel ---------------------------
(* A tray, which reads, and a console, which may not.                      *)
EXTENDS ControlChannel
CONSTANTS Tray, Console

TrayAndConsole == {Tray, Console}
OneConsole == {Console}
=============================================================================
