-------------------------------- MODULE MCTray --------------------------------
EXTENDS Tray

=============================================================================
