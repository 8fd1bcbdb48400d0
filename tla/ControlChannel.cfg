SPECIFICATION FairSpec
CONSTANTS
  Tray = tray
  Console = console
  Clients <- TrayAndConsole
  Consoles <- OneConsole
  Careless <- OneConsole
  Pipes = {p1, p2}
  Worker = worker
  Nobody = nobody
  Closed = closed
  Broken = broken
  MaxClients = 1
  Capacity = 1
  MaxCalls = 1
INVARIANTS
  TypeOK
  AnsweredOnce
  BroadcastsAreSafe
  TrayKnows
PROPERTIES
  CallsReturn
  StopNeverHangs
