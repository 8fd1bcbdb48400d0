SPECIFICATION FairSpec
CONSTANTS
  Clients <- OneClient
  Main = main
  Handler = handler
  Nobody = nobody
INVARIANTS
  HostAlive
  EngineAlive
PROPERTIES
  ImplementsLife
  StopCompletes
  SettlesAlone
