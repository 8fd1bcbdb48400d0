SPECIFICATION FairSpec
CONSTANTS
  Taken = Taken
  Rejected = Rejected
  NoFormat = NoFormat
  NoConfig = NoConfig
  Formats <- MCFormats
  Supported <- MCSupported
  Configs <- MCConfigs
  MaxDisables = 2
  Window = 1
  Faults = {"race"}
INVARIANTS
  LeftEnabledKept
  NoLoop
  OursIsRecorded
PROPERTIES
  ImplementsRestraint
  NotStranded
  PolicyReturns
