SPECIFICATION FairSpec
CONSTANTS
  Taken = Taken
  Rejected = Rejected
  NoFormat = NoFormat
  NoConfig = NoConfig
  Formats <- MCFormats
  Supported <- MCSupported
  Configs <- MCConfigs
  MaxDisables = 1
  Window = 1
  Faults = {}
PROPERTIES
  LeftUntilSettingsChange
