SPECIFICATION Spec
CONSTANTS
  Taken = Taken
  Rejected = Rejected
  NoFormat = NoFormat
  NoConfig = NoConfig
  Formats <- MCFormats
  Supported <- MCSupported
  Configs <- MCConfigs
  MaxDisables = 2
  Window = 2
  Faults = {}
PROPERTIES
  UserDisabledUntouched
