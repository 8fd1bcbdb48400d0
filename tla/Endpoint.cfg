SPECIFICATION FairSpec
CONSTANTS
  surround = surround
  stereo = stereo
  Layouts = {surround, stereo}
  Stereo = stereo
  Targets <- MCTargets
  Drivers <- MCDrivers
  Names = {desk, hall}
  FirstName = desk
  Factory = Factory
  NoName = NoName
  NoCaps = NoCaps
  Configs <- MCConfigs
  BrokenSets <- MCBrokenSets
  MaxChanges = 1
  MaxFaults = 1
INVARIANTS
  TypeOK
  NoWriteStorm
PROPERTIES
  Settles
  NameKept
