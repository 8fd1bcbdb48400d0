SPECIFICATION Spec
CONSTANTS
  f48 = f48
  f96 = f96
  Targets = {f48, f96}
  DefaultTarget = f48
  NoTarget = NoTarget
  NoFile = NoFile
  FirstConfigs <- MCConfigs
  Troubles = {}
  Stubborn = {}
  MaxPrograms = 2
  MaxCommands = 0
INVARIANTS
  InstallLasts
