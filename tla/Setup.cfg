SPECIFICATION Spec
CONSTANTS
  f48 = f48
  f96 = f96
  Targets = {f48, f96}
  DefaultTarget = f48
  NoTarget = NoTarget
  NoFile = NoFile
  FirstConfigs <- MCConfigs
  Troubles = {"slow", "held", "io"}
  Stubborn = {"exe", "apps"}
  MaxPrograms = 2
  MaxCommands = 1
INVARIANTS
  InstalledIsWhole
  UninstallIsClean
  PolicyWasAgreed
