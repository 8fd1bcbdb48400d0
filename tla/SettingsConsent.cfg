SPECIFICATION Spec
CONSTANTS
  Default = f96
  Targets = {f48, f96}
  Bad = Bad
  NoTarget = NoTarget
  NoFile = NoFile
  Nothing = Nothing
  Supported = {f48}
  HandEdits = {"std"}
  MaxActs = 2
INVARIANTS
  PolicyWasAgreedTo
