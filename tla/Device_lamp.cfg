CONSTANTS
  N = 2
  Setting = {"brightness", "colour"}
  Has <- MCHas
  Level = {1, 2}
  DefaultLevel = 2
  Configs <- MCConfigs
SPECIFICATION Spec

  
PROPERTIES
  OnlyKnownGaps
  TimersInStep
  ForcedRecovers
