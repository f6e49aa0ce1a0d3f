SPECIFICATION Spec
CONSTANTS
  Profiles <- MCProfiles
  Configs <- MCConfigs
  Defects <- MCDefects
  ResponseLimit = 2
  RecoveryLimit = 3
  MaxResets = 1
  MaxSuspends = 1
  WireLength = 2
INVARIANTS
  InputBehindChronology
  PausedSaysWhy
  SucceedsOnOwnAnswers
PROPERTIES
  RecoverySettles
