SPECIFICATION Spec
CONSTANTS
  ResetRecoveryV2 = TRUE
  ResetStormBreaker = TRUE
  HostFaultRecovery = FALSE
  ReadyQuiesce = FALSE
  WindowsInitParity = TRUE
  WindowsReadCadence = TRUE
  RecoveryLimit = 2
  ResetStormLimit = 2
  IrqDrainLimit = 2
  ResponseLimit = 2
  U8 = 4
  Exchanges = 1
  PanelQueue = 1
INVARIANTS
  NoOrphanedGate
  StormEscalates
