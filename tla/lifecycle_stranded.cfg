SPECIFICATION Spec
CONSTANTS
  ResetRecoveryV2 = TRUE
  ResetStormBreaker = FALSE
  HostFaultRecovery = TRUE
  ReadyQuiesce = TRUE
  WindowsInitParity = FALSE
  WindowsReadCadence = FALSE
  RecoveryLimit = 3
  ResetStormLimit = 3
  IrqDrainLimit = 2
  ResponseLimit = 2
  U8 = 256
  Exchanges = 1
  PanelQueue = 2
INVARIANTS NoStrandedPacket
