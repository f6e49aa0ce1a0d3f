SPECIFICATION FairSpec
CONSTANTS
  ResetRecoveryV2 = TRUE
  ResetStormBreaker = TRUE
  HostFaultRecovery = TRUE
  ReadyQuiesce = TRUE
  WindowsInitParity = FALSE
  WindowsReadCadence = FALSE
  RecoveryLimit = 2
  ResetStormLimit = 2
  IrqDrainLimit = 2
  ResponseLimit = 2
  U8 = 5
  Exchanges = 1
  PanelQueue = 1
INVARIANTS TypeOK NoOrphanedGate GateReleasesContacts ReadyHeatGate
  SuspendedIsQuiet NoAttemptAfterRemove
PROPERTIES StormEndsInHardware DrainLeavesNothing Progress ImplementsService
