SPECIFICATION Spec
CONSTANTS
  Slots <- MCSlots
  XMax = 2
  Kinds <- MCKinds
  Frames <- MCFrames
  MatchMax = 1
  AssignRadius = 2
  PairWorth = 100
  HoldFrames = 1
  ConfirmNormal = 2
  ConfirmWeak = 3
  ConfirmSplit = 4
  BehaviorConfirm = 2
  SplitRadius = 1
  MinPixels = 2
  Classes <- MCClasses
  Rules <- MCRules
  PointLimits <- MCPointLimits
  HistoryCapacity = 2
  U16Max = 4
  U8Max = 4
INVARIANTS
  ReportedIsSeen
  AdmissionWindow
PROPERTIES
  SlotKeepsContact
