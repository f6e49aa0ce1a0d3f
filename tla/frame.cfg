SPECIFICATION MCSpec
CONSTANTS
  Rows = 2
  Cols = 3
  Images <- MCImages
  Reports <- MCReports
  U32 = 16
  SignalZero = 10
  ActiveMax = 8
  StrongMax = 5
  MinPixels = 2
  PalmPixels = 3
  PalmSpan = 2
  NsrBins = 2
  NsrCutoff = 5
  RowToBin <- MCRowToBin
  MaxContacts = 2
  LogicalMax = 4
  MatchMax = 2
  Predictions <- MCPredictions
  UnmatchedCost = 20
  InvalidCost = 60
  IntMax = 400
INVARIANTS
  NoWriteOutside
  MapIsMeasured
  ContactsAreStrongestBlobs
  AssignsOptimally
PROPERTIES
  FrameEnds
