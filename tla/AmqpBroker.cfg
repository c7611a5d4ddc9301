SPECIFICATION FairSpec
CONSTANTS
  Message = {1, 2}
  SharedCount = 2
  MaxRuns = 2
  Null = Null
  Absent = Absent
  Element = {1, 2}
  Piece = {}
  Opaque = {Null}
  InitialOuter <- Outers
  BodyUpdates <- Bodies
INVARIANTS AtLeastOnce RepeatsNeedLosses EveryBlockCounts
PROPERTIES Drains LossEndsStatement
