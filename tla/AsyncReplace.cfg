SPECIFICATION FairSpec
CONSTANTS
  MaxItems = 2
  SharedCount = 2
  Null = Null
  Absent = Absent
  Element <- MCElement
  Piece <- MCPiece
  Opaque = {Null, "map"}
  InitialOuter <- GrowthOuter
  BodyUpdates <- GrowthBodies
  Procedures <- Interpreted
INVARIANTS FinalValueReplaces
