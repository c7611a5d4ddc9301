SPECIFICATION FairSpec
CONSTANTS
  MaxItems = 2
  SharedCount = 2
  Null = Null
  Absent = Absent
  Element <- MCElement
  Piece <- MCPiece
  Opaque = {Null, "map"}
  InitialOuter <- MixedOuter
  BodyUpdates <- MixedBodies
  Procedures <- AnyArity
INVARIANTS JoinedBeforePublish FirstErrorReported PublishedEvenOnError
PROPERTIES EventuallyReturns
