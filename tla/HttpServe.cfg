SPECIFICATION FairSpec
CONSTANTS
  Request = {1, 2}
  SharedCount = 2
  Null = Null
  Absent = Absent
  Element = {1, 2}
  Piece = {}
  Opaque = {Null}
  InitialOuter <- NoHits
  BodyUpdates <- Hits
INVARIANTS AddsUp
PROPERTIES AtomicSpec DelaysNobodyElse
