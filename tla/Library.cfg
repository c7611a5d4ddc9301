SPECIFICATION Spec
CONSTANTS
  WideChar = "w"
  Tests = 2
  MaxOpened = 3
  Programs = {"a", "b"}
  Gates = {"stdlib-http", "stdlib-db"}
  MaxEvents = 4
  Names = {"a", "b", "x"}
  Null = "null"
  Values = {"null", "some"}
  Absent = "absent"
  Literal = "literal"
  Params <- CleanParams
  Outers <- AllOuters
  MaxDepth = 2
CHECK_DEADLOCK FALSE
INVARIANTS SameFunction NoCallMissed StatementsAgree TextAgrees BindsInOrder ColumnsAlign SortsConsistently
  ArgsAsMeant ReachesItsOwn TestSessionsClosed Served
PROPERTIES CallsByReference
