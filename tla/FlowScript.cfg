SPECIFICATION Spec
CONSTANTS
  Stmt <- AllStmt
  Programs <- AllPrograms
  MaxItems = 2
  MaxLines = 2
INVARIANTS TerminateStopsStatements PendingStopsBlocks
PROPERTIES TerminateEndsInnermostLoop ExitUnwinds
