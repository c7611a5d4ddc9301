SPECIFICATION MachinesSpec
CONSTANTS
  Stmt <- AgreeStmt
  Programs <- AgreePrograms
  MaxItems = 2
  MaxLog = 5
INVARIANTS Agree
