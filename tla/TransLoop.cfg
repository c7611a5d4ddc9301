SPECIFICATION MachinesSpec
CONSTANTS
  Stmt <- ExampleStmt
  Programs <- Examples
  MaxItems = 2
  MaxLog = 5
INVARIANTS SameStatements
