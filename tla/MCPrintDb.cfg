SPECIFICATION Spec
CONSTANTS
  Options <- MCOptions
  Databases <- MCDatabases
INVARIANTS TypeOK AccountsPrefix AccountsComplete PrintInv
CHECK_DEADLOCK FALSE
