CONSTANTS
  Text <- mcText
  Tables = {T, U}
  NoTable = NoTable
  Growth = 2
  MaxState = 3
  MaxSaves = 2
SPECIFICATION Spec
INVARIANTS TypeOK QueriesAgree
PROPERTY Implements
