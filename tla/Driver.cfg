SPECIFICATION Spec
CONSTANTS
  Connections = {c1, c2}
  s1 = s1
  s2 = s2
  Statements <- MCStatements
  Texts <- MCTexts
  Params <- MCParams
  Settings <- MCSettings
  MaxSchema = 2
  MaxRows = 2
  NarrowBits = 2
  SafeBits = 3
  WideBits = 4
SYMMETRY Interchangeable
INVARIANTS
  TypeOK
  HandlesAreExact
  StatementsComeToRest
  RowsAreRight
CHECK_DEADLOCK FALSE
