SPECIFICATION Spec
CONSTANTS
  Hash <- StructureHash
  TerminalKey <- StructureTerminalKey
  NumLevels = 2
  Weight = {0, 1}
  Arity = 2
  MaxNodes = 4
INVARIANT TypeOK
INVARIANT NoDuplicates
INVARIANT ReturnsRequested
PROPERTY NodesPersist
