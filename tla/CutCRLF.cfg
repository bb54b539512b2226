SPECIFICATION Spec
CONSTANTS
  Words <- MCWords
  Numbers <- MCNumbers
  ServerLines <- TwoLines
  ReadBufferSize = 12
  MaxLines = 2
INVARIANTS
  PingsAreIdentified
