SPECIFICATION Spec
CONSTANTS
  Words <- MCWords
  Numbers <- MCNumbers
  ServerLines <- AllLines
  ReadBufferSize = 12
  MaxLines = 2
INVARIANTS
  ProcessorTypeOK
  OneLinePerMessage
  NothingHeldBack
  SpeakersAreKnown
PROPERTIES
  ImplementsLineStream
