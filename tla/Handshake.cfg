CONSTANTS
  Programs <- MCPrograms
  Process <- ProcessOf
  NoRegion = NoRegion
  BadKey = BadKey
SPECIFICATION LiveSpec
INVARIANTS TypeOK SendersConnected
PROPERTIES RequestsKept HandshakeCompletes
CHECK_DEADLOCK FALSE
