CONSTANTS
  Programs <- AllsigPrograms
  Process <- ProcessOf
  NoRegion = NoRegion
  BadKey = BadKey
SPECIFICATION Spec
INVARIANT NoAssertFails
CHECK_DEADLOCK FALSE
