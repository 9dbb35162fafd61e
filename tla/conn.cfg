SPECIFICATION Spec
CONSTANTS
  MaxCache = 2
  InitBuf = 4
  MaxHeader = 4
  HandlerBuf = 2
  Piece = 3
  Scripts <- MCScripts
INVARIANTS
  ConnInv
  RequestsIntact
  CachedIsArmed
  NotCutOff
PROPERTIES
  StreamInOrder
  EveryMessageAnswered
CHECK_DEADLOCK FALSE
