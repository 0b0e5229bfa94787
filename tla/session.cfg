SPECIFICATION Spec
CONSTANTS
  MaxProv = 2
  MaxSock = 3
  MaxTry = 1
  MaxCred = 1
  MaxFlight = 2
  MaxAsk = 1
INVARIANTS
  TypeOK
  StatusCatchesUp
  ConnectedHasSocket
  OneSocket
PROPERTIES
  PurgedWhenRevoked
CHECK_DEADLOCK FALSE
