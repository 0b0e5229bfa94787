SPECIFICATION FairSpec
CONSTANTS
  Msg = {m1}
  Connector = {w1}
  Cron = {w1, w2}
  MaxAttempts = 3
  MaxFault = 3
  MaxRetry = 2
INVARIANTS
  TypeOK
  TextOncePerReason
PROPERTIES
  
  EndedStaysEnded
  EveryMessageSettles
CHECK_DEADLOCK FALSE
