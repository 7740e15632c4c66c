SPECIFICATION MCSpec
CONSTANTS
  Conns = {1, 2, 3}
  Nonces = {1, 2}
  Limit = 1
  Skew = 1
  MaxTime = 2
  Threshold = 3
  MaxFly = 2
  MaxUp = 2
  MaxDown = 1
INVARIANTS
  TypesOK 
PROPERTIES
  SessionsEnd
\* Connections, dials and sessions end, and then nothing is left to do.
CHECK_DEADLOCK FALSE
