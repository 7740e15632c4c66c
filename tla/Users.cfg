SPECIFICATION MCSpec
CONSTANTS
  Rate = 3
  Senders = {s1, s2}
  Sizes = {0, 1, 4, 7}
  Sessions = {"r1", "r2"}
  MaxConnections = 1
  MaxTraffic = 2
  MaxChunk = 2
  MaxReloads = 2
  Relays = {1, 2}
  MaxRecords = 1
  MaxQueries = 2
  Configs <- MCConfigs
  MaxLimiters = 3
INVARIANTS
  TypesOK  
\* Connections, dials and sessions end, and then nothing is left to do.
CHECK_DEADLOCK FALSE
