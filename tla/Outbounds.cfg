SPECIFICATION MCSpec
CONSTANTS
  Callers = {d1, d2}
  N = 3
  Sockets = {"s1"}
  Sessions = {1, 2}
  QueueCap = 1
  MaxNet = 2
  Ids = {1, 2}
  Tasks = {1, 2}
  Socks = {1, 2}
  DialTasks = {d1, d2}
  Api = {3}
  Rounds = {{d1, d2}, {d1, 3}}
  GroupSize = 2
  MaxDelay = 2
  Kinds = {"tuic", "hysteria", "ssh"}
  PoolDials = {d1, d2, d3}
  Users <- TuicUsers
  Credentials <- TuicCredentials
  PoolDests <- TuicDests
  MaxConns = 2
  Peers = {"p", "q"}
  Configured <- WgConfigured
  AllowedIps <- WgAllowedIps
  Addrs = {"a", "b"}
  NoAddr = "none"
  Dests <- WgDests
  MaxPackets = 1
  MaxMoves = 1
  MaxLosses = 1
INVARIANTS
  TypesOK StickyHasAnswered   
PROPERTIES
  GroupsMoveForCause AllDialsEnd
\* Connections, dials and sessions end, and then nothing is left to do.
CHECK_DEADLOCK FALSE
