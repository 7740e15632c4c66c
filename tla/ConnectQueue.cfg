SPECIFICATION MCSpec
CONSTANTS
  freedom = freedom
  node = node
  home = home
  far = far
  any = any
  Unspecified = any
  None = None
  Tags <- MCTags
  DirectTags <- MCDirectTags
  Addrs <- MCAddrs
  PrivateAddrs <- MCPrivateAddrs
  Rules <- MCRules
  MaxRules = 2
  Clients = {"c1", "c2", "c3"}
  MaxActive = 2
  HandshakePermits = 1
  DialPermits = 1
  Backlog = 1
  MaxConns = 1
  MaxGen = 3
  Attempts = 2
  Targets = 2
INVARIANTS DirectNeverQueues
\* Connections end.
CHECK_DEADLOCK FALSE
