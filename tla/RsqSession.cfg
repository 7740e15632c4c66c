SPECIFICATION Spec
CONSTANTS
  TcpDials = {t1, t2}
  DnsDials = {}
  UdpDials = {u1}
  Rounds = {{t1, t2}, {t1, u1, prober}}
  Prober = prober
  DialPermits = 1
  MaxProbes = 1
INVARIANTS TypeOK ConnectExclusive StaleOnlyAfterRewarm
PROPERTIES NoStreamOnResetSession LiveSessionEvictedOnlyByReset
CHECK_DEADLOCK FALSE
