SPECIFICATION Spec
CONSTANTS
  TcpDials = {t1, t2}
  DnsDials = {d1}
  UdpDials = {u1}
  Rounds = {{t1, d1}, {t1, t2}, {t1, u1}}
  DialPermits = 1
  WedgeRebuildAfter = 2
INVARIANTS TypeOK
PROPERTIES SlotSpec SessionsLeaveForCause TcpDialsTerminate
CHECK_DEADLOCK FALSE
