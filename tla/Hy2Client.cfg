SPECIFICATION Spec
CONSTANTS
  TcpDials = {t1}
  UdpDials = {u1}
  Ports = {p1, p2}
  MaxHops = 1
INVARIANTS TypeOK SessionLabelled
PROPERTIES SessionLeavesClosed SlotSpec 
CHECK_DEADLOCK FALSE
