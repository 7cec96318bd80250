CONSTANTS
  TcpClients = {t1}
  UdpClients = {u1}
  Kinds = {"select"}
  MaxKills = 0
  MaxSpare = 2
SPECIFICATION Spec
PROPERTY Both
CHECK_DEADLOCK FALSE
