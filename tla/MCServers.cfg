CONSTANTS
  TcpClients = {t1, t2}
  UdpClients = {u1}
  Kinds = {"tcps", "hw2", "udps", "select", "hw3"}
  MaxKills = 1
  MaxSpare = 2
SPECIFICATION Spec
INVARIANTS TrueReply Survives
PROPERTY Served
CHECK_DEADLOCK FALSE
