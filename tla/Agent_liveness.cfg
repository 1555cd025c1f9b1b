SPECIFICATION AgentFairSpec
CONSTANTS
  Parts = {"supervisor", "dispatch", "rules", "egress", "breakers", "engine"}
  Task = {t1}
  MaxAttempt = 1
  Strikes = 1
  Stream = {s1}
  Reader = {r1}
  PollReader = r1
  MaxChan = 1
  Cap = 1
  ParkCap = 1
  QuietTicks = 3
  StallTicks = 2
  DrainTicks = 2
  Name = {n1}
  Addr = {a1}
  AnyPort = AnyPort
  Nothing = Nothing
  MaxChange = 1
  TcpStream = {x1}
  UdpSession = {u1}
  MaxIncoming = 2
  Target = {h1}
  Request = {q1}
  Threshold = 2
  Window = 1
  Cooldown = 2
  ProbeInterval = 1
  MaxTracked = 1
  NoEntry = NoEntry
  Client = {c1}
  MaxSession = 2
  MaxAssociation = 2
  IdleTicks = 2
  ChannelCap = 1
  MaxDatagram = 3
  MaxReply = 1
  MaxRuleChange = 1
  HeaderLen = 2
  MaxPayload = 3
  CopyThreshold = 3
  MaxFrames = 3
  MaxText = 2
  Side = {"agent", "upload", "drain", "contract", "exchange"}
  Datagram = {g1, g2, g3}
  MaxLen = 2
  Chunk = 1
  MaxFragments = 2
  MaxPending = 2
  MaxBytes = 2
  Ttl = 1
  MaxTwice = 1
  QueueCap = 2
  ReceivedCap = 1
  MaxIn = 2
  MaxOut = 1
  Ingress = {i1}
  Egress = {e1}
  UplinkCap = 1
  MaxRound = 2
  MaxPing = 1
  Call = {k1}
  Kind = {"route", "policy", "submit", "mine", "peers", "ping"}
  Form = {"good", "malformed", "foreign"}
  MaxTunnel = 2
  MaxStop = 1
  Nobody = Nobody
  d1 = d1
  d2 = d2
  Conn = {d1, d2}
  QuicConn = {d1}
  DialOrder <- MCDialOrder
  RouteCall = {l1, l2}
  LeaseTarget = {o1}
  MaxRouteChange = 1
  MaxEvict = 1
  None = None
PROPERTIES
  AgentLive
CHECK_DEADLOCK FALSE
