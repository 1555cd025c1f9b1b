SPECIFICATION WatchedSpec
CONSTANTS
  H2Conn = {c1}
  QuicConn = {}
  Sess = {s1, s2, s3}
  Poll = {p1}
  Up = {u1}
  Signal = {k1}
  MaxGen = 3
  MaxStalls = 1
  None = None
INVARIANTS
  LeaseHeldByReader
PROPERTIES
  Recovers
CHECK_DEADLOCK FALSE
