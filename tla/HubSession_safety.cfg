SPECIFICATION Spec
CONSTANTS
  H2Conn = {c1, c2}
  QuicConn = {q1}
  Sess = {s1, s2, s3}
  Poll = {p1, p2}
  Up = {}
  Signal = {k1, k2}
  MaxGen = 3
  MaxStalls = 1
  None = None
CONSTRAINT OnePlane
SYMMETRY Interchangeable
INVARIANTS
  TypeOK
  ChannelsSound

  
CHECK_DEADLOCK FALSE
