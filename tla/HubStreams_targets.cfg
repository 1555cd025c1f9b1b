SPECIFICATION Spec
CONSTANTS
  Agent = {"a", "b"}
  Stream = {"x", "y"}
  Src <- FromA
  Tgt <- ToB
  Quic = {}
  Restarting = {"b"}
  Sweeper = {1}
  MaxPerAgent = 1
  MaxTotal = 0
  MaxCircuit = 2
  MaxQueue = 0
  EvictsLive = TRUE
  Drops = TRUE
INVARIANTS
  SlotsSound
CHECK_DEADLOCK FALSE
