SPECIFICATION Spec
CONSTANTS
  Agent = {"a", "b"}
  Stream = {"x"}
  Src <- FromA
  Tgt <- ToB
  Quic = {}
  Restarting = {"b"}
  Sweeper = {1}
  MaxPerAgent = 2
  MaxTotal = 0
  MaxCircuit = 2
  MaxQueue = 1
  EvictsLive = FALSE
  Drops = FALSE
INVARIANT NoSlotLeak
CHECK_DEADLOCK FALSE
