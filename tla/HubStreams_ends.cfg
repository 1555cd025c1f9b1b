SPECIFICATION LiveSpec
CONSTANTS
  Agent = {"a", "b"}
  Stream = {"x", "y"}
  Src <- XFromA
  Tgt <- XToB
  Quic = {"a"}
  Restarting = {"a", "b"}
  Sweeper = {1}
  MaxPerAgent = 2
  MaxTotal = 0
  MaxCircuit = 2
  MaxQueue = 1
  EvictsLive = FALSE
  Drops = FALSE
CONSTRAINT OneStream
INVARIANTS
  PartnersTold
PROPERTIES
  TargetReleased
CHECK_DEADLOCK FALSE
