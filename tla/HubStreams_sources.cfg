SPECIFICATION Spec
CONSTANTS
  Agent = {"a", "b"}
  Stream = {"x", "y"}
  Src <- FromA
  Tgt <- ToB
  Quic = {}
  Restarting = {"a"}
  Sweeper = {1}
  MaxPerAgent = 2
  MaxTotal = 0
  MaxCircuit = 2
  MaxQueue = 1
  EvictsLive = FALSE
  Drops = FALSE
INVARIANTS
  TypeOK
  NoSlotLeak
  PartnersTold
  
CHECK_DEADLOCK FALSE
