SPECIFICATION SafetySpec
CHECK_DEADLOCK FALSE
CONSTANTS
  Parts = {"edgerun"}
  oldPolicy = oldPolicy
  Publication = {oldPolicy, newPolicy}
  Generation <- MCGeneration
  Underivable = {}
  Embedded = Embedded
  MaxPolicyFault = 1
  MaxDrop = 1
  list2 = list2
  list3 = list3
  Push = {list2, list3, pull}
  Lane = {pull}
  Number <- MCNumber
  Static = 1
  RevokedAt = 3
  MaxRegister = 2
  MaxBoot = 1
  ProposalId = {i1, i2}
  Requester = {q1}
  Stream = {s1, s2}
  Submission = {u1, u2}
  MaxPendingOwn = 1
  MaxPendingTotal = 1
  Ttl = 1
  Horizon = 2
  MaxLoss = 1
  node1 = node1
  member1 = member1
  control1 = control1
  Node = {node1}
  Stems <- TwoStems
  Control = {control1}
  MaxIssue = 2
  MaxAnswerLoss = 1
  MaxRevoke = 1
  Rule = {rule1}
  Proposed = Proposed
  Foreign = Foreign
  Serial = {}
  Pack = {hubPack, agentPack}
  HubPack = hubPack
  MaxPlanEdit = 1
  MaxPlanFault = 1
  MaxRotate = 1
  MaxOther = 1
  Command = {op1}
  Realm = {ra}
  Unbound = Unbound
  Legacy = ra
  Material <- RealmAndWorkspace
  Dir = {dir1, dir2}
  NoDir = NoDir
  Retention = 1
  MaxMint = 1
  MaxStoreEdit = 1
  MaxStoreFault = 1
  MaxStoreDeath = 1
  MaxConfig = 2
  MaxBack = 1
  Code = {c1, c2}
  Handler = {hd1, hd2}
  Cli = {cli1, cli2}
  MaxSerial = 2
  MaxEnrollDeath = 1
  Unheld = Unheld
  CertTtl = 3
  Margin = 1
  Peer = {p1, p2}
  MaxServeFault = 1
  MaxServeDeath = 1
  MaxReissue = 1
  Conn = {k1, k2}
  Plain80 = {k80}
  Client = {x1}
  FrontProxy = FrontProxy
  PerIp = 1
  Total = 2
  Quota = 1
  MaxSwap = 1
  Principals <- MCPrincipals
  Acme = TRUE
  UserOp = {o1, o2}
  Kind = {"hub", "agent"}
  Pref = {y1, y2}
  MaxAttempts = 1
  MaxEngine = 2
  MaxTrouble = 1
  MaxPack = 2
  MaxLineage = 2
  MaxInstall = 3
  MaxBinary = 1
  MaxCut = 1
  Proc = {pr1, pr2}
  Alone = TRUE
  LedgerQueue = 1
  MaxSegment = 2
  Keep = 1
  SegmentRetention = 1
  MaxRecord = 3
  MaxTime = 2
  MaxInode = 4
  MaxCrash = 1
  w1 = w1
  w2 = w2
  n1 = n1
  n2 = n2
  gw = gw
  web = web
  r1 = r1
  a1 = a1
  h1 = h1
  H1 = H1
  h2 = h2
  Workspace = {w1, w2}
  AgentName = {n1, n2}
  NodeName = {gw}
  ServiceId = {web, y}
  RuleName = {r1, bad}
  Address = {a1}
  Host = {h1, H1, h2}
  Folded <- MCFolded
  IllFormed = {bad}
  DefaultWs = w2
  Drafts <- MCDrafts
  MaxEdit = 2
  Watched <- MCWatched
  MaxGeneration = 2
INVARIANT FailureTornDown
