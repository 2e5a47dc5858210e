\* Each component on a small instance of its own, one at a time.
CONSTANTS
  Nodes = {1, 2}
  Handlers = {p1, p2}
  Pushers = {}
  SavedPairs = {}
  MaxInbox = 1
  MaxCalls = 3
  Auditors = {a1}
  BusCap = 1
  QueueCap = 1
  DLQMax = 1
  MaxRetries = 2
  MaxDispatchers = 2
  MaxAudits = 2
  ExportCap = 1
  MaxEntries = 2
  MaxExporters = 2
  MaxCrashes = 1
  Conns = {1, 2}
  Addrs = {1, 2}
  AddrOf <- OneConnPerAddr
  MaxConnections = 1
  Rate = 2
  Window = 2
  MaxBuckets = 1
  GlobalRate = 2
  ListedRate = 3
  Beacons = {b1, b2}
  BeaconAddrs = {addr}
  NoAddr = NoAddr
  BeaconTTL = 3
  BeaconRegisterCooldown = 1
  Names = {"n1"}
  AdminCalls = {p1, p2}
  MaxWrites = 2
  IdentityReqs = {p1, p2, p3}
  Auths = {"A", "B"}
  Commitments = {"id"}
  CommitmentOf <- OneCommitment
  NoAuth = NoAuth
  NoCommitment = NoCommitment
  Validators = {p1, p2}
  URLs = {u1, u2}
  NoURL = NoURL
  TTL = 1
  FetchTime = 1
  MaxKeys = 2
  MemberNodes = {1, 2}
  MaxNet = 2
  ExtIDs = {"x"}
  Nil = Nil
  Blueprints <- TwoBlueprints
  SyncRoles = {"admin"}
  DisplayNames = {"d"}
  Callers = {p1, p2}
  MaxOps = 5
  Listers = {p1, p2}
  MaxObjects = 2
  MaxChanges = 1
  Networks = {1}
SYMMETRY CallSymmetry
SPECIFICATION ServicesSpec
INVARIANTS
  AcceptanceIsTrust
  EncodeCacheExact
  
  CloseDrains
  
  ConnsCounted
  EvictionGrantsNothing
  LiveBeaconsListed
  WatcherExact
  
  VerifiedKeyRecent
  
  NetListFresh
  WaitersHaveBuilder
  DisclosureConsented
CHECK_DEADLOCK FALSE
