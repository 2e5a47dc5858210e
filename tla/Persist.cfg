\* Nodes come and go under two flushers and a breaker, or networks come and go;
\* the process dies at any moment.
CONSTANTS
  MaxNodeID = 3
  MaxNetID = 2
  Keys = {k1}
  Owners = {}
  Hostnames = {}
  NetNames = {n1}
  None = None
  HasWAL = TRUE
  WALCap = 4
  Clients = {c1}
  Rotators = {}
  MaxNodes = 0
  SigChoices = {TRUE}
  ReapChunk = 2
  ReapBatch = 2
  SilentWhenStale = TRUE
  SerialDaemons = TRUE
  Admins = {}
  AdminOps = {}
  RuleChoices = {"open"}
  FlagChoices = {TRUE}
  KickNets = {}
  RoleNets = {}
  MaxInviteInbox = 0
  MemberLimits = {}
  Operators = {op1}
  BreakerUsed = TRUE
  MaxLog = 2
  QuietFlush = TRUE
  IDsRunOut = FALSE
SPECIFICATION ScopedSpec
INVARIANTS
  PersistenceTypeOK
  
  
