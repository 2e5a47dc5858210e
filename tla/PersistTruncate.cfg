\* Requests served while a flush runs.
CONSTANTS
  MaxNodeID = 3
  MaxNetID = 2
  Keys = {k1, k2}
  Owners = {}
  Hostnames = {}
  NetNames = {n1}
  None = None
  HasWAL = TRUE
  WALCap = 4
  Clients = {c1}
  Rotators = {}
  MaxNodes = 0
  SigChoices = {TRUE}
  ReapChunk = 2
  ReapBatch = 2
  SilentWhenStale = TRUE
  SerialDaemons = TRUE
  Admins = {}
  AdminOps = {}
  RuleChoices = {"open"}
  FlagChoices = {TRUE, FALSE}
  KickNets = {}
  RoleNets = {}
  MaxInviteInbox = 0
  MemberLimits = {}
  Operators = {}
  BreakerUsed = FALSE
  MaxLog = 3
  QuietFlush = FALSE
  IDsRunOut = FALSE
SPECIFICATION PersistenceSpec
INVARIANT
  CountersDurable
