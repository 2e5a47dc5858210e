\* A limit admitted against a member count that a join then changes.
CONSTANTS
  MaxNodeID = 2
  MaxNetID = 1
  Keys = {k1, k2}
  Owners = {}
  Hostnames = {}
  NetNames = {n1}
  None = None
  HasWAL = FALSE
  WALCap = 0
  Clients = {c1}
  Rotators = {}
  MaxNodes = 0
  SigChoices = {TRUE}
  ReapChunk = 2
  ReapBatch = 2
  SilentWhenStale = TRUE
  SerialDaemons = TRUE
  Admins = {a1}
  AdminOps = {"policy"}
  RuleChoices = {"open"}
  FlagChoices = {TRUE, FALSE}
  KickNets = {}
  RoleNets = {}
  MaxInviteInbox = 1
  MemberLimits = {1}
SPECIFICATION MembershipSpec
INVARIANT
  MembersWithinLimit
