\* Two nodes, one network: roles and the operator's kicks, from the backbone too; or
\* invitations, limits and reclaims; against reaping and re-registration.
CONSTANTS
  MaxNodeID = 2
  MaxNetID = 1
  Keys = {k1, k2}
  Owners = {}
  Hostnames = {}
  NetNames = {n1}
  None = None
  HasWAL = FALSE
  WALCap = 0
  Clients = {c1}
  Rotators = {}
  MaxNodes = 0
  SigChoices = {TRUE, FALSE}
  ReapChunk = 2
  ReapBatch = 2
  SilentWhenStale = TRUE
  SerialDaemons = TRUE
  Admins = {a1}
  AdminOps = {"kick", "promote", "demote", "transfer", "policy"}
  RuleChoices = {"open", "invite"}
  FlagChoices = {TRUE, FALSE}
  KickNets = {0, 1}
  RoleNets = {1}
  MaxInviteInbox = 1
  MemberLimits = {0, 1}
SYMMETRY KeySymmetry
SPECIFICATION ScopedSpec
INVARIANTS
  MembershipTypeOK
  MembershipSymmetric
  
  MembersOnce
  InvitesHaveNetwork
PROPERTIES
  
  JoinsRespectLimit
