\* Passes that look at one node each.
CONSTANTS
  MaxNodeID = 3
  MaxNetID = 1
  Keys = {k1, k2, k3}
  Owners = {}
  Hostnames = {}
  NetNames = {}
  None = None
  HasWAL = FALSE
  WALCap = 0
  Clients = {c1}
  Rotators = {}
  MaxNodes = 2
  SigChoices = {TRUE}
  ReapChunk = 1
  ReapBatch = 1
  SilentWhenStale = TRUE
  SerialDaemons = TRUE

SPECIFICATION DirectoryFairSpec
PROPERTY
  StaleEventuallyReaped
