\* A stale node may still be renamed while a reaper pass is under way.
CONSTANTS
  MaxNodeID = 2
  MaxNetID = 1
  Keys = {k1, k2}
  Owners = {}
  Hostnames = {h1, h2}
  NetNames = {}
  None = None
  HasWAL = FALSE
  WALCap = 0
  Clients = {c1}
  Rotators = {}
  MaxNodes = 0
  SigChoices = {TRUE}
  ReapChunk = 2
  ReapBatch = 1
  SilentWhenStale = FALSE
  SerialDaemons = TRUE
SYMMETRY NameSymmetry
SPECIFICATION DirectorySpec
INVARIANT
  HostnamesUnique
