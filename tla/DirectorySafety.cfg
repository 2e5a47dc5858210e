\* Three keys and an owner compete for two ids and two names, with a register and
\* two rotations in flight; the reaper deletes one node per section.
CONSTANTS
  MaxNodeID = 2
  MaxNetID = 1
  Keys = {k1, k2, k3}
  Owners = {o1}
  Hostnames = {h1, h2}
  NetNames = {}
  None = None
  HasWAL = FALSE
  WALCap = 0
  Clients = {c1}
  Rotators = {r1, r2}
  MaxNodes = 0
  SigChoices = {TRUE}
  ReapChunk = 2
  ReapBatch = 1
  SilentWhenStale = TRUE
  SerialDaemons = TRUE
SYMMETRY NameSymmetry
SPECIFICATION DirectorySpec
INVARIANTS
  DirectoryTypeOK
  HostnameIndexExact
  BackboneExact
  
  NextIDUnused

  
