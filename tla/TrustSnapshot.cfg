\* Three nodes, two pairs, a flush and a push to the standby at the same time.
CONSTANTS
  Nodes = {1, 2, 3}
  Handlers = {h1}
  Pushers = {push}
  SavedPairs = {{1, 2}, {1, 3}}
  MaxInbox = 1
  MaxCalls = 1
SPECIFICATION TrustSpec
INVARIANT
  SnapshotOwnsPairs
CHECK_DEADLOCK FALSE
