CONSTANTS
  Primary = primary
  Standbys = {b1}
  Pairs = {}
  MaxVer = 0
  MaxTerm = 1
  MaxEvents = 2
  PromoteMidApply = FALSE
SPECIFICATION ReplicationSpec
PROPERTY
  TermMonotonic
