CONSTANTS
  Primary = primary
  Standbys = {b1}
  Pairs = {p1}
  MaxVer = 2
  MaxTerm = 1
  MaxEvents = 3
  PromoteMidApply = FALSE
SPECIFICATION ScopedSpec
INVARIANTS
  PushComplete

  
  
