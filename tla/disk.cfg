SPECIFICATION Spec
CONSTANTS
  inside = inside
  outside = outside
  Keys = {inside, outside}
  Values = {v, u}
  NoEntry = NoEntry
  NoFile = NoFile
  Damaged = Damaged
  Undecodable = Undecodable
  Free = Free
  Namespaces = {"bot"}
  Prefixed <- MCPrefixed
  Workers = {w1, w2}
  Instances = {p, q}
  Homes <- MCHomes
  Ttls <- MCTtls
  MaxTime = 2
  MaxExpiry = 1
  MaxGets = 1
SYMMETRY MCSymmetry
INVARIANTS
  TypeOK
  DurableEntries
  CountsExact
  LocksOwned
PROPERTIES
  GetsSeeWholeEntries
  ClearLeavesNothingOld
  ImplementsContract
