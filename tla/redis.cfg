SPECIFICATION FairSpec
CONSTANTS
  inside = inside
  outside = outside
  Keys = {inside, outside}
  Values = {v, u}
  NoEntry = NoEntry
  Bad = Bad
  NoExpiry = NoExpiry
  Namespaces = {"bot"}
  Matched <- MCMatched
  Ttls <- MCTtls
  Callers = {w1, w2}
INVARIANTS
  TypeOK
  OneClient
PROPERTIES
  ClearRemovesOld
  ImplementsContract
  CallsEnd
