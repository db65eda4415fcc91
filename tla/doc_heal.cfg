SPECIFICATION Spec
CONSTANTS
  inside = inside
  outside = outside
  Keys = {inside, outside}
  Values = {v}
  NoEntry = NoEntry
  Bad = Bad
  NoExpiry = NoExpiry
  Namespaces = {"bot"}
  Matched <- MCMatched
  Ttls <- MCTtls
  Callers = {w1, w2}
PROPERTIES
  HealsOnlyBad
