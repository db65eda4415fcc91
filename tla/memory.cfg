SPECIFICATION Spec
CONSTANTS
  Keys <- MCKeys
  Namespaces <- MCNamespaces
  Values = {v, w}
  NoEntry = NoEntry
  MaxSize = 2
  Ttls <- MCTtls
  MaxTime = 2
  MaxUses = 5
INVARIANTS
  TypeOK
  WithinCapacity
  OrderedByUse
  LruGuarantee
PROPERTIES
  GetReturnsLastSet
  ImplementsContract
