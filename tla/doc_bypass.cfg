SPECIFICATION Spec
CONSTANTS
  Texts = {"yes", "pair"}
  Words <- MCWords
  Parsed <- MCParsed
  Lead <- MCLead
  Delivery = "websocket"
  Timestamps = "cumulative"
  Unkeyable = {"pair"}
  MayFail = FALSE
  MaxContexts = 1
  MaxRequests = 3
  TicksPerSample = 1
  CutEarly = {}
  CutLate = {}
  NoEntry = NoEntry
INVARIANTS
  BypassedNeverCached
