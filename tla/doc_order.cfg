SPECIFICATION Spec
CONSTANTS
  Texts = {"yes", "pair"}
  Words <- MCWords
  Parsed <- MCParsed
  Lead <- MCLead
  Delivery = "websocket"
  Timestamps = "cumulative"
  Unkeyable = {}
  MayFail = FALSE
  MaxContexts = 2
  MaxRequests = 3
  TicksPerSample = 1
  CutEarly = {}
  CutLate = {}
  NoEntry = NoEntry
INVARIANTS
  PlayedInRequestOrder
