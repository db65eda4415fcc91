SPECIFICATION FairSpec
CONSTANTS
  Texts = {"pair", "odd"}
  Words <- MCWords
  Parsed <- MCParsed
  Lead <- MCLead
  Delivery = "websocket"
  Timestamps = "cumulative"
  Unkeyable = {"odd"}
  MayFail = TRUE
  MaxContexts = 2
  MaxRequests = 3
  TicksPerSample = 1
  CutEarly = {}
  CutLate = {}
  NoEntry = NoEntry
INVARIANTS
  NoOrphanCapture
  SpokenExact
PROPERTIES
  TurnsDrain
  CapturesReleased
