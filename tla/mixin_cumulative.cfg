SPECIFICATION Spec
CONSTANTS
  Texts = {"yes", "pair", "odd"}
  Words <- MCWords
  Parsed <- MCParsed
  Lead <- MCLead
  Delivery = "websocket"
  Timestamps = "cumulative"
  Unkeyable = {}
  MayFail = FALSE
  MaxContexts = 2
  MaxRequests = 4
  TicksPerSample = 1
  CutEarly = {}
  CutLate = {}
  NoEntry = NoEntry
INVARIANTS
  TypeOK
  CapturePure
  NoOrphanCapture
  SpokenExact
  StampsPointAtWords
  CaptureConserved
