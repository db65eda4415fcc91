SPECIFICATION Spec
CONSTANTS
  Texts = {"yes", "pair"}
  Words <- MCWords
  Parsed <- MCParsed
  Lead <- MCLead
  Delivery = "http"
  Timestamps = "none"
  Unkeyable = {}
  MayFail = TRUE
  MaxContexts = 2
  MaxRequests = 4
  TicksPerSample = 1
  CutEarly = {}
  CutLate = {}
  NoEntry = NoEntry
INVARIANTS
  PlayedInRequestOrder
  SpokenExact
  OwnSpeechOnly
  CaptureConserved
