SPECIFICATION Spec
CONSTANTS
  TicksPerSample = 2
  CutEarly = {2, 6}
  CutLate = {3}
  MaxTasks = 3
  MaxWords = 2
  MaxStamps = 3
  MaxSamples = 3
INVARIANTS
  MatchesReference
  StampsFollowTheirTask
