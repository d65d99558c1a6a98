SPECIFICATION MCSpec
CONSTANTS
  None = None
  w1 = w1
  w2 = w2
  Workers = {w1, w2}
  Usual = w1
  MaxBoots = 5
  MaxTrial = 2
  MaxAttempts = 2
  Concurrency = 2
  MaxRegistered = 6
  MaxObservations = 1
  MaxFaults = 1
  MaxSpare = 1
INVARIANTS
  OneResult
  PublishedIsCompleted
  NothingForgotten
  OpenIsLive
PROPERTIES
  RunsEnd
  TrialsEnd
CHECK_DEADLOCK FALSE
