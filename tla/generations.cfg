SPECIFICATION Spec
CONSTANTS
  Incarnation <- OneIncarnation
  Metrics = {"m"}
  InitialBranches = 1
  PlannedTrials = 1
  MaxAttempts = 1
  RetryPolicy = "FRESH_ATTEMPT_SAME_TRIAL"
  PartialFailurePolicy = "INVALIDATE_BRANCH"
  LateEvidencePolicy = "RETAIN_HISTORICAL"
  MaxConcurrent = 1
  MinCompletedTrials = 1
  AttemptsLimit = 2
  MaxObservations = 1
  MaxObsPerTrial = 4
  MaxArtifactsPerAttempt = 0
  MaxArtifacts = 0
  MaxBranches = 2
  MaxTrialsPerBranch = 4
  MaxDecisions = 2
  MaxWorkers = 8
  RejectedCap = 0
  EpochSeed = 0
  MaxTrialId = 1
  MaxBranchId = 2
  MaxGeneration = 2
  MaxRollbackPoints = 3
  MaxCrashes = 0
  MaxFaults = 0
  MaxArtifactRequest = 0
  WithServer = FALSE
INVARIANTS
  NoStaleOpenTrial
