SPECIFICATION Spec
CONSTANTS
  Incarnation <- TwoWorkers
  Metrics = {"m"}
  InitialBranches = 1
  PlannedTrials = 3
  MaxAttempts = 1
  RetryPolicy = "FRESH_ATTEMPT_SAME_TRIAL"
  PartialFailurePolicy = "TOLERATE_IF_EVIDENCE_SUFFICIENT"
  LateEvidencePolicy = "REJECT_AND_RECORD"
  MaxConcurrent = 2
  MinCompletedTrials = 1
  AttemptsLimit = 2
  MaxObservations = 1
  MaxObsPerTrial = 4
  MaxArtifactsPerAttempt = 0
  MaxArtifacts = 0
  MaxBranches = 1
  MaxTrialsPerBranch = 4
  MaxDecisions = 1
  MaxWorkers = 8
  RejectedCap = 0
  EpochSeed = 0
  MaxTrialId = 3
  MaxBranchId = 3
  MaxGeneration = 1
  MaxRollbackPoints = 0
  MaxCrashes = 0
  MaxFaults = 0
  MaxArtifactRequest = 0
  WithServer = FALSE
INVARIANTS
  HeadRoomRespected
