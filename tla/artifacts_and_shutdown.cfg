SPECIFICATION Spec
CONSTANTS
  Incarnation <- OneWorkerTwoBoots
  Metrics = {"m"}
  InitialBranches = 1
  PlannedTrials = 1
  MaxAttempts = 2
  RetryPolicy = "NO_RETRY"
  PartialFailurePolicy = "TOLERATE_IF_EVIDENCE_SUFFICIENT"
  LateEvidencePolicy = "REJECT_AND_RECORD"
  MaxConcurrent = 1
  MinCompletedTrials = 1
  AttemptsLimit = 2
  MaxObservations = 2
  MaxObsPerTrial = 4
  MaxArtifactsPerAttempt = 2
  MaxArtifacts = 2
  MaxBranches = 1
  MaxTrialsPerBranch = 4
  MaxDecisions = 0
  MaxWorkers = 8
  RejectedCap = 1
  EpochSeed = 0
  MaxTrialId = 1
  MaxBranchId = 3
  MaxGeneration = 1
  MaxRollbackPoints = 0
  MaxCrashes = 1
  MaxFaults = 1
  MaxArtifactRequest = 2
  WithServer = TRUE
INVARIANTS
  ImageLoadable
  AttemptsWithinBudget
PROPERTIES
  ShutdownFencesWork
