SPECIFICATION Spec
CONSTANTS
  Incarnation <- OneWorkerTwoBoots
  Metrics = {"m"}
  InitialBranches = 1
  PlannedTrials = 1
  MaxAttempts = 2
  RetryPolicy = "FRESH_ATTEMPT_SAME_TRIAL"
  PartialFailurePolicy = "TOLERATE_IF_EVIDENCE_SUFFICIENT"
  LateEvidencePolicy = "REJECT_AND_RECORD"
  MaxConcurrent = 1
  MinCompletedTrials = 1
  AttemptsLimit = 2
  MaxObservations = 4
  MaxObsPerTrial = 4
  MaxArtifactsPerAttempt = 0
  MaxArtifacts = 0
  MaxBranches = 1
  MaxTrialsPerBranch = 4
  MaxDecisions = 0
  MaxWorkers = 8
  RejectedCap = 0
  EpochSeed = 0
  MaxTrialId = 1
  MaxBranchId = 3
  MaxGeneration = 1
  MaxRollbackPoints = 0
  MaxCrashes = 0
  MaxFaults = 0
  MaxArtifactRequest = 0
  WithServer = FALSE
INVARIANTS
  ObservationsLoadable
