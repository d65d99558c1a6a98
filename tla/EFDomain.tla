------------------------------ MODULE EFDomain ------------------------------
(***************************************************************************)
(* The lifecycles of Experiment Fabric: the states of an experiment, of a  *)
(* branch, of a logical trial and of an attempt, and for each of them the  *)
(* transition table that is_valid_transition gives.                        *)
(*                                                                         *)
(* The tables are what the program documents.  Whether the coordinator     *)
(* keeps to them is a question the runs of module Coordinator answer.      *)
(***************************************************************************)

\* TrialState
TrialStates ==
  {"CREATED", "READY", "ASSIGNED", "RUNNING", "OBSERVING", "COMPLETED",
   "FAILED", "CANCELLED", "INVALID", "SUPERSEDED", "REVALIDATION_REQUIRED"}

\* AttemptState
AttemptStates ==
  {"ISSUED", "RUNNING", "PUBLISHED", "COMPLETED", "FAILED", "CANCELLED",
   "ABANDONED", "REVALIDATION_REQUIRED"}

\* ExperimentState
ExperimentStates == {"OPEN", "FINALIZED", "CANCELLED", "SUPERSEDED", "RECOVERING"}

\* BranchState
BranchStates == {"ACTIVE", "RETIRED", "INVALID", "SUPERSEDED"}

\* DecisionOutcome
DecisionOutcomes ==
  {"ACCEPT", "REJECT", "INCONCLUSIVE", "INSUFFICIENT_EVIDENCE", "INVALID",
   "CANCELLED", "SUPERSEDED"}

RetryPolicies == {"FRESH_ATTEMPT_SAME_TRIAL", "NEW_TRIAL_IDENTITY", "NO_RETRY"}
PartialFailurePolicies ==
  {"TOLERATE_IF_EVIDENCE_SUFFICIENT", "INVALIDATE_BRANCH", "RETRY_ALLOWED"}
LateEvidencePolicies == {"REJECT_AND_RECORD", "RETAIN_HISTORICAL"}

-----------------------------------------------------------------------------

is_terminal(st) == st \in {"COMPLETED", "FAILED", "CANCELLED", "INVALID", "SUPERSEDED"}

is_attempt_terminal(st) == st \in {"COMPLETED", "FAILED", "CANCELLED", "ABANDONED"}

is_experiment_mutable(st) == st = "OPEN"

is_branch_eligible(st) == st = "ACTIVE"

-----------------------------------------------------------------------------
(***************************************************************************)
(* The transition tables.  A table gives, for every state, the states that *)
(* may follow it; no table allows a state to follow itself.                *)
(***************************************************************************)

\* What every live trial may move to, besides the moves of its own state.
TrialExits == {"CANCELLED", "INVALID", "SUPERSEDED"}

TrialSuccessors(from) ==
  CASE from \in {"COMPLETED", "FAILED", "CANCELLED", "INVALID"} -> {"SUPERSEDED"}
    [] from = "SUPERSEDED" -> {}
    [] from = "CREATED" -> {"READY", "REVALIDATION_REQUIRED"} \cup TrialExits
    [] from = "READY" -> {"ASSIGNED", "REVALIDATION_REQUIRED"} \cup TrialExits
    [] from = "ASSIGNED" -> {"RUNNING", "OBSERVING", "READY", "FAILED",
                             "REVALIDATION_REQUIRED"} \cup TrialExits
    [] from = "RUNNING" -> {"OBSERVING", "FAILED", "REVALIDATION_REQUIRED"} \cup TrialExits
    [] from = "OBSERVING" -> {"COMPLETED", "FAILED", "REVALIDATION_REQUIRED"} \cup TrialExits
    [] from = "REVALIDATION_REQUIRED" -> {"READY", "FAILED"} \cup TrialExits

AttemptExits == {"FAILED", "CANCELLED", "ABANDONED"}

AttemptSuccessors(from) ==
  CASE from \in {"COMPLETED", "FAILED", "CANCELLED", "ABANDONED"} -> {}
    [] from = "ISSUED" -> {"RUNNING", "PUBLISHED", "COMPLETED",
                           "REVALIDATION_REQUIRED"} \cup AttemptExits
    [] from = "RUNNING" -> {"PUBLISHED", "COMPLETED",
                            "REVALIDATION_REQUIRED"} \cup AttemptExits
    [] from = "PUBLISHED" -> {"COMPLETED", "REVALIDATION_REQUIRED"} \cup AttemptExits
    [] from = "REVALIDATION_REQUIRED" -> AttemptExits

ExperimentSuccessors(from) ==
  CASE from = "OPEN" -> {"FINALIZED", "CANCELLED", "SUPERSEDED", "RECOVERING"}
    [] from = "RECOVERING" -> {"OPEN", "CANCELLED", "SUPERSEDED"}
    [] from \in {"FINALIZED", "CANCELLED"} -> {"SUPERSEDED"}
    [] from = "SUPERSEDED" -> {}

BranchSuccessors(from) ==
  CASE from = "ACTIVE" -> {"RETIRED", "INVALID", "SUPERSEDED"}
    [] from = "RETIRED" -> {"ACTIVE", "SUPERSEDED"}
    [] from = "INVALID" -> {"SUPERSEDED"}
    [] from = "SUPERSEDED" -> {}
=============================================================================
