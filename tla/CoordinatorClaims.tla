--------------------------- MODULE CoordinatorClaims ---------------------------
(***************************************************************************)
(* Statements that the documentation, the comments and the tests of the    *)
(* program make about the coordinator and that module Coordinator, which   *)
(* follows the code, does not satisfy.  TLC answers each of them with a    *)
(* history of calls the code allows.                                       *)
(***************************************************************************)
EXTENDS Coordinator

\* The observations on disk can be loaded.  README: uniqueness is scoped to the
\* producing attempt, and what an abandoned attempt left behind is retained as
\* history; CoordinatorState::validate counts per trial.
ObservationsLoadable == ObservationReferencesOK(disk) /\ ObservationsUnique(disk)

\* The decisions on disk can be loaded: lineage spans the decisions and remains
\* queryable after restart (README, "Lineage").
DecisionsLoadable == ValidDecisions(disk)

\* The rollback points on disk can be loaded: rollback records a new authoritative
\* point and preserves the history (README, "Lineage").
RollbackPointsLoadable == ValidRollbackPoints(disk)

\* Epochs strictly increase across restarts (README, "Persistence and recovery"; the
\* comment in Coordinator::create).
EpochsIncrease == [][phase = "down" /\ phase' # "down" => epoch' > epoch]_vars

\* Trials and attempts are served as they are on disk: a mutation is never observable
\* in memory before it is durable (coordinator_internal.hpp, persist_locked).
MemoryIsDurable == phase = "up" => state.trials = disk.trials /\ state.attempts = disk.attempts

\* Artifacts are served as they are on disk: a mutation is never observable in memory
\* before it is durable (coordinator_internal.hpp, persist_locked).
ArtifactsAreDurable == phase = "up" => state.artifacts = disk.artifacts

\* Every transition of a trial is validated (README, "Experiment state model"): a step that
\* changes the state of a trial follows the table of is_valid_transition.
TrialsFollowTable ==
  [][phase' # "down" =>
       \A t \in DOMAIN state.trials \cap DOMAIN state'.trials :
         state'.trials[t].state = state.trials[t].state
           \/ state'.trials[t].state \in TrialSuccessors(state.trials[t].state)]_vars

\* The same of the experiment: a cancelled one may only be superseded.
CancelledStaysCancelled ==
  [][phase = "up" /\ phase' = "up" /\ state.exp = "CANCELLED" =>
       state'.exp = state.exp \/ state'.exp \in ExperimentSuccessors("CANCELLED")]_vars

\* Recovery moves a trial to READY for re-execution, or to FAILED when no retry
\* remains (README, "Persistence and recovery"): a READY trial of an open experiment
\* and an active branch can be claimed.
ReadyTrialsCanRun ==
  phase = "up" /\ is_experiment_mutable(state.exp) =>
    \A t \in DOMAIN state.trials :
      state.trials[t].state = "READY"
        /\ is_branch_eligible(state.branches[state.trials[t].branch].state) => t \in Claimable

\* Rollback restores authority, not evidence: the restored generation holds no
\* current authoritative evidence until it is executed again (test_rollback.cpp).
RollbackRestoresNoEvidence ==
  [][phase = "up" /\ phase' = "up" /\ state.exp = "FINALIZED" /\ state'.exp = "OPEN" =>
       \A b \in DOMAIN state'.branches : authoritative_trials(state', b) = {}]_vars

\* A retired branch is reactivated in a new generation (README, "Hypothesis, branch and trial
\* model").
ReactivatedInNewGeneration ==
  [][phase = "up" /\ phase' = "up" =>
       \A b \in DOMAIN state.branches :
         state.branches[b].state = "RETIRED" /\ state'.branches[b].state = "ACTIVE" =>
           state'.branches[b].generation > state.branches[b].generation]_vars

\* NEW_TRIAL_IDENTITY: a retry allocates a new logical trial (domain.hpp), so that no
\* trial has a second attempt.
RetryTakesNewTrial ==
  RetryPolicy = "NEW_TRIAL_IDENTITY" => \A t \in DOMAIN state.trials : state.trials[t].attempt_count <= 1

\* INVALIDATE_BRANCH: any terminal failure makes the branch undecidable (domain.hpp).
FailureInvalidatesBranch ==
  PartialFailurePolicy = "INVALIDATE_BRANCH" =>
    \A t \in DOMAIN state.trials : state.trials[t].state = "FAILED" =>
      ~is_branch_eligible(state.branches[state.trials[t].branch].state)
=============================================================================
