----------------------------- MODULE RecordCodecs -----------------------------
(***************************************************************************)
(* The codecs of the records of the model, shared by transport and         *)
(* persistence: for each record the layout that write_ writes and the one  *)
(* that read_ reads, transcribed each from its own function.               *)
(***************************************************************************)
EXTENDS WireFormat

kMaxTrialState == 10
kMaxExperimentState == 4
kMaxBranchState == 3
kMaxAttemptState == 7
kMaxBranchRole == 1
kMaxMetricKind == 3
kMaxMetricDirection == 3
kMaxAggregationRule == 6
kMaxObservationValidity == 3
kMaxComparisonOp == 6
kMaxDecisionOutcome == 6
kMaxFailureKind == 10
kMaxSeedPolicy == 3
kMaxRetryPolicy == 2
kMaxPartialFailurePolicy == 2
kMaxLateEvidencePolicy == 1
kMaxParameterKind == 3

-----------------------------------------------------------------------------
write_parameters ==
  <<vector("parameters", 4096, <<text("key", 128), enum("kind", kMaxParameterKind), text("value", 4096)>>)>>

read_parameters ==
  <<vector("parameters", 4096, <<text("key", 128), enum("kind", kMaxParameterKind), text("value", 4096)>>)>>

write_metric_value ==
  <<enum("kind", kMaxMetricKind), real("real"), integer("integer"), boolean("boolean"), text("category", 128)>>

read_metric_value ==
  <<enum("kind", kMaxMetricKind), real("real"), integer("integer"), boolean("boolean"), text("category", 128)>>

write_envelope ==
  All(id, <<"epoch", "experiment", "generation", "hypothesis", "hypothesis_revision", "policy",
            "policy_generation", "branch", "branch_generation", "trial", "attempt", "worker", "boot",
            "producer">>)

read_envelope ==
  All(id, <<"epoch", "experiment", "generation", "hypothesis", "hypothesis_revision", "policy",
            "policy_generation", "branch", "branch_generation", "trial", "attempt", "worker", "boot",
            "producer">>)

write_observation ==
  All(id, <<"id", "experiment", "generation", "branch", "branch_generation", "trial", "attempt", "metric",
            "producer", "worker", "boot", "epoch">>)
    \o <<enum("validity", kMaxObservationValidity), record("value", write_metric_value),
         text("detail", 512), u64("sequence")>>

\* read_observation with a mistake: worker and boot change places.
read_observation_swapped ==
  All(id, <<"id", "experiment", "generation", "branch", "branch_generation", "trial", "attempt", "metric",
            "producer", "boot", "worker", "epoch">>)
    \o <<enum("validity", kMaxObservationValidity), record("value", read_metric_value),
         text("detail", 512), u64("sequence")>>

read_observation ==
  All(id, <<"id", "experiment", "generation", "branch", "branch_generation", "trial", "attempt", "metric",
            "producer", "worker", "boot", "epoch">>)
    \o <<enum("validity", kMaxObservationValidity), record("value", read_metric_value),
         text("detail", 512), u64("sequence")>>

write_artifact ==
  All(id, <<"id", "experiment", "generation", "branch", "trial", "attempt">>)
    \o <<text("category", 128), text("locator", 1024), digest("content_digest"),
         boolean("digest_present"), boolean("size_present"), u64("size_bytes"),
         text("provenance", 512), boolean("current"), u64("sequence")>>

read_artifact ==
  All(id, <<"id", "experiment", "generation", "branch", "trial", "attempt">>)
    \o <<text("category", 128), text("locator", 1024), digest("content_digest"),
         boolean("digest_present"), boolean("size_present"), u64("size_bytes"),
         text("provenance", 512), boolean("current"), u64("sequence")>>

write_metric_definition ==
  <<id("id"), text("name", 128), text("unit", 32), enum("kind", kMaxMetricKind),
    enum("direction", kMaxMetricDirection), enum("aggregation", kMaxAggregationRule),
    boolean("required"), boolean("accepts_non_finite"),
    optional(real("lower_bound")), optional(real("upper_bound")),
    optional(real("target_low")), optional(real("target_high")),
    u32("weight"), u32("priority"), vector("categories", 256, <<text("category", 128)>>)>>

read_metric_definition ==
  <<id("id"), text("name", 128), text("unit", 32), enum("kind", kMaxMetricKind),
    enum("direction", kMaxMetricDirection), enum("aggregation", kMaxAggregationRule),
    boolean("required"), boolean("accepts_non_finite"),
    optional(real("lower_bound")), optional(real("upper_bound")),
    optional(real("target_low")), optional(real("target_high")),
    u32("weight"), u32("priority"), vector("categories", 256, <<text("category", 128)>>)>>

write_comparison_rule ==
  <<id("metric"), enum("op", kMaxComparisonOp)>>
    \o All(real, <<"threshold", "target_low", "target_high">>) \o <<u32("priority")>>

read_comparison_rule ==
  <<id("metric"), enum("op", kMaxComparisonOp)>>
    \o All(real, <<"threshold", "target_low", "target_high">>) \o <<u32("priority")>>

write_comparison_policy ==
  <<id("id"), id("generation"), boolean("require_baseline"), u32("min_completed_trials_per_branch"),
    u32("min_valid_observations_per_required_metric"), boolean("reject_on_any_invalid_observation"),
    boolean("require_environment_match"), u32("majority_wins_min_basis_points"),
    boolean("use_weighted_score"), real("accept_score_threshold"),
    vector("rules", 256, write_comparison_rule)>>

read_comparison_policy ==
  <<id("id"), id("generation"), boolean("require_baseline"), u32("min_completed_trials_per_branch"),
    u32("min_valid_observations_per_required_metric"), boolean("reject_on_any_invalid_observation"),
    boolean("require_environment_match"), u32("majority_wins_min_basis_points"),
    boolean("use_weighted_score"), real("accept_score_threshold"),
    vector("rules", 256, read_comparison_rule)>>

write_branch_definition ==
  <<id("id"), text("name", 128), enum("role", kMaxBranchRole), id("parent"), id("generation"),
    enum("state", kMaxBranchState)>> \o write_parameters
    \o <<id("input_set"), boolean("input_set_present"), id("environment"), boolean("environment_present"),
         text("environment_fingerprint", 512), optional(u64("seed")), u32("planned_trials"),
         u64("created_sequence"), boolean("forked")>>

read_branch_definition ==
  <<id("id"), text("name", 128), enum("role", kMaxBranchRole), id("parent"), id("generation"),
    enum("state", kMaxBranchState)>> \o read_parameters
    \o <<id("input_set"), boolean("input_set_present"), id("environment"), boolean("environment_present"),
         text("environment_fingerprint", 512), optional(u64("seed")), u32("planned_trials"),
         u64("created_sequence"), boolean("forked")>>

write_experiment_definition ==
  All(id, <<"id", "generation", "hypothesis", "hypothesis_revision">>)
    \o <<text("name", 128), vector("branches", 256, write_branch_definition),
         vector("metrics", 128, write_metric_definition), record("policy", write_comparison_policy),
         enum("seed_policy", kMaxSeedPolicy), optional(u64("experiment_seed")),
         enum("retry_policy", kMaxRetryPolicy), u32("max_attempts_per_trial"),
         enum("partial_failure_policy", kMaxPartialFailurePolicy),
         enum("late_evidence_policy", kMaxLateEvidencePolicy)>>
    \o write_parameters \o <<text("provenance", 1024), u64("created_sequence")>>

read_experiment_definition ==
  All(id, <<"id", "generation", "hypothesis", "hypothesis_revision">>)
    \o <<text("name", 128), vector("branches", 256, read_branch_definition),
         vector("metrics", 128, read_metric_definition), record("policy", read_comparison_policy),
         enum("seed_policy", kMaxSeedPolicy), optional(u64("experiment_seed")),
         enum("retry_policy", kMaxRetryPolicy), u32("max_attempts_per_trial"),
         enum("partial_failure_policy", kMaxPartialFailurePolicy),
         enum("late_evidence_policy", kMaxLateEvidencePolicy)>>
    \o read_parameters \o <<text("provenance", 1024), u64("created_sequence")>>

write_hypothesis ==
  <<id("id"), id("revision"), text("statement", 4096),
    optional(enum("expected_direction", kMaxMetricDirection)), id("expected_metric"), id("parent"),
    id("parent_revision"), boolean("superseded"), id("superseded_by_revision"),
    text("provenance", 1024), u64("created_sequence")>>

read_hypothesis ==
  <<id("id"), id("revision"), text("statement", 4096),
    optional(enum("expected_direction", kMaxMetricDirection)), id("expected_metric"), id("parent"),
    id("parent_revision"), boolean("superseded"), id("superseded_by_revision"),
    text("provenance", 1024), u64("created_sequence")>>

write_trial ==
  All(id, <<"id", "experiment", "generation", "branch", "branch_generation", "hypothesis",
            "hypothesis_revision", "policy", "policy_generation">>)
    \o <<enum("state", kMaxTrialState), id("authoritative_attempt"), id("next_attempt_number"),
         u32("attempt_count"), u32("committed_attempts"), enum("failure_kind", kMaxFailureKind),
         text("failure_detail", 512), optional(u64("seed")), id("input_set"),
         boolean("input_set_present"), id("environment"), boolean("environment_present"),
         text("environment_fingerprint", 512), vector("artifacts", 256, <<id("artifact")>>),
         text("payload", 4096), u64("created_sequence"), u64("updated_sequence")>>

read_trial ==
  All(id, <<"id", "experiment", "generation", "branch", "branch_generation", "hypothesis",
            "hypothesis_revision", "policy", "policy_generation">>)
    \o <<enum("state", kMaxTrialState), id("authoritative_attempt"), id("next_attempt_number"),
         u32("attempt_count"), u32("committed_attempts"), enum("failure_kind", kMaxFailureKind),
         text("failure_detail", 512), optional(u64("seed")), id("input_set"),
         boolean("input_set_present"), id("environment"), boolean("environment_present"),
         text("environment_fingerprint", 512), vector("artifacts", 256, <<id("artifact")>>),
         text("payload", 4096), u64("created_sequence"), u64("updated_sequence")>>

write_attempt ==
  All(id, <<"id", "number", "trial", "experiment", "generation", "branch", "branch_generation",
            "worker", "boot", "epoch", "producer">>)
    \o <<enum("state", kMaxAttemptState), enum("failure_kind", kMaxFailureKind),
         text("failure_detail", 512), boolean("committed"), u64("issued_sequence"),
         u64("updated_sequence")>>

read_attempt ==
  All(id, <<"id", "number", "trial", "experiment", "generation", "branch", "branch_generation",
            "worker", "boot", "epoch", "producer">>)
    \o <<enum("state", kMaxAttemptState), enum("failure_kind", kMaxFailureKind),
         text("failure_detail", 512), boolean("committed"), u64("issued_sequence"),
         u64("updated_sequence")>>

write_aggregate ==
  <<id("metric"), enum("rule", kMaxAggregationRule), boolean("present"), real("value"),
    text("category", 128)>>
    \o All(u32, <<"valid_count", "invalid_count", "missing_count", "unsupported_count">>)
    \o <<vector("raw_values", 4096, <<real("raw")>>), vector("trial_order", 4096, <<text("trial", 64)>>)>>

read_aggregate ==
  <<id("metric"), enum("rule", kMaxAggregationRule), boolean("present"), real("value"),
    text("category", 128)>>
    \o All(u32, <<"valid_count", "invalid_count", "missing_count", "unsupported_count">>)
    \o <<vector("raw_values", 4096, <<real("raw")>>), vector("trial_order", 4096, <<text("trial", 64)>>)>>

write_branch_evidence ==
  <<id("branch"), id("generation"), enum("role", kMaxBranchRole), enum("state", kMaxBranchState)>>
    \o All(u32, <<"planned_trials", "completed_trials", "failed_trials", "cancelled_trials",
                  "invalid_trials", "superseded_trials", "open_trials">>)
    \o <<vector("aggregates", 128, write_aggregate)>>

read_branch_evidence ==
  <<id("branch"), id("generation"), enum("role", kMaxBranchRole), enum("state", kMaxBranchState)>>
    \o All(u32, <<"planned_trials", "completed_trials", "failed_trials", "cancelled_trials",
                  "invalid_trials", "superseded_trials", "open_trials">>)
    \o <<vector("aggregates", 128, read_aggregate)>>

write_factor ==
  <<id("metric"), enum("op", kMaxComparisonOp), u32("priority"), real("threshold"), boolean("has_values")>>
    \o All(real, <<"baseline_value", "candidate_value", "delta">>)
    \o <<boolean("satisfied"), boolean("decisive"), text("detail", 512)>>

read_factor ==
  <<id("metric"), enum("op", kMaxComparisonOp), u32("priority"), real("threshold"), boolean("has_values")>>
    \o All(real, <<"baseline_value", "candidate_value", "delta">>)
    \o <<boolean("satisfied"), boolean("decisive"), text("detail", 512)>>

write_rejected_evidence ==
  <<text("kind", 64), u64("identifier"), u8("reason"), text("detail", 512)>>

read_rejected_evidence ==
  <<text("kind", 64), u64("identifier"), u8("reason"), text("detail", 512)>>

write_decision ==
  All(id, <<"id", "experiment", "generation", "hypothesis", "hypothesis_revision", "policy",
            "policy_generation">>)
    \o <<vector("compared_branches", 256, <<id("branch")>>), id("baseline"), boolean("baseline_present"),
         id("candidate"), enum("outcome", kMaxDecisionOutcome), enum("reason_kind", kMaxFailureKind),
         text("reason", 4096),
         vector("constraints", 512, <<text("name", 128), boolean("passed"), text("detail", 512)>>),
         vector("factors", 512, write_factor), vector("evidence", 256, write_branch_evidence),
         vector("rejected_evidence", 4096,
                <<text("kind", 64), u64("identifier"), u8("reason"), text("detail", 512)>>),
         text("tie_break_rule", 256), boolean("tied"), digest("canonical_state_digest"),
         u64("sequence")>>

read_decision ==
  All(id, <<"id", "experiment", "generation", "hypothesis", "hypothesis_revision", "policy",
            "policy_generation">>)
    \o <<vector("compared_branches", 256, <<id("branch")>>), id("baseline"), boolean("baseline_present"),
         id("candidate"), enum("outcome", kMaxDecisionOutcome), enum("reason_kind", kMaxFailureKind),
         text("reason", 4096),
         vector("constraints", 512, <<text("name", 128), boolean("passed"), text("detail", 512)>>),
         vector("factors", 512, read_factor), vector("evidence", 256, read_branch_evidence),
         vector("rejected_evidence", 4096,
                <<text("kind", 64), u64("identifier"), u8("reason"), text("detail", 512)>>),
         text("tie_break_rule", 256), boolean("tied"), digest("canonical_state_digest"),
         u64("sequence")>>

write_rollback_point ==
  All(id, <<"id", "experiment", "generation", "restored_from", "decision">>)
    \o <<boolean("decision_present"), digest("state_digest"),
         vector("authority", 256, <<id("branch"), id("generation"), enum("state", kMaxBranchState)>>),
         u64("sequence")>>

read_rollback_point ==
  All(id, <<"id", "experiment", "generation", "restored_from", "decision">>)
    \o <<boolean("decision_present"), digest("state_digest"),
         vector("authority", 256, <<id("branch"), id("generation"), enum("state", kMaxBranchState)>>),
         u64("sequence")>>

write_worker_incarnation ==
  All(id, <<"worker", "boot", "epoch", "producer">>)
    \o <<text("endpoint", 256), text("fingerprint", 512), u64("registered_sequence"),
         boolean("revoked"), enum("revocation_kind", kMaxFailureKind), u64("revoked_sequence")>>

read_worker_incarnation ==
  All(id, <<"worker", "boot", "epoch", "producer">>)
    \o <<text("endpoint", 256), text("fingerprint", 512), u64("registered_sequence"),
         boolean("revoked"), enum("revocation_kind", kMaxFailureKind), u64("revoked_sequence")>>

\* Trials and attempts are maps in memory, from the identity to the record.
write_experiment_record ==
  <<record("definition", write_experiment_definition), record("hypothesis", write_hypothesis),
    vector("hypothesis_history", 4096, write_hypothesis), enum("state", kMaxExperimentState),
    u64("revision_sequence"), u64("created_sequence"), map("trials", 4096, write_trial),
    map("attempts", 32768, write_attempt), vector("observations", 1048576, write_observation),
    vector("artifacts", 65536, write_artifact), vector("decisions", 1024, write_decision),
    vector("rollback_points", 1024, write_rollback_point),
    vector("rejected_evidence", 65536, write_rejected_evidence),
    vector("lifecycle_log", 65536, <<text("line", 512)>>)>>

read_experiment_record ==
  <<record("definition", read_experiment_definition), record("hypothesis", read_hypothesis),
    vector("hypothesis_history", 4096, read_hypothesis), enum("state", kMaxExperimentState),
    u64("revision_sequence"), u64("created_sequence"), map("trials", 4096, read_trial),
    map("attempts", 32768, read_attempt), vector("observations", 1048576, read_observation),
    vector("artifacts", 65536, read_artifact), vector("decisions", 1024, read_decision),
    vector("rollback_points", 1024, read_rollback_point),
    vector("rejected_evidence", 65536, read_rejected_evidence),
    vector("lifecycle_log", 65536, <<text("line", 512)>>)>>

Watermarks ==
  All(u64, <<"id_watermark_experiment", "id_watermark_hypothesis", "id_watermark_branch",
             "id_watermark_metric", "id_watermark_policy", "id_watermark_trial",
             "id_watermark_attempt", "id_watermark_observation", "id_watermark_artifact",
             "id_watermark_decision", "id_watermark_rollback">>)

write_coordinator_state ==
  <<u32("format_version"), u64("last_epoch"), u64("last_sequence"),
    vector("workers", 4096, write_worker_incarnation), u64("next_worker_registration_sequence")>>
    \o Watermarks
    \o <<map("experiments", 4194304, <<id("key"), record("record", write_experiment_record)>>)>>

read_coordinator_state ==
  <<u32("format_version"), u64("last_epoch"), u64("last_sequence"),
    vector("workers", 4096, read_worker_incarnation), u64("next_worker_registration_sequence")>>
    \o Watermarks
    \o <<map("experiments", 4194304, <<id("key"), record("record", read_experiment_record)>>)>>

-----------------------------------------------------------------------------
(***************************************************************************)
(* The records of a state image.  Each has a payload of its own, which     *)
(* must be read to its end.  save and load do not use the codec of the     *)
(* whole state above.                                                      *)
(***************************************************************************)
serialize ==
  [STATE_HEADER |->
     <<u32("format_version"), u64("last_epoch"), u64("last_sequence"),
       u64("next_worker_registration_sequence")>> \o Watermarks,
   WORKER |-> write_worker_incarnation,
   EXPERIMENT |-> <<id("experiment"), record("record", write_experiment_record)>>,
   WHOLE |-> write_coordinator_state]

deserialize ==
  [STATE_HEADER |->
     <<u32("format_version"), u64("last_epoch"), u64("last_sequence"),
       u64("next_worker_registration_sequence")>> \o Watermarks,
   WORKER |-> read_worker_incarnation,
   EXPERIMENT |-> <<identity("experiment"), record("record", read_experiment_record)>>,
   WHOLE |-> read_coordinator_state]
=============================================================================
