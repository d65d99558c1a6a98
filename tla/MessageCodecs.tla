---------------------------- MODULE MessageCodecs ----------------------------
(***************************************************************************)
(* The payloads of the messages: encode and decode_ of protocol.cpp, and   *)
(* what server and client do with each type.                               *)
(***************************************************************************)
EXTENDS RecordCodecs

kMaxErrorCode == 22
kMaxErrorStage == 13
kMaxQueryKind == 13

encode_Status ==
  <<enum("code", kMaxErrorCode), enum("stage", kMaxErrorStage), text("reason", 1024)>>

decode_status ==
  <<enum("code", kMaxErrorCode), enum("stage", kMaxErrorStage), text("reason", 1024)>>

\* A status inside another message: its length, then its bytes.
WrittenStatus == status("status", max_frame_payload_bytes, encode_Status)
ReadStatus == status("status", max_frame_payload_bytes, decode_status)

-----------------------------------------------------------------------------
encode_RegisterWorkerRequest ==
  All(id, <<"claimed_epoch", "worker", "boot", "producer">>)
    \o <<text("endpoint", 256), u32("max_concurrent_assignments"), text("fingerprint", 512)>>

decode_register_worker ==
  All(id, <<"claimed_epoch", "worker", "boot", "producer">>)
    \o <<text("endpoint", 256), u32("max_concurrent_assignments"), text("fingerprint", 512)>>

encode_RegisterWorkerReply ==
  All(id, <<"epoch", "boot", "producer">>) \o <<boolean("accepted"), WrittenStatus>>

decode_register_reply ==
  All(id, <<"epoch", "boot", "producer">>) \o <<boolean("accepted"), ReadStatus>>

encode_ClaimTrialRequest == All(id, <<"epoch", "worker", "boot">>) \o <<u32("max_claims")>>

decode_claim_trial == All(id, <<"epoch", "worker", "boot">>) \o <<u32("max_claims")>>

encode_ClaimTrialReply ==
  <<WrittenStatus,
    vector("assignments", max_batch_items,
      <<record("envelope", write_envelope), text("trial_payload", 4096)>> \o write_parameters
        \o <<id("attempt_number"),
             vector("metrics", 128,
               <<id("metric"), id("observation_id"), text("name", 128), enum("kind", kMaxMetricKind),
                 enum("direction", kMaxMetricDirection), boolean("required")>>),
             vector("artifact_ids", 256, <<id("artifact")>>), u32("planned_observations")>>)>>

decode_claim_reply ==
  <<ReadStatus,
    vector("assignments", max_batch_items,
      <<record("envelope", read_envelope), text("trial_payload", 4096)>> \o read_parameters
        \o <<id("attempt_number"),
             vector("metrics", 128,
               <<id("metric"), id("observation_id"), text("name", 128), enum("kind", kMaxMetricKind),
                 enum("direction", kMaxMetricDirection), boolean("required")>>),
             vector("artifact_ids", 256, <<id("artifact")>>), u32("planned_observations")>>)>>

encode_PublishObservationRequest ==
  All(id, <<"epoch", "worker", "boot">>) \o <<record("observation", write_observation)>>

decode_publish_observation ==
  All(id, <<"epoch", "worker", "boot">>) \o <<record("observation", read_observation)>>

encode_PublishArtifactRequest ==
  All(id, <<"epoch", "worker", "boot">>) \o <<record("artifact", write_artifact)>>

decode_publish_artifact ==
  All(id, <<"epoch", "worker", "boot">>) \o <<record("artifact", read_artifact)>>

encode_CommitTrialRequest ==
  All(id, <<"epoch", "worker", "boot">>)
    \o <<record("envelope", write_envelope), vector("artifacts", 256, write_artifact),
         text("result_payload", 4096)>>

decode_commit_trial ==
  All(id, <<"epoch", "worker", "boot">>)
    \o <<record("envelope", read_envelope), vector("artifacts", 256, read_artifact),
         text("result_payload", 4096)>>

encode_FailTrialRequest ==
  All(id, <<"epoch", "worker", "boot">>)
    \o <<record("envelope", write_envelope), enum("kind", kMaxFailureKind), text("detail", 512),
         boolean("retryable")>>

decode_fail_trial ==
  All(id, <<"epoch", "worker", "boot">>)
    \o <<record("envelope", read_envelope), enum("kind", kMaxFailureKind), text("detail", 512),
         boolean("retryable")>>

encode_CancelTrialRequest == <<id("trial"), text("reason", 512)>>

decode_cancel_trial == <<id("trial"), text("reason", 512)>>

encode_CancelExperimentRequest == <<id("experiment"), text("reason", 512)>>

decode_cancel_experiment == <<id("experiment"), text("reason", 512)>>

encode_FinalizeExperimentRequest == <<id("experiment"), id("candidate"), text("reason", 512)>>

decode_finalize_experiment == <<id("experiment"), id("candidate"), text("reason", 512)>>

encode_RollbackRequest == <<id("experiment"), id("target_generation"), text("reason", 512)>>

decode_rollback == <<id("experiment"), id("target_generation"), text("reason", 512)>>

encode_HeartbeatRequest == All(id, <<"epoch", "worker", "boot">>) \o <<u32("active_assignments")>>

decode_heartbeat == All(id, <<"epoch", "worker", "boot">>) \o <<u32("active_assignments")>>

encode_ErrorReply == <<WrittenStatus, text("detail", 1024)>>

decode_error_reply == <<ReadStatus, text("detail", 1024)>>

encode_QueryResult == <<WrittenStatus, vector("lines", 65536, <<text("line", 512)>>)>>

decode_query_result == <<ReadStatus, vector("lines", 65536, <<text("line", 512)>>)>>

encode_ValueReply == <<WrittenStatus, u64("value")>>

decode_value_reply == <<ReadStatus, u64("value")>>

encode_decision_reply == <<WrittenStatus>> \o write_decision

decode_decision_reply == <<ReadStatus>> \o read_decision

encode_CreateTrialRequest == <<id("experiment"), id("branch"), text("payload", 4096)>>

decode_create_trial == <<id("experiment"), id("branch"), text("payload", 4096)>>

encode_ForkBranchRequest ==
  <<id("experiment"), id("parent"), text("name", 128), enum("role", kMaxBranchRole)>>
    \o write_parameters \o <<optional(u64("seed")), u32("planned_trials")>>

decode_fork_branch ==
  <<id("experiment"), id("parent"), text("name", 128), enum("role", kMaxBranchRole)>>
    \o read_parameters \o <<optional(u64("seed")), u32("planned_trials")>>

encode_ReviseHypothesisRequest ==
  <<id("experiment"), text("statement", 4096), boolean("has_direction"),
    enum("direction", kMaxMetricDirection), id("metric"), text("provenance", 1024)>>

decode_revise_hypothesis ==
  <<id("experiment"), text("statement", 4096), boolean("has_direction"),
    enum("direction", kMaxMetricDirection), id("metric"), text("provenance", 1024)>>

encode_query_request == <<u16_kind("kind", kMaxQueryKind), text("argument", 128)>>

decode_query_request == <<u16_kind("kind", kMaxQueryKind), text("argument", 128)>>
=============================================================================
