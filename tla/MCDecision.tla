----------------------------- MODULE MCDecision -----------------------------
(***************************************************************************)
(* The experiments the decision is checked for.                            *)
(***************************************************************************)
EXTENDS Decision

Metric == [kind |-> "REAL", direction |-> "MINIMIZE", aggregation |-> "MEAN",
           required |-> TRUE, weight |-> 0]

Rule == [metric |-> 1, op |-> "LESS_THAN", threshold |-> Num(0),
         target_low |-> Num(0), target_high |-> Num(0)]

\* Two branches, one trial each, one metric that has to get smaller.
Plain ==
  [metrics |-> <<Metric>>, rules |-> <<Rule>>, baseline |-> 1, candidate |-> 2,
   fingerprints |-> <<NoId, NoId>>, require_baseline |-> TRUE, min_completed_trials |-> 1,
   min_valid_observations |-> 1, reject_on_any_invalid |-> FALSE,
   require_environment_match |-> TRUE, use_weighted_score |-> FALSE,
   accept_score_threshold |-> Num(0), planned_trials |-> <<1, 1>>, max_trials_per_branch |-> 1,
   max_attempts |-> 1, max_concurrent |-> 1, max_observations |-> 3, late_evidence_policy |-> "REJECT_AND_RECORD",
   partial_failure_policy |-> "TOLERATE_IF_EVIDENCE_SUFFICIENT", max_interventions |-> 1,
   validities |-> {"INVALID", "MISSING"}, max_decisions |-> 1]

With(op, threshold) == <<[Rule EXCEPT !.op = op, !.threshold = threshold]>>

Aggregating(aggregation) == <<[Metric EXCEPT !.aggregation = aggregation]>>

TwoTrials == [Plain EXCEPT !.planned_trials = <<2, 2>>, !.max_trials_per_branch = 2,
                           !.min_completed_trials = 2, !.max_observations = 4,
                           !.validities = {}, !.max_interventions = 0, !.max_decisions = 0]

\* The decision may be taken while a trial of the candidate is open.
Early == [TwoTrials EXCEPT !.planned_trials = <<1, 2>>, !.min_completed_trials = 1, !.max_decisions = 1]

\* A second generation gets trials of its own.
Revised == [Plain EXCEPT !.max_trials_per_branch = 2, !.max_observations = 4, !.validities = {},
                         !.max_decisions = 0]

\* What arrives late is kept as history, also after the decision.
Retaining == [Plain EXCEPT !.late_evidence_policy = "RETAIN_HISTORICAL", !.validities = {},
                           !.max_observations = 4, !.max_interventions = 0]

\* A failed attempt is repeated, and what it still sends is kept.
Repeated == [Retaining EXCEPT !.max_attempts = 2, !.max_observations = 3, !.max_decisions = 0]

\* Nothing invalid may be left, and history is kept.
Intolerant == [Plain EXCEPT !.late_evidence_policy = "RETAIN_HISTORICAL",
                            !.reject_on_any_invalid = TRUE, !.validities = {"INVALID"}]

TwoMetrics ==
  [Plain EXCEPT !.metrics = <<[Metric EXCEPT !.weight = 1],
                              [Metric EXCEPT !.direction = "MAXIMIZE", !.weight = 2]>>,
                !.rules = <<[Rule EXCEPT !.op = "MIN_IMPROVEMENT", !.threshold = Num(1)],
                            [Rule EXCEPT !.metric = 2, !.op = "MAX_REGRESSION_TOLERANCE"]>>,
                !.use_weighted_score = TRUE, !.accept_score_threshold = <<1, 2>>,
                !.validities = {"MISSING"}, !.max_observations = 4, !.max_interventions = 0,
                !.max_decisions = 0]

\* Measured without interruption, and evaluated only.
Undisturbed == [Plain EXCEPT !.max_interventions = 0, !.max_decisions = 0]

AllScenarios ==
  {Revised, Early, Retaining, Repeated, Intolerant, TwoMetrics,
   [TwoTrials EXCEPT !.metrics = Aggregating("MEDIAN"), !.planned_trials = <<1, 2>>,
                     !.min_completed_trials = 1,
                     !.rules = With("MAX_REGRESSION_TOLERANCE", Num(0))],
   [TwoTrials EXCEPT !.rules = With("MAJORITY_WINS", <<2, 3>>), !.min_completed_trials = 1,
                     !.partial_failure_policy = "INVALIDATE_BRANCH"],
   [Undisturbed EXCEPT !.metrics = Aggregating("SUM"), !.rules = With("MIN_IMPROVEMENT", <<1, 2>>)],
   [Undisturbed EXCEPT !.metrics = Aggregating("MIN"), !.fingerprints = <<1, 2>>],
   [Undisturbed EXCEPT !.metrics = Aggregating("MAX"), !.rules = With("REPORT_ONLY", Num(0)),
                       !.fingerprints = <<1, NoId>>],
   [Undisturbed EXCEPT !.metrics = <<[Metric EXCEPT !.kind = "BOOLEAN", !.aggregation = "MAJORITY"]>>],
   [Undisturbed EXCEPT !.metrics = <<[Metric EXCEPT !.kind = "CATEGORICAL", !.aggregation = "MAJORITY"]>>],
   [Undisturbed EXCEPT !.rules = <<[Rule EXCEPT !.op = "TARGET_RANGE", !.target_low = Num(1),
                                                !.target_high = Num(1)]>>],
   [Undisturbed EXCEPT !.baseline = NoId, !.require_baseline = FALSE],
   [TwoTrials EXCEPT !.metrics = Aggregating("NONE"), !.planned_trials = <<1, 2>>,
                     !.min_completed_trials = 1],
   [Plain EXCEPT !.metrics = <<[Metric EXCEPT !.direction = "MAXIMIZE", !.aggregation = "NONE"]>>,
                 !.rules = With("GREATER_THAN", Num(0)), !.partial_failure_policy = "INVALIDATE_BRANCH"]}
=============================================================================
