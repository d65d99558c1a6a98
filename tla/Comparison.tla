----------------------------- MODULE Comparison -----------------------------
(***************************************************************************)
(* The pure part of a decision: from the observations of an experiment to  *)
(* the evidence of its branches (compute_evidence), the hard constraints   *)
(* (apply_constraints) and the outcome (build_decision).                   *)
(*                                                                         *)
(* A definition d gives the metrics, the policy and what is fixed about    *)
(* the branches; a record r is the mutable part of an ExperimentRecord.    *)
(* Doubles are exact fractions <<n, d>> with d > 0: the rounding of sums   *)
(* and quotients is not modelled.  Measured values are integers, and so    *)
(* are the categories, in their lexicographic order.                       *)
(***************************************************************************)
EXTENDS Integers, FiniteSets, Sequences, Functions, TLC, EFDomain

NoId == 0

Num(n) == <<n, 1>>
Plus(x, y) == <<x[1] * y[2] + y[1] * x[2], x[2] * y[2]>>
Minus(x, y) == <<x[1] * y[2] - y[1] * x[2], x[2] * y[2]>>
Leq(x, y) == x[1] * y[2] <= y[1] * x[2]
Less(x, y) == x[1] * y[2] < y[1] * x[2]
Magnitude(x) == IF x[1] < 0 THEN <<-x[1], x[2]>> ELSE x

\* x / y for y > 0
Over(x, y) == <<x[1] * y[2], x[2] * y[1]>>

\* The sum of a sequence of fractions.
Sum(s) ==
  LET upto[i \in 0 .. Len(s)] == IF i = 0 THEN Num(0) ELSE Plus(upto[i - 1], s[i])
  IN  upto[Len(s)]

-----------------------------------------------------------------------------
(***************************************************************************)
(* Evidence.                                                               *)
(***************************************************************************)
\* authoritative_trials with a mistake: the generations are not compared.
trials_of_any_generation(r, b) ==
  {t \in DOMAIN r.trials : r.trials[t].branch = b /\ r.trials[t].state = "COMPLETED"}

\* authoritative_trials with a mistake: a trial counts before it is committed.
trials_of_any_state(r, b) ==
  {t \in DOMAIN r.trials : /\ r.trials[t].branch = b /\ r.trials[t].generation = r.generation
                           /\ r.trials[t].branch_generation = r.branches[b].generation}

\* The completed trials of branch b that were created under what is current now.
\* The generation stands for the hypothesis revision too: both advance together.
authoritative_trials(r, b) ==
  {t \in DOMAIN r.trials : /\ r.trials[t].branch = b /\ r.trials[t].state = "COMPLETED"
                           /\ r.trials[t].generation = r.generation
                           /\ r.trials[t].branch_generation = r.branches[b].generation}

\* Where the record holds the observations of metric m by the authoritative
\* attempt of trial t.
Observed(r, t, m, validity) ==
  {n \in DOMAIN r.observations :
     LET o == r.observations[n]
     IN  /\ o.trial = t /\ o.attempt = r.trials[t].authoritative_attempt
         /\ o.metric = m /\ o.validity = validity}

First(N) == CHOOSE n \in N : \A k \in N : n <= k

\* The value of metric m for every trial that has one: the first valid one counts.
ValidValues(r, b, m) ==
  [t \in {t \in authoritative_trials(r, b) : Observed(r, t, m, "VALID") # {}} |->
     r.observations[First(Observed(r, t, m, "VALID"))].value]

\* The values of trials in the order of their identities.
InOrder(values) ==
  [i \in 1 .. Cardinality(DOMAIN values) |->
     values[CHOOSE t \in DOMAIN values : Cardinality({u \in DOMAIN values : u < t}) = i - 1]]

Median(values) ==
  LET sorted == SortSeq(values, LAMBDA x, y : x < y)
      middle == Len(values) \div 2
  IN  IF Len(values) % 2 = 0 THEN <<sorted[middle] + sorted[middle + 1], 2>>
                             ELSE Num(sorted[middle + 1])

Aggregated(aggregation, values) ==
  CASE aggregation = "MEAN" -> Over(Sum([i \in DOMAIN values |-> Num(values[i])]), Num(Len(values)))
    [] aggregation = "MEDIAN" -> Median(values)
    [] aggregation = "MIN" -> Num(CHOOSE v \in Range(values) : \A w \in Range(values) : v <= w)
    [] aggregation = "MAX" -> Num(CHOOSE v \in Range(values) : \A w \in Range(values) : v >= w)
    [] aggregation = "SUM" -> Sum([i \in DOMAIN values |-> Num(values[i])])
    [] OTHER -> Num(Head(values))

\* MetricAggregate, of the values that trials have.  A category is no number: the
\* value of a categorical metric stays 0, and it has no raw values.  Under MAJORITY
\* only categories are counted, so that a boolean metric has no aggregate.
Aggregate(metric, values) ==
  LET measured == DOMAIN values # {}
      category == metric.kind = "CATEGORICAL"
      numeric == ~category /\ metric.aggregation # "MAJORITY"
  IN  [present |-> measured /\ (category \/ numeric),
       valid_count |-> Cardinality(DOMAIN values),
       value |-> IF numeric /\ measured THEN Aggregated(metric.aggregation, InOrder(values)) ELSE Num(0),
       raw_values |-> IF category THEN << >> ELSE InOrder(values)]

\* invalid_count of a MetricAggregate
InvalidCount(r, b, m) ==
  Cardinality(UNION {Observed(r, t, m, "INVALID") : t \in authoritative_trials(r, b)})

\* The evidence of branch b, one aggregate per metric.
compute_evidence(d, r, b) ==
  [completed_trials |-> Cardinality(authoritative_trials(r, b)),
   aggregates |-> [m \in DOMAIN d.metrics |-> Aggregate(d.metrics[m], ValidValues(r, b, m))],
   invalid_counts |-> [m \in DOMAIN d.metrics |-> InvalidCount(r, b, m)]]

-----------------------------------------------------------------------------
(***************************************************************************)
(* Hard constraints.                                                       *)
(***************************************************************************)
ClosedOutcome(exp) ==
  CASE exp = "OPEN" -> "ACCEPT"
    [] exp = "CANCELLED" -> "CANCELLED"
    [] exp = "SUPERSEDED" -> "SUPERSEDED"
    [] exp = "RECOVERING" -> "INSUFFICIENT_EVIDENCE"
    [] exp = "FINALIZED" -> "INVALID"

CandidateOutcome(branch_state) ==
  CASE is_branch_eligible(branch_state) -> "ACCEPT"
    [] branch_state = "INVALID" -> "INVALID"
    [] branch_state = "SUPERSEDED" -> "SUPERSEDED"
    [] branch_state = "RETIRED" -> "INSUFFICIENT_EVIDENCE"

Requires(condition, otherwise) == IF condition THEN "ACCEPT" ELSE otherwise

\* Every constraint names the outcome it demands, ACCEPT when it is met.  The
\* first that is not met decides.
FirstFailed(outcomes) ==
  LET failed == {i \in DOMAIN outcomes : outcomes[i] # "ACCEPT"}
  IN  IF failed = {} THEN "ACCEPT" ELSE outcomes[First(failed)]

\* For one required metric, the counts of the compared branches in turn.
MetricConstraints(d, compared, m) ==
  LET counts(i) == compared[i].aggregates[m]
      enough(i) == /\ counts(i).present
                   /\ counts(i).valid_count >= d.min_valid_observations
      invalid == \E i \in DOMAIN compared : compared[i].invalid_counts[m] > 0
  IN  FirstFailed([i \in DOMAIN compared |-> Requires(enough(i), "INSUFFICIENT_EVIDENCE")]
                  \o << Requires(~(d.reject_on_any_invalid /\ invalid), "INVALID") >>)

\* The fingerprints of every completed trial of the compared branches, of
\* whatever generation; a trial takes the one of its branch.
Fingerprints(d, r, B) ==
  {d.fingerprints[b] :
     b \in {b \in B : \E t \in DOMAIN r.trials : /\ r.trials[t].state = "COMPLETED"
                                              /\ r.trials[t].branch = b}} \ {NoId}

\* The evidence compared is that of the candidate and, if there is a baseline,
\* that of the baseline.
apply_constraints(d, r, c, base, compared) ==
  LET baseline == << Requires(~(d.require_baseline /\ base = NoId), "INSUFFICIENT_EVIDENCE"),
                     Requires(base # NoId => is_branch_eligible(r.branches[base].state),
                              "INSUFFICIENT_EVIDENCE") >>
      completed == [i \in DOMAIN compared |->
                      Requires(compared[i].completed_trials >= d.min_completed_trials,
                               "INSUFFICIENT_EVIDENCE")]
      measured == [m \in DOMAIN d.metrics |->
                     IF d.metrics[m].required THEN MetricConstraints(d, compared, m) ELSE "ACCEPT"]
      environment == << Requires(d.require_environment_match =>
                                   Cardinality(Fingerprints(d, r, {c, base})) <= 1, "INVALID") >>
  IN  FirstFailed(<< ClosedOutcome(r.exp), CandidateOutcome(r.branches[c].state) >>
                  \o baseline \o completed \o measured \o environment)

-----------------------------------------------------------------------------
(***************************************************************************)
(* Comparison factors.                                                     *)
(***************************************************************************)
\* improvement with a mistake: the direction of the change is lost.
improvement_unsigned(direction, baseline, candidate) == Magnitude(Minus(candidate, baseline))

\* Positive means better.
improvement(direction, baseline, candidate) ==
  IF direction = "MINIMIZE" THEN Minus(baseline, candidate) ELSE Minus(candidate, baseline)

\* The fraction of the pairs the candidate wins.  Raw values are paired by their
\* position among the valid ones, not by trial.
Wins(direction, baseline, candidate) ==
  LET pairs == 1 .. (IF Len(baseline) < Len(candidate) THEN Len(baseline) ELSE Len(candidate))
      won == {i \in pairs : Less(Num(0), improvement(direction, Num(baseline[i]), Num(candidate[i])))}
  IN  <<Cardinality(won), Cardinality(pairs)>>

Satisfied(rule, direction, baseline, candidate) ==
  LET gain == improvement(direction, baseline.value, candidate.value)
      wins == Wins(direction, baseline.raw_values, candidate.raw_values)
  IN  CASE rule.op = "GREATER_THAN" -> Less(Plus(baseline.value, rule.threshold), candidate.value)
        [] rule.op = "LESS_THAN" -> Less(candidate.value, Minus(baseline.value, rule.threshold))
        [] rule.op = "MIN_IMPROVEMENT" -> Leq(rule.threshold, gain)
        [] rule.op = "MAX_REGRESSION_TOLERANCE" -> Leq(Minus(Num(0), gain), rule.threshold)
        [] rule.op = "TARGET_RANGE" -> /\ Leq(rule.target_low, candidate.value)
                                       /\ Leq(candidate.value, rule.target_high)
        [] rule.op = "MAJORITY_WINS" -> wins[2] # 0 /\ Leq(rule.threshold, wins)

\* The share of one metric in the weighted score, relative to the baseline.
Share(metric, baseline, candidate) ==
  LET reference == IF baseline.value[1] = 0 THEN Num(1) ELSE Magnitude(baseline.value)
      gain == improvement(metric.direction, baseline.value, candidate.value)
  IN  Over(<<metric.weight * gain[1], gain[2]>>, reference)

\* The score misses the threshold; it is computed only if some metric counts.
ScoreFails(d, base, cand) ==
  LET scored == {m \in DOMAIN d.metrics : /\ d.metrics[m].required /\ d.metrics[m].weight # 0
                                          /\ d.metrics[m].direction # "INFORMATIONAL"
                                          /\ base[m].present /\ cand[m].present}
      score == Sum([m \in DOMAIN d.metrics |->
                      IF m \in scored THEN Share(d.metrics[m], base[m], cand[m]) ELSE Num(0)])
  IN  d.use_weighted_score /\ scored # {} /\ Less(score, d.accept_score_threshold)


\* What the comparison rules make of the evidence once the constraints are met.
\* The order of the rules matters for the explanation only.
Compare(d, base, cand) ==
  LET decisive == {rule \in Range(d.rules) : rule.op # "REPORT_ONLY"}
      evaluated(rule) == base[rule.metric].present /\ cand[rule.metric].present
      satisfied(rule) == /\ evaluated(rule)
                         /\ Satisfied(rule, d.metrics[rule.metric].direction,
                                      base[rule.metric], cand[rule.metric])
      differs(rule) == /\ evaluated(rule)
                       /\ Minus(cand[rule.metric].value, base[rule.metric].value)[1] # 0
  IN  CASE decisive = {} -> "INCONCLUSIVE"
        [] (\E rule \in decisive : ~satisfied(rule)) \/ ScoreFails(d, base, cand) -> "REJECT"
        [] \A rule \in decisive : ~differs(rule) -> "INCONCLUSIVE"
        [] OTHER -> "ACCEPT"

NoEvidence(d) == [m \in DOMAIN d.metrics |-> [present |-> FALSE, valid_count |-> 0, value |-> Num(0),
                                              raw_values |-> << >>]]

\* A decision for candidate c against the branch base, NoId for none.
Against(d, r, c, base) ==
  LET candidate == compute_evidence(d, r, c)
      baseline == compute_evidence(d, r, base)
      compared == IF base = NoId THEN <<candidate>> ELSE <<candidate, baseline>>
      constrained == apply_constraints(d, r, c, base, compared)
  IN  IF constrained # "ACCEPT" THEN constrained
      ELSE Compare(d, IF base = NoId THEN NoEvidence(d) ELSE baseline.aggregates,
                   candidate.aggregates)

\* The outcome of build_decision for the named candidate.
build_decision(d, r, c) ==
  IF c \notin DOMAIN r.branches \/ c = d.baseline THEN "INVALID" ELSE Against(d, r, c, d.baseline)
=============================================================================
