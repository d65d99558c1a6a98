------------------------------ MODULE Decision ------------------------------
(***************************************************************************)
(* One experiment from its first trial to its decision, with the values    *)
(* that are measured: what module Coordinator leaves open when it lets a   *)
(* decision have any outcome the constraints on counts allow.              *)
(*                                                                         *)
(* The envelopes here are those of workers whose registration is live;     *)
(* registrations, epochs, restarts and failing writes are in Coordinator.  *)
(* A request may be sent again at any time, and arrive late.               *)
(***************************************************************************)
EXTENDS Comparison

CONSTANTS
  Scenarios,   \* what create_experiment is given, with the limits and the bounds
  Values       \* what a worker may measure

\* What create_experiment has checked of a definition (the metrics and the branches
\* are lists, the baseline is one of the branches, a rule is about one of the
\* metrics) and the types of its policy.
ASSUME ScenariosAssumption ==
  \A d \in Scenarios :
    /\ d.metrics \in Seq(Range(d.metrics)) /\ d.fingerprints \in Seq(Range(d.fingerprints))
    /\ d.baseline \in {NoId} \cup DOMAIN d.fingerprints
    /\ d.min_valid_observations \in Nat
    /\ \A rule \in Range(d.rules) : rule.metric \in DOMAIN d.metrics

VARIABLES
  definition,     \* the definition and the policy of the experiment
  record,         \* the mutable part of its ExperimentRecord
  decisions,      \* record.decisions
  interventions   \* how often the operator has intervened, for the bound

vars == <<definition, record, decisions, interventions>>

Init ==
  /\ definition \in Scenarios
  /\ record = [exp |-> "OPEN", generation |-> 1,
               branches |-> [b \in DOMAIN definition.fingerprints |->
                               [state |-> "ACTIVE", generation |-> 1]],
               trials |-> << >>, attempts |-> << >>, observations |-> << >>]
  /\ decisions = << >> /\ interventions = 0

\* What the experiment would decide with the record r (Coordinator::evaluate).
evaluate(r) == build_decision(definition, r, definition.candidate)

Outcome == evaluate(record)

-----------------------------------------------------------------------------
(***************************************************************************)
(* Trials and attempts.                                                    *)
(***************************************************************************)
\* create_trial
CreateTrial(b) ==
  /\ is_experiment_mutable(record.exp) /\ is_branch_eligible(record.branches[b].state)
  /\ Cardinality({t \in DOMAIN record.trials : /\ record.trials[t].branch = b
                                               /\ record.trials[t].generation = record.generation})
       < definition.planned_trials[b]
  /\ Len(record.trials) < Len(record.branches) * definition.max_trials_per_branch
  /\ record' = [record EXCEPT
       !.trials = Append(@, [branch |-> b, generation |-> record.generation,
                             branch_generation |-> record.branches[b].generation, state |-> "READY",
                             attempt_count |-> 0, authoritative_attempt |-> NoId])]
  /\ UNCHANGED <<definition, decisions, interventions>>

\* claim_trials by one worker, one trial at a time, as long as it has head-room
ClaimTrial(t) ==
  LET trial == record.trials[t]
  IN  /\ is_experiment_mutable(record.exp)
      /\ trial.state = "READY" /\ trial.generation = record.generation
      /\ trial.attempt_count < definition.max_attempts
      /\ Cardinality({a \in DOMAIN record.attempts : ~is_attempt_terminal(record.attempts[a].state)})
           < definition.max_concurrent
      /\ is_branch_eligible(record.branches[trial.branch].state)
      /\ trial.branch_generation = record.branches[trial.branch].generation
      /\ record' = [record EXCEPT
           !.attempts = Append(@, [trial |-> t, branch |-> trial.branch, state |-> "ISSUED"]),
           !.trials[t] = [trial EXCEPT !.state = "ASSIGNED", !.attempt_count = @ + 1,
                                       !.authoritative_attempt = Len(record.attempts) + 1]]
      /\ UNCHANGED <<definition, decisions, interventions>>

\* check_envelope with a mistake: the experiment may be closed.
check_trial_only(a) ==
  LET trial == record.trials[record.attempts[a].trial]
  IN  /\ ~is_terminal(trial.state) /\ trial.authoritative_attempt = a
      /\ ~is_attempt_terminal(record.attempts[a].state)

\* check_envelope for the envelope that was issued with attempt a
check_envelope(a) ==
  LET trial == record.trials[record.attempts[a].trial]
      branch == record.branches[trial.branch]
  IN  /\ is_experiment_mutable(record.exp)
      /\ trial.generation = record.generation
      /\ trial.branch_generation = branch.generation /\ is_branch_eligible(branch.state)
      /\ ~is_terminal(trial.state) /\ trial.authoritative_attempt = a
      /\ ~is_attempt_terminal(record.attempts[a].state)

Known(a, m) == \E n \in DOMAIN record.observations :
                 record.observations[n].attempt = a /\ record.observations[n].metric = m

Recorded(a, m, validity, value) ==
  Append(record.observations, [trial |-> record.attempts[a].trial, attempt |-> a, metric |-> m,
                               validity |-> validity, value |-> value])

\* PublishObservation with a mistake: an identity may be used again.
PublishAgain(a, m, validity, value) ==
  LET t == record.attempts[a].trial
  IN  /\ check_envelope(a)
      /\ Len(record.observations) < definition.max_observations
      /\ record' = [record EXCEPT !.observations = Recorded(a, m, validity, value),
                                  !.trials[t].state = "OBSERVING", !.attempts[a].state = "RUNNING"]
      /\ UNCHANGED <<definition, decisions, interventions>>

\* publish_observation.  The identity of the observation was reserved for the
\* attempt and the metric when the trial was claimed; one that is known already
\* changes nothing.
PublishObservation(a, m, validity, value) ==
  LET t == record.attempts[a].trial
  IN  /\ check_envelope(a)
      /\ ~Known(a, m)
      /\ Len(record.observations) < definition.max_observations
      /\ record' = [record EXCEPT !.observations = Recorded(a, m, validity, value),
                                  !.trials[t].state = "OBSERVING", !.attempts[a].state = "RUNNING"]
      /\ UNCHANGED <<definition, decisions, interventions>>

\* publish_observation without authority: kept as INVALID where the experiment
\* retains history, known identity or not.
RejectObservation(a, m) ==
  /\ ~check_envelope(a)
  /\ definition.late_evidence_policy = "RETAIN_HISTORICAL"
  /\ Len(record.observations) < definition.max_observations
  /\ record' = [record EXCEPT !.observations = Recorded(a, m, "INVALID", NoId)]
  /\ UNCHANGED <<definition, decisions, interventions>>

\* commit_trial: completion takes an observation of whatever validity.
CommitTrial(a) ==
  /\ check_envelope(a)
  /\ \E m \in DOMAIN definition.metrics : Known(a, m)
  /\ record' = [record EXCEPT !.attempts[a].state = "COMPLETED",
                              !.trials[record.attempts[a].trial].state = "COMPLETED"]
  /\ UNCHANGED <<definition, decisions, interventions>>

\* fail_trial
FailTrial(a, retryable) ==
  LET t == record.attempts[a].trial
      b == record.attempts[a].branch
      trial == record.trials[t]
      retry == retryable /\ trial.attempt_count < definition.max_attempts
  IN  /\ check_envelope(a)
      /\ record' = [record EXCEPT
           !.attempts[a].state = "FAILED",
           !.trials[t] = [trial EXCEPT !.state = IF retry THEN "READY" ELSE "FAILED",
                                       !.authoritative_attempt = IF retry THEN NoId ELSE @],
           !.branches[b].state = IF definition.partial_failure_policy = "INVALIDATE_BRANCH"
                                 THEN "INVALID" ELSE @]
      /\ UNCHANGED <<definition, decisions, interventions>>

-----------------------------------------------------------------------------
(***************************************************************************)
(* The operator.                                                           *)
(***************************************************************************)
\* What ends when the attempts and the trials of the branches B do.
Ended(B, trial_state, attempt_state) ==
  [record EXCEPT
     !.trials = [t \in DOMAIN @ |-> IF @[t].branch \in B /\ ~is_terminal(@[t].state)
                                    THEN [@[t] EXCEPT !.state = trial_state] ELSE @[t]],
     !.attempts = [a \in DOMAIN @ |-> IF @[a].branch \in B /\ ~is_attempt_terminal(@[a].state)
                                      THEN [@[a] EXCEPT !.state = attempt_state] ELSE @[a]]]

Intervene ==
  /\ interventions < definition.max_interventions /\ interventions' = interventions + 1
  /\ UNCHANGED <<definition, decisions>>

\* revise_hypothesis, with abandon_stale_live_work
ReviseHypothesis ==
  /\ is_experiment_mutable(record.exp)
  /\ record' = [Ended(DOMAIN record.branches, "SUPERSEDED", "ABANDONED") EXCEPT !.generation = @ + 1]
  /\ Intervene

\* retire_branch, in whatever state the experiment is
RetireBranch(b) ==
  /\ "RETIRED" \in BranchSuccessors(record.branches[b].state)
  /\ record' = [Ended({b}, "SUPERSEDED", "ABANDONED") EXCEPT
                  !.branches[b] = [state |-> "RETIRED", generation |-> @.generation + 1]]
  /\ Intervene

\* cancel_experiment
CancelExperiment ==
  /\ "CANCELLED" \in ExperimentSuccessors(record.exp)
  /\ record' = [Ended(DOMAIN record.branches, "CANCELLED", "CANCELLED") EXCEPT !.exp = "CANCELLED"]
  /\ Intervene

\* finalize_experiment: the outcome sets the state of the experiment, and an
\* inconclusive one leaves it.
FinalizeExperiment(c) ==
  LET outcome == build_decision(definition, record, c)
  IN  /\ record.exp # "FINALIZED" /\ Len(decisions) < definition.max_decisions
      /\ decisions' = Append(decisions, [candidate |-> c, outcome |-> outcome])
      /\ record' = [record EXCEPT !.exp =
           CASE outcome \in {"ACCEPT", "REJECT", "INVALID"} -> "FINALIZED"
             [] outcome \in {"CANCELLED", "SUPERSEDED"} -> outcome
             [] OTHER -> @]
      /\ UNCHANGED <<definition, interventions>>

Next ==
  \/ \E b \in DOMAIN record.branches : CreateTrial(b) \/ RetireBranch(b)
  \/ \E t \in DOMAIN record.trials : ClaimTrial(t)
  \/ \E a \in DOMAIN record.attempts :
       \/ \E m \in DOMAIN definition.metrics :
            \/ \E value \in Values : PublishObservation(a, m, "VALID", value)
            \/ \E validity \in definition.validities : PublishObservation(a, m, validity, NoId)
            \/ RejectObservation(a, m)
       \/ CommitTrial(a)
       \/ \E retryable \in BOOLEAN : FailTrial(a, retryable)
  \/ ReviseHypothesis \/ CancelExperiment
  \/ \E c \in {NoId, definition.candidate} : FinalizeExperiment(c)

Spec == Init /\ [][Next]_vars

-----------------------------------------------------------------------------
(***************************************************************************)
(* Properties.                                                             *)
(***************************************************************************)
Reversed(s) == [i \in 1 .. Len(s) |-> s[(Len(s) - i) + 1]]

Latest(s) == s[Len(s)]

\* What was measured for metric m on branch b: the valid observations of attempts
\* that completed, under the generation of now.
Measured(b, m) ==
  {o \in Range(record.observations) :
     /\ o.metric = m /\ o.validity = "VALID"
     /\ record.attempts[o.attempt].state = "COMPLETED" /\ record.attempts[o.attempt].branch = b
     /\ record.trials[o.trial].generation = record.generation}

ComparedBranches == {definition.candidate, definition.baseline} \ {NoId}

\* A candidate is accepted in an open experiment only, against a baseline, with
\* both branches active, and with as many measurements of every required metric
\* by completed attempts of the current generation as the policy asks for: what
\* abandoned attempts and earlier generations left in the record never makes up
\* for a missing one (apply_constraints, compute_evidence).
AcceptIsEarned ==
  Outcome = "ACCEPT" =>
    /\ record.exp = "OPEN" /\ Cardinality(ComparedBranches) = 2
    /\ \A b \in ComparedBranches :
         /\ record.branches[b].state = "ACTIVE"
         /\ \A m \in DOMAIN definition.metrics : definition.metrics[m].required =>
              /\ Measured(b, m) # {}
              /\ Cardinality(Measured(b, m)) >= definition.min_valid_observations

\* The outcome does not depend on the order in which the observations arrived,
\* although compute_evidence takes the first valid one it finds.
OrderIrrelevant ==
  evaluate([record EXCEPT !.observations = Reversed(@)]) = Outcome

\* The same values were measured for metric m on both branches, as often.  Of
\* several values of a metric without aggregation only the first counts, so that
\* there the values have to be the only ones.
Tied(m) ==
  /\ \A v \in Values :
       Cardinality({o \in Measured(definition.candidate, m) : o.value = v}) =
       Cardinality({o \in Measured(definition.baseline, m) : o.value = v})
  /\ definition.metrics[m].aggregation = "NONE" => Cardinality(Measured(definition.candidate, m)) <= 1


\* A rule that a tie does not satisfy.
IsStrict(rule) ==
  \/ rule.op \in {"GREATER_THAN", "LESS_THAN"} /\ Leq(Num(0), rule.threshold)
  \/ rule.op = "MIN_IMPROVEMENT" /\ Less(Num(0), rule.threshold)
  \/ rule.op = "MAJORITY_WINS" /\ Less(<<1, 2>>, rule.threshold)

\* Under a policy with a strict rule two branches never beat each other: if the
\* candidate is accepted against the baseline, the baseline would not be accepted
\* against the candidate on the same evidence (improvement and its direction).
NoMutualWin ==
  definition.baseline # NoId /\ (\E rule \in Range(definition.rules) : IsStrict(rule)) =>
    ~ (/\ Against(definition, record, definition.candidate, definition.baseline) = "ACCEPT"
       /\ Against(definition, record, definition.baseline, definition.candidate) = "ACCEPT")

\* Publishing, accepted or late, never changes what the experiment would decide:
\* evidence counts from the commit on.  This is for policies that tolerate invalid
\* observations; LateIsNeverCurrent is the claim for all.
HistoryIsInert ==
  [][record'.observations # record.observations /\ ~definition.reject_on_any_invalid
     => evaluate(record') = Outcome]_vars

\* The evidence of a final decision stands: as long as no branch was retired since,
\* the record still supports the outcome that was recorded, for the candidate it
\* was recorded for (check_envelope refuses what arrives after finalization).
VerdictStands ==
  /\ record.exp = "FINALIZED" /\ ~definition.reject_on_any_invalid
  /\ \A b \in DOMAIN record.branches : record.branches[b].state # "RETIRED"
  => Latest(decisions).outcome =
       build_decision(definition, [record EXCEPT !.exp = "OPEN"], Latest(decisions).candidate)

-----------------------------------------------------------------------------
(***************************************************************************)
(* What the proofs rest on.                                                *)
(***************************************************************************)
Trials ==
  [branch : DOMAIN definition.fingerprints, generation : Nat, branch_generation : Nat,
   state : TrialStates, attempt_count : Nat, authoritative_attempt : Nat]

Attempts == [trial : Nat, branch : DOMAIN definition.fingerprints, state : AttemptStates]

Observations ==
  [trial : Nat, attempt : Nat, metric : DOMAIN definition.metrics,
   validity : {"VALID", "INVALID"} \cup definition.validities, value : Values \cup {NoId}]

Records ==
  [exp : ExperimentStates, generation : Nat,
   branches : [DOMAIN definition.fingerprints -> [state : BranchStates, generation : Nat]],
   trials : Seq(Trials), attempts : Seq(Attempts), observations : Seq(Observations)]

Decisions == [candidate : {NoId, definition.candidate}, outcome : DecisionOutcomes]

RecordType == definition \in Scenarios /\ record \in Records /\ decisions \in Seq(Decisions)

\* An attempt belongs to a trial and is of its branch.
AttemptsBelong ==
  \A a \in DOMAIN record.attempts :
    /\ record.attempts[a].trial \in DOMAIN record.trials
    /\ record.attempts[a].branch = record.trials[record.attempts[a].trial].branch

\* A trial is completed by the attempt it names.
CompletedByItsAttempt ==
  \A t \in DOMAIN record.trials : record.trials[t].state = "COMPLETED" =>
    LET a == record.trials[t].authoritative_attempt
    IN  /\ a \in DOMAIN record.attempts
        /\ record.attempts[a].trial = t /\ record.attempts[a].state = "COMPLETED"

\* An observation is filed under the attempt that made it and under its trial.
ObservationsBelong ==
  \A n \in DOMAIN record.observations :
    /\ record.observations[n].attempt \in DOMAIN record.attempts
    /\ record.observations[n].trial = record.attempts[record.observations[n].attempt].trial

\* An attempt has at most one valid observation of a metric.
OneValidObservation ==
  \A n, k \in DOMAIN record.observations :
    /\ record.observations[n].validity = "VALID" /\ record.observations[k].validity = "VALID"
    /\ record.observations[n].attempt = record.observations[k].attempt
    /\ record.observations[n].metric = record.observations[k].metric
    => n = k

EvidenceInvariant ==
  RecordType /\ AttemptsBelong /\ CompletedByItsAttempt /\ ObservationsBelong /\ OneValidObservation
-----------------------------------------------------------------------------
\* Late evidence is retained as historical, never as current authority: it does
\* not change what the experiment would decide (domain.hpp, LateEvidencePolicy).
LateIsNeverCurrent ==
  [][record'.observations # record.observations => evaluate(record') = Outcome]_vars
=============================================================================
