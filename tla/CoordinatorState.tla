--------------------------- MODULE CoordinatorState ---------------------------
(***************************************************************************)
(* The durable state of the coordinator (CoordinatorState and the          *)
(* ExperimentRecord it holds), the mutations that several handlers share,  *)
(* and the validation that a state image has to pass when it is loaded.    *)
(*                                                                         *)
(* The coordinator holds one experiment here.  Its durable state is one    *)
(* record s, because the program writes and reads it as one image: a       *)
(* mutation is an operator from a state to a state, and an invariant is a  *)
(* predicate that can be asked of the memory and of the image on disk.     *)
(*                                                                         *)
(* Identities are positive integers handed out by watermarks, 0 is the     *)
(* null identity, and every std::map is a function whose domain is the set *)
(* of keys present.  An observation identity is reserved at claim time,    *)
(* one per metric of the attempt, so the pair <<attempt, metric>> stands   *)
(* for it; an artifact identity likewise is a pair <<attempt, index>>.     *)
(***************************************************************************)
EXTENDS EFDomain, Naturals, Sequences, FiniteSets

CONSTANTS
  Incarnation,          \* the pairs <<worker, boot>> that may register
  Metrics,              \* the metrics of the experiment
  InitialBranches,      \* branches 1 .. InitialBranches exist from the start
  PlannedTrials,        \* planned_trials of every branch
  MaxAttempts,          \* definition.max_attempts_per_trial
  RetryPolicy,          \* definition.retry_policy
  PartialFailurePolicy, \* definition.partial_failure_policy
  LateEvidencePolicy,   \* definition.late_evidence_policy
  MaxConcurrent,        \* max_concurrent_assignments of every worker
  MinCompletedTrials    \* policy.min_completed_trials_per_branch

(***************************************************************************)
(* The configured limits (class Limits).                                   *)
(***************************************************************************)
CONSTANTS
  AttemptsLimit,        \* max_attempts_per_trial
  MaxObservations,      \* max_observations_per_experiment
  MaxObsPerTrial,       \* max_observations_per_trial
  MaxArtifactsPerAttempt, MaxArtifacts,  \* per attempt, per experiment
  MaxBranches,          \* max_branches_per_experiment
  MaxTrialsPerBranch,   \* max_trials_per_branch
  MaxDecisions,         \* max_decisions_per_experiment
  MaxWorkers,           \* max_registered_workers
  RejectedCap           \* the length at which rejected_evidence stops growing

ASSUME DefinitionAssumption ==
  /\ \A i \in Incarnation : i = <<i[1], i[2]>>
  /\ InitialBranches \in Nat \ {0}
  /\ PlannedTrials \in Nat \ {0}
  /\ MaxAttempts \in Nat \ {0}
  /\ RetryPolicy \in RetryPolicies
  /\ PartialFailurePolicy \in PartialFailurePolicies
  /\ LateEvidencePolicy \in LateEvidencePolicies
  /\ MaxConcurrent \in Nat \ {0}
  /\ MinCompletedTrials \in Nat

ASSUME LimitsAssumption ==
  /\ AttemptsLimit \in Nat /\ MaxAttempts <= AttemptsLimit
  /\ MaxObservations \in Nat /\ MaxObsPerTrial \in Nat
  /\ MaxArtifactsPerAttempt \in Nat /\ MaxArtifacts \in Nat
  /\ MaxBranches \in Nat /\ InitialBranches <= MaxBranches
  /\ MaxTrialsPerBranch \in Nat /\ PlannedTrials <= MaxTrialsPerBranch
  /\ MaxDecisions \in Nat /\ MaxWorkers \in Nat /\ RejectedCap \in Nat

-----------------------------------------------------------------------------
(***************************************************************************)
(* The records.                                                            *)
(***************************************************************************)
NoId == 0

\* The branch that was declared with the role BASELINE.
Baseline == 1

BranchRecord == [state : BranchStates, generation : Nat]

TrialRecord ==
  [branch : Nat, generation : Nat, branch_generation : Nat,
   hypothesis_revision : Nat, state : TrialStates, attempt_count : Nat,
   next_attempt_number : Nat, authoritative_attempt : Nat,
   committed_attempts : {0, 1}]

AttemptRecord ==
  [number : Nat, trial : Nat, branch : Nat, inc : Incarnation, epoch : Nat,
   producer : Nat, state : AttemptStates, committed : BOOLEAN]

\* ObservationValidity: MISSING and UNSUPPORTED are handled like INVALID.
Validities == {"VALID", "INVALID"}

Observation == [trial : Nat, attempt : Nat, metric : Metrics, validity : Validities]

\* BranchAuthoritySnapshot and RollbackPoint
BranchSnapshot == [branch : Nat, state : BranchStates, generation : Nat]
RollbackPoint == [generation : Nat \ {0}, authority : SUBSET BranchSnapshot]

DecisionRecord == [candidate : Nat, outcome : DecisionOutcomes]

WorkerIncarnation == [inc : Incarnation, epoch : Nat, producer : Nat, revoked : BOOLEAN]

\* A std::map from positive identities to records of R.
IsMap(f, R) == DOMAIN f \subseteq Nat \ {0} /\ f \in [DOMAIN f -> R]

EmptyMap == [x \in {} |-> NoId]

\* What create_experiment leaves in memory and on disk.
InitialState(epoch) ==
  [exp |-> "OPEN", generation |-> 1, hypothesis_revision |-> 1,
   branches |-> [b \in 1 .. InitialBranches |-> [state |-> "ACTIVE", generation |-> 1]],
   trials |-> EmptyMap, attempts |-> EmptyMap, observations |-> << >>, artifacts |-> {},
   rejected |-> 0, decisions |-> << >>, rollback_points |-> << >>, workers |-> {},
   last_epoch |-> epoch, next_worker_registration_sequence |-> 0,
   wm_branch |-> InitialBranches, wm_trial |-> 0, wm_attempt |-> 0]

-----------------------------------------------------------------------------
(***************************************************************************)
(* Questions handlers ask of a state.                                      *)
(***************************************************************************)
LiveAttempts(s) == {a \in DOMAIN s.attempts : ~is_attempt_terminal(s.attempts[a].state)}
OpenTrials(s) == {t \in DOMAIN s.trials : ~is_terminal(s.trials[t].state)}

\* The attempts that count against the head-room of incarnation i.
ActiveOf(s, i) == {a \in LiveAttempts(s) : s.attempts[a].inc = i}

TrialsOf(s, b) == {t \in DOMAIN s.trials : s.trials[t].branch = b}

ObservationsOf(s, t, a) ==
  {n \in DOMAIN s.observations : s.observations[n].trial = t /\ s.observations[n].attempt = a}

ArtifactsOf(s, t) == {x \in s.artifacts : s.attempts[x[1]].trial = t}

Min2(x, y) == IF x < y THEN x ELSE y

\* Whether a lost assignment goes back to READY (register_worker, revoke_worker).
RetryRemains(trial) == RetryPolicy # "NO_RETRY" /\ trial.attempt_count < MaxAttempts

\* The trials of branch b that count as current evidence.
authoritative_trials(s, b) ==
  {t \in TrialsOf(s, b) :
     /\ s.trials[t].state = "COMPLETED" /\ s.trials[t].committed_attempts = 1
     /\ s.trials[t].generation = s.generation
     /\ s.trials[t].branch_generation = s.branches[b].generation
     /\ s.trials[t].hypothesis_revision = s.hypothesis_revision}

(***************************************************************************)
(* Mutations that handlers share.                                          *)
(***************************************************************************)
SetTrials(s, T, st) ==
  [t \in DOMAIN s.trials |->
     IF t \in T THEN [s.trials[t] EXCEPT !.state = st] ELSE s.trials[t]]

SetAttempts(s, A, st) ==
  [a \in DOMAIN s.attempts |->
     IF a \in A THEN [s.attempts[a] EXCEPT !.state = st] ELSE s.attempts[a]]

\* Requeued with a mistake: the next attempt repeats the number of the last.
RequeuedWithSameNumber(trial) ==
  [trial EXCEPT !.state = "READY", !.authoritative_attempt = NoId,
                !.next_attempt_number = trial.attempt_count]

\* A trial goes back to READY: a fresh attempt is needed.
Requeued(trial) ==
  [trial EXCEPT !.state = "READY", !.authoritative_attempt = NoId,
                !.next_attempt_number = trial.attempt_count + 1]

Requeue(trial, retry) == IF retry THEN Requeued(trial) ELSE [trial EXCEPT !.state = "FAILED"]

\* abandon_stale_live_work with a mistake: a trial nobody works on is forgotten.
AbandonAssignedOnly(s) ==
  [s EXCEPT !.attempts = SetAttempts(s, LiveAttempts(s), "ABANDONED"),
            !.trials = SetTrials(s, {t \in OpenTrials(s) : s.trials[t].state # "READY"}, "SUPERSEDED")]

\* Every live attempt is abandoned and every open trial superseded.
abandon_stale_live_work(s) ==
  [s EXCEPT !.attempts = SetAttempts(s, LiveAttempts(s), "ABANDONED"),
            !.trials = SetTrials(s, OpenTrials(s), "SUPERSEDED")]

\* LoseProducers with a mistake: finished work of a lost producer is redone.
LoseFinishedWork(s, I) ==
  LET gone == {a \in DOMAIN s.attempts : s.attempts[a].inc \in I}
      hit(t) == \E a \in gone : s.trials[t].authoritative_attempt = a
  IN  [s EXCEPT !.attempts = SetAttempts(s, gone, "ABANDONED"),
                !.trials = [t \in DOMAIN s.trials |->
                              IF hit(t) THEN Requeue(s.trials[t], RetryRemains(s.trials[t]))
                                        ELSE s.trials[t]],
                !.workers = {IF w.inc \in I THEN [w EXCEPT !.revoked = TRUE] ELSE w : w \in s.workers}]

\* The incarnations I are gone: their records are revoked, their live attempts
\* abandoned, and a trial that rested on one of these is requeued or failed.
LoseProducers(s, I) ==
  LET gone == {a \in LiveAttempts(s) : s.attempts[a].inc \in I}
      hit(t) == t \in OpenTrials(s) /\ \E a \in gone : /\ s.attempts[a].trial = t
                                                      /\ s.trials[t].authoritative_attempt = a
  IN  [s EXCEPT !.attempts = SetAttempts(s, gone, "ABANDONED"),
                !.trials = [t \in DOMAIN s.trials |->
                              IF hit(t) THEN Requeue(s.trials[t], RetryRemains(s.trials[t]))
                                        ELSE s.trials[t]],
                !.workers = {IF w.inc \in I THEN [w EXCEPT !.revoked = TRUE] ELSE w : w \in s.workers}]

-----------------------------------------------------------------------------
(***************************************************************************)
(* Recovery.  The first pass demotes everything that was live, the second  *)
(* resolves it; each is persisted before the next step is taken.           *)
(***************************************************************************)
RecoveryTouches(s) == LiveAttempts(s) # {} \/ OpenTrials(s) # {}

\* Demoted with a mistake: attempts that had ended are demoted too.
DemotedEndedToo(s) ==
  [s EXCEPT !.attempts = SetAttempts(s, DOMAIN s.attempts, "REVALIDATION_REQUIRED"),
            !.trials = SetTrials(s, OpenTrials(s), "REVALIDATION_REQUIRED")]

\* The reset of a RECOVERING experiment is left out: no handler stores that state.
Demoted(s) ==
  [s EXCEPT !.attempts = SetAttempts(s, LiveAttempts(s), "REVALIDATION_REQUIRED"),
            !.trials = SetTrials(s, OpenTrials(s), "REVALIDATION_REQUIRED")]

\* Recovery asks for attempts left, never for the retry policy.
Recoverable(s, trial) ==
  /\ trial.attempt_count < MaxAttempts
  /\ trial.branch \in DOMAIN s.branches
  /\ is_branch_eligible(s.branches[trial.branch].state)
  /\ s.branches[trial.branch].generation = trial.branch_generation
  /\ is_experiment_mutable(s.exp)
  /\ trial.generation = s.generation

\* Resolved with a mistake: the attempts that survived the crash stay live.
ResolvedTrialsOnly(s) ==
  LET staged == {t \in DOMAIN s.trials : s.trials[t].state = "REVALIDATION_REQUIRED"}
  IN  [s EXCEPT !.trials = [t \in DOMAIN s.trials |->
                              IF t \in staged THEN Requeue(s.trials[t], Recoverable(s, s.trials[t]))
                                              ELSE s.trials[t]]]

Resolved(s) ==
  LET staged == {t \in DOMAIN s.trials : s.trials[t].state = "REVALIDATION_REQUIRED"}
  IN  [s EXCEPT !.trials = [t \in DOMAIN s.trials |->
                              IF t \in staged THEN Requeue(s.trials[t], Recoverable(s, s.trials[t]))
                                              ELSE s.trials[t]],
                !.attempts = SetAttempts(s, {a \in LiveAttempts(s) : s.attempts[a].trial \in staged},
                                         "ABANDONED")]

-----------------------------------------------------------------------------
(***************************************************************************)
(* The mutations of publish_observation, commit_trial and rollback.        *)
(***************************************************************************)

\* The trial is observing and the attempt running from the first observation on.
UnderObservation(s, t, a) ==
  [s EXCEPT !.trials[t].state = IF @ \in {"ASSIGNED", "RUNNING"} THEN "OBSERVING" ELSE @,
            !.attempts[a].state = IF @ = "ISSUED" THEN "RUNNING" ELSE @]

\* Committed with a mistake: the trial does not count its commit.
CommittedUncounted(s, t, a) ==
  [s EXCEPT !.attempts[a] = [@ EXCEPT !.state = "COMPLETED", !.committed = TRUE],
            !.trials[t] = [@ EXCEPT !.state = "COMPLETED"]]

Committed(s, t, a) ==
  [s EXCEPT !.attempts[a] = [@ EXCEPT !.state = "COMPLETED", !.committed = TRUE],
            !.trials[t] = [@ EXCEPT !.state = "COMPLETED", !.committed_attempts = 1]]

\* The branches after a rollback: those the point knows are restored, a younger
\* one is retired or superseded.
RestoredBranches(s, authority) ==
  [b \in DOMAIN s.branches |->
     IF \E p \in authority : p.branch = b
     THEN LET p == CHOOSE p \in authority : p.branch = b
          IN  [state |-> p.state, generation |-> p.generation]
     ELSE [s.branches[b] EXCEPT !.state = IF @ = "ACTIVE" THEN "RETIRED" ELSE "SUPERSEDED"]]

RolledBack(s, point) ==
  [abandon_stale_live_work(s) EXCEPT
     !.generation = point.generation,
     !.branches = RestoredBranches(s, point.authority),
     !.rollback_points = Append(@, point),
     !.exp = IF @ \in {"FINALIZED", "SUPERSEDED"} THEN "OPEN" ELSE @]

-----------------------------------------------------------------------------
(***************************************************************************)
(* Validation: what a record has to satisfy when it is loaded, and before  *)
(* create_trial, fork_branch and rollback persist it.                      *)
(***************************************************************************)
ValidTrials(s) ==
  /\ \A t \in DOMAIN s.trials :
       /\ s.trials[t].branch \in DOMAIN s.branches
       /\ s.trials[t].generation # 0
       /\ s.trials[t].attempt_count <= AttemptsLimit
       /\ s.trials[t].authoritative_attempt # NoId =>
            s.trials[t].authoritative_attempt \in DOMAIN s.attempts
  /\ Cardinality(DOMAIN s.trials) <= Cardinality(DOMAIN s.branches) * MaxTrialsPerBranch

ValidAttempts(s) ==
  /\ \A a \in DOMAIN s.attempts :
       /\ s.attempts[a].trial \in DOMAIN s.trials
       /\ s.attempts[a].number \in 1 .. AttemptsLimit
  /\ Cardinality(DOMAIN s.attempts) <= Cardinality(DOMAIN s.trials) * AttemptsLimit
  /\ Cardinality({a \in DOMAIN s.attempts : s.attempts[a].committed}) =
     Cardinality({t \in DOMAIN s.trials : s.trials[t].committed_attempts = 1})

ObservationReferencesOK(s) ==
  /\ Len(s.observations) <= MaxObservations
  /\ \A n \in DOMAIN s.observations : /\ s.observations[n].trial \in DOMAIN s.trials
                                      /\ s.observations[n].attempt \in DOMAIN s.attempts

\* No identity twice, and one VALID observation per trial and metric at most.
ObservationsUnique(s) ==
  \A m, n \in DOMAIN s.observations :
    LET x == s.observations[m]  y == s.observations[n]
    IN  m # n => /\ <<x.attempt, x.metric>> # <<y.attempt, y.metric>>
                 /\ ~ (/\ x.trial = y.trial /\ x.metric = y.metric
                       /\ x.validity = "VALID" /\ y.validity = "VALID")

ValidArtifacts(s) ==
  /\ Cardinality(s.artifacts) <= MaxArtifacts
  /\ \A x \in s.artifacts : x[1] \in DOMAIN s.attempts

ValidDecisions(s) ==
  /\ Len(s.decisions) <= MaxDecisions
  /\ \A n \in DOMAIN s.decisions : s.decisions[n].candidate \in DOMAIN s.branches

ValidRollbackPoints(s) ==
  /\ Len(s.rollback_points) <= MaxDecisions
  /\ \A n \in DOMAIN s.rollback_points :
       \A p \in s.rollback_points[n].authority : p.branch \in DOMAIN s.branches

validate_record(s) ==
  /\ ValidTrials(s) /\ ValidAttempts(s)
  /\ ObservationReferencesOK(s) /\ ObservationsUnique(s)
  /\ ValidArtifacts(s) /\ ValidDecisions(s) /\ ValidRollbackPoints(s)

ValidWorkers(s) == \A v, w \in s.workers : v.inc = w.inc => v = w

ValidWatermarks(s) ==
  /\ \A b \in DOMAIN s.branches : b <= s.wm_branch
  /\ \A t \in DOMAIN s.trials : t <= s.wm_trial
  /\ \A a \in DOMAIN s.attempts : a <= s.wm_attempt

validate(s) == ValidWorkers(s) /\ validate_record(s) /\ ValidWatermarks(s)
=============================================================================
