------------------------------ MODULE Coordinator ------------------------------
(***************************************************************************)
(* The authoritative coordinator: one action per handler of class          *)
(* Coordinator, over the durable state of module CoordinatorState, the     *)
(* volatile state of the process, and the image on disk.                   *)
(*                                                                         *)
(* Every handler runs under the state lock from its first check to its     *)
(* last assignment, so a handler is one step.  What interleaves are the    *)
(* handlers themselves, called in any order by workers, by operators and   *)
(* by the network, and the crashes and restarts of the coordinator         *)
(* process.  A worker may present an envelope it was ever issued at any    *)
(* later time and any number of times: issued holds all of them, also the  *)
(* ones a crash made the coordinator forget.                               *)
(*                                                                         *)
(* A handler that refuses a call and changes nothing is not an action.     *)
(***************************************************************************)
EXTENDS StateInvariants

CONSTANTS
  EpochSeed,       \* config.epoch_seed, 0 when none is configured
  MaxTrialId,      \* bound: trial identities allocated
  MaxBranchId,     \* bound: branch identities allocated
  MaxGeneration,   \* bound: experiment generations
  MaxRollbackPoints, \* bound: recorded rollback points
  MaxCrashes,      \* bound: stops of the coordinator process
  MaxFaults,       \* bound: failed writes of the state image
  MaxArtifactRequest, \* bound: artifacts in one commit request
  WithServer       \* bound: whether the control plane is started and shut down

ASSUME BoundsAssumption ==
  /\ EpochSeed \in Nat /\ MaxTrialId \in Nat /\ MaxBranchId \in Nat /\ MaxGeneration \in Nat
  /\ MaxRollbackPoints \in Nat /\ MaxCrashes \in Nat /\ MaxFaults \in Nat
  /\ MaxArtifactRequest \in Nat /\ WithServer \in BOOLEAN

VARIABLES
  phase,      \* "down", "reconciling" (inside Coordinator::create) or "up"
  state,      \* impl.state: the durable state as the memory holds it
  disk,       \* the state image at config.state_path
  epoch,      \* impl.epoch; keeps its last value while the process is down
  live,       \* impl.live_workers: incarnation -> producer and revoked flag
  admitting,  \* impl.admitting_work
  server,     \* whether the control plane is running
  issued,     \* history: every envelope ever handed out by claim_trials
  acked,      \* history: <<trial, attempt>> of every commit answered with success
  crashes,    \* history: stops of the process so far
  faults      \* history: failed writes so far

vars == <<phase, state, disk, epoch, live, admitting, server, issued, acked, crashes, faults>>

LiveWorker == [producer : Nat, revoked : BOOLEAN]

\* AuthorityEnvelope.  The hypothesis and the policy are never replaced.
Envelope ==
  [epoch : Nat, inc : Incarnation, producer : Nat, generation : Nat,
   hypothesis_revision : Nat, branch : Nat, branch_generation : Nat,
   trial : Nat, attempt : Nat]

-----------------------------------------------------------------------------
\* The epoch that follows the durable high-water mark.
NextEpoch(last) == IF EpochSeed > last + 1 THEN EpochSeed ELSE last + 1

Init ==
  /\ phase = "up"
  /\ epoch = NextEpoch(0)
  /\ state = InitialState(epoch)
  /\ disk = state
  /\ live = [i \in {} |-> NoId]
  /\ admitting = TRUE /\ server = FALSE
  /\ issued = {} /\ acked = {} /\ crashes = 0 /\ faults = 0

(***************************************************************************)
(* persist_locked: the image on disk becomes the state in memory, or the   *)
(* write fails and the previous image stays.                               *)
(***************************************************************************)
persist_locked(ok) ==
  \/ ok /\ disk' = state' /\ UNCHANGED faults
  \/ ~ok /\ faults < MaxFaults /\ faults' = faults + 1 /\ UNCHANGED disk

\* What a handler that only works on the durable state leaves alone.
Volatile == <<phase, epoch, live, admitting, server, issued, acked, crashes>>

-----------------------------------------------------------------------------
(***************************************************************************)
(* The authority check that every publication, commit and failure passes.  *)
(***************************************************************************)
\* check_envelope with a mistake: it does not ask whether work is still admitted.
CheckWithoutAdmission(e) ==
  /\ e.epoch = epoch
  /\ e.inc \in DOMAIN live /\ ~live[e.inc].revoked /\ live[e.inc].producer = e.producer
  /\ is_experiment_mutable(state.exp)
  /\ e.trial \in DOMAIN state.trials /\ ~is_terminal(state.trials[e.trial].state)
  /\ state.trials[e.trial].authoritative_attempt = e.attempt

check_envelope(e) ==
  /\ admitting
  /\ e.epoch = epoch
  /\ e.inc \in DOMAIN live
  /\ ~live[e.inc].revoked
  /\ live[e.inc].producer = e.producer
  /\ is_experiment_mutable(state.exp)
  /\ e.generation = state.generation
  /\ e.hypothesis_revision = state.hypothesis_revision
  /\ e.branch \in DOMAIN state.branches
  /\ state.branches[e.branch].generation = e.branch_generation
  /\ is_branch_eligible(state.branches[e.branch].state)
  /\ e.trial \in DOMAIN state.trials
  /\ state.trials[e.trial].branch = e.branch
  /\ state.trials[e.trial].generation = e.generation
  /\ state.trials[e.trial].branch_generation = e.branch_generation
  /\ state.trials[e.trial].hypothesis_revision = e.hypothesis_revision
  /\ ~is_terminal(state.trials[e.trial].state)
  /\ state.trials[e.trial].authoritative_attempt = e.attempt
  /\ e.attempt \in DOMAIN state.attempts
  /\ state.attempts[e.attempt].inc = e.inc
  /\ state.attempts[e.attempt].epoch = e.epoch
  /\ ~is_attempt_terminal(state.attempts[e.attempt].state)

-----------------------------------------------------------------------------
(***************************************************************************)
(* Worker lifecycle.                                                       *)
(***************************************************************************)

\* The other live boots of the worker that incarnation i belongs to.
Replaced(i) == {j \in DOMAIN live : j[1] = i[1] /\ j # i /\ ~live[j].revoked}

RevokeLive(I) ==
  [j \in DOMAIN live |-> IF j \in I THEN [live[j] EXCEPT !.revoked = TRUE] ELSE live[j]]

\* A boot identity that was revoked, or that an earlier epoch issued, is
\* refused, and so is a registration beyond the limit.
RegistrationRefused(s, i) ==
  \/ \E w \in s.workers : w.inc = i /\ (w.revoked \/ w.epoch # epoch)
  \/ Cardinality(s.workers) >= MaxWorkers

\* register_worker of an incarnation that is not live yet.  Its predecessors are
\* revoked before the refusal is decided, and a refusal persists nothing.
RegisterWorker(i) ==
  LET lost == LoseProducers(state, Replaced(i))
      producer == state.next_worker_registration_sequence + 1
  IN  /\ phase = "up" /\ admitting
      /\ i \notin DOMAIN live
      /\ \/ /\ RegistrationRefused(lost, i)
            /\ state' = lost
            /\ live' = RevokeLive(Replaced(i))
            /\ UNCHANGED <<disk, faults>>
         \/ /\ ~RegistrationRefused(lost, i)
            /\ state' = [lost EXCEPT !.next_worker_registration_sequence = producer,
                                     !.workers = @ \cup {[inc |-> i, epoch |-> epoch,
                                                          producer |-> producer, revoked |-> FALSE]}]
            /\ live' = [j \in DOMAIN live \cup {i} |->
                          IF j = i THEN [producer |-> producer, revoked |-> FALSE]
                                   ELSE RevokeLive(Replaced(i))[j]]
            /\ \E ok \in BOOLEAN : persist_locked(ok)
      /\ UNCHANGED <<phase, epoch, admitting, server, issued, acked, crashes>>

RevokeWorker(i) ==
  /\ phase = "up"
  /\ i \in DOMAIN live
  /\ live' = RevokeLive({i})
  /\ state' = LoseProducers(state, {i})
  /\ \E ok \in BOOLEAN : persist_locked(ok)
  /\ UNCHANGED <<phase, epoch, admitting, server, issued, acked, crashes>>

(***************************************************************************)
(* claim_trials walks the trials in identity order and issues a fresh      *)
(* attempt for each one it may, until the budget is used up.  picked is    *)
(* the walk's result: an increasing choice of claimable trials that leaves *)
(* out none before its last.                                               *)
(***************************************************************************)
\* Claimable with a mistake: the retry policy is not asked.
ClaimableUnderAnyPolicy ==
  {t \in DOMAIN state.trials :
     /\ is_experiment_mutable(state.exp)
     /\ state.trials[t].state = "READY" /\ state.trials[t].attempt_count < MaxAttempts}

Claimable ==
  {t \in DOMAIN state.trials :
     LET trial == state.trials[t]
     IN  /\ is_experiment_mutable(state.exp)
         /\ trial.state = "READY"
         /\ trial.generation = state.generation
         /\ trial.hypothesis_revision = state.hypothesis_revision
         /\ trial.attempt_count < MaxAttempts
         /\ ~(RetryPolicy = "NO_RETRY" /\ trial.attempt_count > 0)
         /\ trial.branch \in DOMAIN state.branches
         /\ is_branch_eligible(state.branches[trial.branch].state)
         /\ state.branches[trial.branch].generation = trial.branch_generation}

\* Monus: subtraction stopped at zero, as the head-room computation does it.
Monus(x, y) == IF x > y THEN x - y ELSE 0

\* ClaimBudget with a mistake: what the worker already holds is not counted.
ClaimBudgetPerCall(i, max_claims) == Min2(max_claims, MaxConcurrent)

ClaimBudget(i, max_claims) ==
  Min2(Min2(max_claims, Monus(MaxConcurrent, Cardinality(ActiveOf(state, i)))),
       Monus(Cardinality(DOMAIN state.trials) * AttemptsLimit + 16,
             Cardinality(DOMAIN state.attempts)))

WalkTakes(picked, budget) ==
  /\ \A j, k \in DOMAIN picked : j < k => picked[j] < picked[k]
  /\ \A t \in Claimable : \/ \E k \in DOMAIN picked : picked[k] = t
                          \/ /\ Len(picked) = budget
                             /\ \A k \in DOMAIN picked : picked[k] < t

IssuedTo(i, t) ==
  [number |-> state.trials[t].next_attempt_number, trial |-> t,
   branch |-> state.trials[t].branch, inc |-> i, epoch |-> epoch,
   producer |-> live[i].producer, state |-> "ISSUED", committed |-> FALSE]

EnvelopeFor(i, t, a) ==
  [epoch |-> epoch, inc |-> i, producer |-> live[i].producer,
   generation |-> state.generation, hypothesis_revision |-> state.hypothesis_revision,
   branch |-> state.trials[t].branch, branch_generation |-> state.trials[t].branch_generation,
   trial |-> t, attempt |-> a]

ClaimTrials(i, max_claims) ==
  /\ phase = "up" /\ admitting
  /\ i \in DOMAIN live /\ ~live[i].revoked
  /\ \E n \in 1 .. max_claims : \E picked \in [1 .. n -> Claimable] :
       LET wm == state.wm_attempt
       IN  /\ n <= ClaimBudget(i, max_claims)
           /\ WalkTakes(picked, ClaimBudget(i, max_claims))
           /\ state' =
                [state EXCEPT
                   !.wm_attempt = wm + n,
                   !.attempts = [a \in DOMAIN state.attempts \cup (wm + 1 .. wm + n) |->
                                   IF a \in wm + 1 .. wm + n THEN IssuedTo(i, picked[a - wm])
                                                             ELSE state.attempts[a]],
                   !.trials = [t \in DOMAIN state.trials |->
                                 IF \E k \in 1 .. n : picked[k] = t
                                 THEN [state.trials[t] EXCEPT
                                         !.attempt_count = @ + 1,
                                         !.next_attempt_number = @ + 1,
                                         !.authoritative_attempt =
                                            wm + (CHOOSE k \in 1 .. n : picked[k] = t),
                                         !.state = "ASSIGNED"]
                                 ELSE state.trials[t]]]
           /\ issued' = issued \cup {EnvelopeFor(i, picked[k], wm + k) : k \in 1 .. n}
  /\ \E ok \in BOOLEAN : persist_locked(ok)
  /\ UNCHANGED <<phase, epoch, live, admitting, server, acked, crashes>>

-----------------------------------------------------------------------------
(***************************************************************************)
(* Evidence.                                                               *)
(***************************************************************************)

\* The envelope of a publication takes the revision from the record itself.
ObservationEnvelope(e) == [e EXCEPT !.hypothesis_revision = state.hypothesis_revision]

\* publish_observation without authority: the rejection is recorded, and the
\* observation kept as INVALID history where the experiment asks for that.
RejectObservation(e, m) ==
  /\ phase = "up"
  /\ ~check_envelope(ObservationEnvelope(e))
  /\ state' = [state EXCEPT
       !.rejected = Min2(@ + 1, RejectedCap),
       !.observations =
          IF LateEvidencePolicy = "RETAIN_HISTORICAL" /\ Len(@) < MaxObservations
          THEN Append(@, [trial |-> e.trial, attempt |-> e.attempt, metric |-> m,
                          validity |-> "INVALID"])
          ELSE @]
  /\ \E ok \in BOOLEAN : persist_locked(ok)
  /\ UNCHANGED Volatile

\* ObservationIsNew with a mistake: a conflicting re-use of an identity is new.
ObservationIsNewContent(e, m, v) ==
  \A n \in DOMAIN state.observations :
    LET o == state.observations[n]
    IN  <<o.attempt, o.metric, o.validity>> # <<e.attempt, m, v>>

\* A known identity is a duplicate delivery or a conflict: neither changes anything.
ObservationIsNew(e, m, v) ==
  \A n \in DOMAIN state.observations :
    LET o == state.observations[n]
    IN  /\ <<o.attempt, o.metric>> # <<e.attempt, m>>
        /\ ~ (/\ v = "VALID" /\ o.validity = "VALID"
              /\ o.trial = e.trial /\ o.metric = m /\ o.attempt = e.attempt)

ObservationRoom ==
  /\ Len(state.observations) < MaxObservations
  /\ LET n == Cardinality(DOMAIN state.trials)
     IN  Len(state.observations) < MaxObsPerTrial * (IF n = 0 THEN 1 ELSE n)

\* publish_observation with authority.  A failed write takes the observation
\* back and leaves the states of trial and attempt as they are.
PublishObservation(e, m, v) ==
  /\ phase = "up"
  /\ check_envelope(ObservationEnvelope(e))
  /\ ObservationIsNew(e, m, v) /\ ObservationRoom
  /\ LET observed == UnderObservation(state, e.trial, e.attempt)
         o == [trial |-> e.trial, attempt |-> e.attempt, metric |-> m, validity |-> v]
     IN  \E ok \in BOOLEAN :
           /\ state' = IF ok THEN [observed EXCEPT !.observations = Append(@, o)] ELSE observed
           /\ persist_locked(ok)
  /\ UNCHANGED Volatile

\* publish_artifact takes the branch generation and the producer from the record.
ArtifactEnvelope(e) ==
  [e EXCEPT !.hypothesis_revision = state.hypothesis_revision,
            !.branch_generation = state.branches[e.branch].generation,
            !.producer = state.attempts[e.attempt].producer]

ArtifactAddressed(e) == e.branch \in DOMAIN state.branches /\ e.attempt \in DOMAIN state.attempts

RejectArtifact(e) ==
  /\ phase = "up"
  /\ ArtifactAddressed(e) /\ ~check_envelope(ArtifactEnvelope(e))
  /\ state' = [state EXCEPT !.rejected = Min2(@ + 1, RejectedCap)]
  /\ \E ok \in BOOLEAN : persist_locked(ok)
  /\ UNCHANGED Volatile

PublishArtifact(e, k) ==
  /\ phase = "up"
  /\ ArtifactAddressed(e) /\ check_envelope(ArtifactEnvelope(e))
  /\ Cardinality(state.artifacts) < MaxArtifacts
  /\ Cardinality(ArtifactsOf(state, e.trial)) < MaxArtifactsPerAttempt
  /\ <<e.attempt, k>> \notin state.artifacts
  /\ \E ok \in BOOLEAN :
       /\ state' = IF ok THEN [state EXCEPT !.artifacts = @ \cup {<<e.attempt, k>>}] ELSE state
       /\ persist_locked(ok)
  /\ UNCHANGED Volatile

(***************************************************************************)
(* commit_trial registers the submitted artifacts one by one.  The first   *)
(* one it cannot register ends the call: the ones before it stay in memory *)
(* and nothing is committed or persisted.  In a request, 0 is an artifact  *)
(* with an empty or overlong locator.                                      *)
(***************************************************************************)
Registers(e, arts, n) ==
  /\ Cardinality(state.artifacts) + n - 1 < MaxArtifacts
  /\ Cardinality(ArtifactsOf(state, e.trial)) + n - 1 < MaxArtifactsPerAttempt
  /\ arts[n] # 0
  /\ <<e.attempt, arts[n]>> \notin state.artifacts
  /\ \A j \in 1 .. n - 1 : arts[j] # arts[n]

WithArtifacts(e, arts, J) ==
  [state EXCEPT !.artifacts = @ \cup {<<e.attempt, arts[j]>> : j \in J}]

CommitAllowed(e) ==
  /\ phase = "up"
  /\ check_envelope(e)
  /\ ObservationsOf(state, e.trial, e.attempt) # {}

CommitRefused(e, arts) ==
  /\ CommitAllowed(e)
  /\ \E n \in DOMAIN arts :
       /\ ~Registers(e, arts, n)
       /\ \A j \in 1 .. n - 1 : Registers(e, arts, j)
       /\ state' = WithArtifacts(e, arts, 1 .. n - 1)
  /\ UNCHANGED <<disk, faults>> /\ UNCHANGED Volatile

\* CommitTrial with a mistake: success is answered whether or not the write worked.
CommitAckedEarly(e, arts) ==
  /\ CommitAllowed(e)
  /\ \A n \in DOMAIN arts : Registers(e, arts, n)
  /\ state' = Committed(WithArtifacts(e, arts, DOMAIN arts), e.trial, e.attempt)
  /\ \E ok \in BOOLEAN : persist_locked(ok)
  /\ acked' = acked \cup {<<e.trial, e.attempt>>}
  /\ UNCHANGED <<phase, epoch, live, admitting, server, issued, crashes>>

CommitTrial(e, arts) ==
  /\ CommitAllowed(e)
  /\ \A n \in DOMAIN arts : Registers(e, arts, n)
  /\ "COMPLETED" \in AttemptSuccessors(state.attempts[e.attempt].state)
  /\ state' = Committed(WithArtifacts(e, arts, DOMAIN arts), e.trial, e.attempt)
  /\ \E ok \in BOOLEAN :
       /\ persist_locked(ok)
       /\ acked' = IF ok THEN acked \cup {<<e.trial, e.attempt>>} ELSE acked
  /\ UNCHANGED <<phase, epoch, live, admitting, server, issued, crashes>>

\* FailTrial with a mistake: the attempt that failed stays live.
FailTrialOnly(e, retryable) ==
  /\ phase = "up"
  /\ check_envelope(e)
  /\ state' = [state EXCEPT
       !.trials[e.trial] = Requeue(@, retryable /\ RetryRemains(@))]
  /\ \E ok \in BOOLEAN : persist_locked(ok)
  /\ UNCHANGED Volatile

\* fail_trial: the attempt fails, the trial is requeued or fails with it, and
\* the branch is invalidated where the experiment asks for that.
FailTrial(e, retryable) ==
  /\ phase = "up"
  /\ check_envelope(e)
  /\ LET trial == state.trials[e.trial]
         branch == state.branches[trial.branch]
     IN  state' = [state EXCEPT
           !.attempts[e.attempt].state = "FAILED",
           !.trials[e.trial] = Requeue(trial, retryable /\ RetryRemains(trial)),
           !.branches[trial.branch].state =
              IF /\ PartialFailurePolicy = "INVALIDATE_BRANCH"
                 /\ "INVALID" \in BranchSuccessors(branch.state)
              THEN "INVALID" ELSE @]
  /\ \E ok \in BOOLEAN : persist_locked(ok)
  /\ UNCHANGED Volatile

-----------------------------------------------------------------------------
(***************************************************************************)
(* Definition operations.                                                  *)
(***************************************************************************)
NewTrial(b) ==
  [branch |-> b, generation |-> state.generation,
   branch_generation |-> state.branches[b].generation,
   hypothesis_revision |-> state.hypothesis_revision, state |-> "READY",
   attempt_count |-> 0, next_attempt_number |-> 1, authoritative_attempt |-> NoId,
   committed_attempts |-> 0]

\* create_trial.  When the record does not validate or the write fails, the trial
\* is erased again and only the watermark has moved.
CreateTrial(b) ==
  LET id == state.wm_trial + 1
      numbered == [state EXCEPT !.wm_trial = id]
      created == [numbered EXCEPT
                    !.trials = [t \in DOMAIN state.trials \cup {id} |->
                                  IF t = id THEN NewTrial(b) ELSE state.trials[t]]]
  IN  /\ phase = "up"
      /\ state.wm_trial < MaxTrialId
      /\ is_experiment_mutable(state.exp)
      /\ b \in DOMAIN state.branches /\ is_branch_eligible(state.branches[b].state)
      /\ Cardinality({t \in TrialsOf(state, b) : state.trials[t].generation = state.generation})
           < PlannedTrials
      /\ Cardinality(DOMAIN state.trials) < Cardinality(DOMAIN state.branches) * MaxTrialsPerBranch
      /\ \/ /\ ~validate_record(created)
            /\ state' = numbered
            /\ UNCHANGED <<disk, faults>>
         \/ /\ validate_record(created)
            /\ \E ok \in BOOLEAN : /\ state' = IF ok THEN created ELSE numbered
                                   /\ persist_locked(ok)
      /\ UNCHANGED Volatile

ReviseHypothesis ==
  /\ phase = "up"
  /\ is_experiment_mutable(state.exp)
  /\ state.hypothesis_revision < MaxGeneration
  /\ state' = [abandon_stale_live_work(state) EXCEPT !.hypothesis_revision = @ + 1,
                                                     !.generation = @ + 1]
  /\ \E ok \in BOOLEAN : persist_locked(ok)
  /\ UNCHANGED Volatile

\* fork_branch, with the same undo as create_trial.
ForkBranch(parent) ==
  LET id == state.wm_branch + 1
      numbered == [state EXCEPT !.wm_branch = id]
      forked == [numbered EXCEPT
                   !.branches = [b \in DOMAIN state.branches \cup {id} |->
                                   IF b = id THEN [state |-> "ACTIVE", generation |-> 1]
                                             ELSE state.branches[b]]]
  IN  /\ phase = "up"
      /\ state.wm_branch < MaxBranchId
      /\ is_experiment_mutable(state.exp)
      /\ parent \in DOMAIN state.branches
      /\ state.branches[parent].state \notin {"INVALID", "SUPERSEDED"}
      /\ Cardinality(DOMAIN state.branches) < MaxBranches
      /\ \/ /\ ~validate_record(forked)
            /\ state' = numbered
            /\ UNCHANGED <<disk, faults>>
         \/ /\ validate_record(forked)
            /\ \E ok \in BOOLEAN : /\ state' = IF ok THEN forked ELSE numbered
                                   /\ persist_locked(ok)
      /\ UNCHANGED Volatile

\* retire_branch looks at the state of the branch only, not of the experiment.
RetireBranch(b) ==
  /\ phase = "up"
  /\ b \in DOMAIN state.branches
  /\ "RETIRED" \in BranchSuccessors(state.branches[b].state)
  /\ state' = [state EXCEPT
       !.branches[b] = [state |-> "RETIRED", generation |-> @.generation + 1],
       !.trials = SetTrials(state, OpenTrials(state) \cap TrialsOf(state, b), "SUPERSEDED"),
       !.attempts = SetAttempts(state, {a \in LiveAttempts(state) : state.attempts[a].branch = b},
                                "ABANDONED")]
  /\ \E ok \in BOOLEAN : persist_locked(ok)
  /\ UNCHANGED Volatile

-----------------------------------------------------------------------------
(***************************************************************************)
(* Cancellation.                                                           *)
(***************************************************************************)
\* CancelTrial with a mistake: a trial that has ended can be cancelled.
CancelAnyTrial(t) ==
  /\ phase = "up"
  /\ t \in DOMAIN state.trials
  /\ state' = [state EXCEPT !.trials = SetTrials(state, {t}, "CANCELLED")]
  /\ \E ok \in BOOLEAN : persist_locked(ok)
  /\ UNCHANGED Volatile

CancelTrial(t) ==
  /\ phase = "up"
  /\ t \in OpenTrials(state)
  /\ state' = [state EXCEPT
       !.trials = SetTrials(state, {t}, "CANCELLED"),
       !.attempts = SetAttempts(state, {a \in LiveAttempts(state) : state.attempts[a].trial = t},
                                "CANCELLED")]
  /\ \E ok \in BOOLEAN : persist_locked(ok)
  /\ UNCHANGED Volatile

CancelExperiment ==
  /\ phase = "up"
  /\ "CANCELLED" \in ExperimentSuccessors(state.exp)
  /\ state' = [state EXCEPT
       !.exp = "CANCELLED",
       !.trials = SetTrials(state, OpenTrials(state), "CANCELLED"),
       !.attempts = SetAttempts(state, LiveAttempts(state), "CANCELLED")]
  /\ \E ok \in BOOLEAN : persist_locked(ok)
  /\ UNCHANGED Volatile

-----------------------------------------------------------------------------
(***************************************************************************)
(* Decision and rollback.                                                  *)
(***************************************************************************)

ClosedOutcome(exp) ==
  CASE exp = "CANCELLED" -> "CANCELLED"
    [] exp = "SUPERSEDED" -> "SUPERSEDED"
    [] exp = "RECOVERING" -> "INSUFFICIENT_EVIDENCE"
    [] exp = "FINALIZED" -> "INVALID"

IneligibleOutcome(branch_state) ==
  CASE branch_state = "INVALID" -> "INVALID"
    [] branch_state = "SUPERSEDED" -> "SUPERSEDED"
    [] branch_state = "RETIRED" -> "INSUFFICIENT_EVIDENCE"

EnoughEvidence(s, c) ==
  /\ is_branch_eligible(s.branches[Baseline].state)
  /\ \A b \in {c, Baseline} : Cardinality(authoritative_trials(s, b)) >= MinCompletedTrials

\* The outcomes build_decision can reach.  The first constraint that fails decides:
\* the state of the experiment, of the candidate, of the baseline, and the number
\* of completed trials.  What depends on the measured values, the environments and
\* the comparison rules is left open.
Outcomes(s, c) ==
  IF c \notin DOMAIN s.branches \/ c = Baseline THEN {"INVALID"}
  ELSE IF s.exp # "OPEN" THEN {ClosedOutcome(s.exp)}
  ELSE IF ~is_branch_eligible(s.branches[c].state) THEN {IneligibleOutcome(s.branches[c].state)}
  ELSE IF ~EnoughEvidence(s, c) THEN {"INSUFFICIENT_EVIDENCE"}
  ELSE {"ACCEPT", "REJECT", "INCONCLUSIVE", "INSUFFICIENT_EVIDENCE", "INVALID"}

StateAfter(outcome, exp) ==
  CASE outcome \in {"ACCEPT", "REJECT", "INVALID"} -> "FINALIZED"
    [] outcome \in {"CANCELLED", "SUPERSEDED"} -> outcome
    [] outcome \in {"INCONCLUSIVE", "INSUFFICIENT_EVIDENCE"} -> exp

Snapshots(s) ==
  {[branch |-> b, state |-> s.branches[b].state, generation |-> s.branches[b].generation] :
     b \in DOMAIN s.branches}

\* finalize_experiment.  Live work is left as it is, and a decision is recorded
\* for whatever candidate the caller names.
FinalizeExperiment(c, outcome) ==
  /\ phase = "up"
  /\ state.exp # "FINALIZED"
  /\ Len(state.decisions) < MaxDecisions
  /\ outcome \in Outcomes(state, c)
  /\ state' = [state EXCEPT
       !.decisions = Append(@, [candidate |-> c, outcome |-> outcome]),
       !.exp = StateAfter(outcome, @),
       !.rollback_points =
          IF outcome \in {"ACCEPT", "REJECT", "INVALID"}
          THEN Append(@, [generation |-> state.generation, authority |-> Snapshots(state)])
          ELSE @]
  /\ \E ok \in BOOLEAN : persist_locked(ok)
  /\ UNCHANGED Volatile

\* rollback to the last point recorded for the target generation.  A record that
\* does not validate afterwards stays in memory and is not persisted.
Rollback(target) ==
  /\ phase = "up"
  /\ state.exp # "CANCELLED"
  /\ Len(state.rollback_points) < MaxRollbackPoints
  /\ ~(target = state.generation /\ state.exp = "OPEN")
  /\ \E n \in DOMAIN state.rollback_points :
       /\ state.rollback_points[n].generation = target
       /\ \A m \in DOMAIN state.rollback_points :
            state.rollback_points[m].generation = target => m <= n
       /\ state' = RolledBack(state, state.rollback_points[n])
  /\ \/ validate_record(state') /\ \E ok \in BOOLEAN : persist_locked(ok)
     \/ ~validate_record(state') /\ UNCHANGED <<disk, faults>>
  /\ UNCHANGED Volatile

-----------------------------------------------------------------------------
(***************************************************************************)
(* The process: control plane, stop, start and recovery.                   *)
(***************************************************************************)
StartServer ==
  /\ phase = "up" /\ WithServer /\ ~server
  /\ server' = TRUE /\ admitting' = TRUE
  /\ UNCHANGED <<phase, state, disk, epoch, live, issued, acked, crashes, faults>>

RequestShutdown ==
  /\ phase = "up" /\ WithServer
  /\ admitting' = FALSE
  /\ UNCHANGED <<phase, state, disk, epoch, live, server, issued, acked, crashes, faults>>

\* stop_server stops admitting, joins the connection threads and saves.  What the
\* threads still do before they are joined, they do as after a RequestShutdown.
StopServer ==
  /\ phase = "up" /\ server
  /\ server' = FALSE /\ admitting' = FALSE
  /\ UNCHANGED <<phase, state, epoch, live, issued, acked, crashes>>
  /\ \E ok \in BOOLEAN : persist_locked(ok)

\* The process exits or is killed, possibly in the middle of its recovery.
Crash ==
  /\ phase # "down" /\ crashes < MaxCrashes
  /\ crashes' = crashes + 1
  /\ phase' = "down" /\ state' = disk
  /\ live' = [i \in {} |-> NoId] /\ admitting' = TRUE /\ server' = FALSE
  /\ UNCHANGED <<disk, epoch, issued, acked, faults>>

\* Create with a mistake: it serves the image as it was left.
CreateWithoutRecovery ==
  LET loaded == [disk EXCEPT !.last_epoch = NextEpoch(disk.last_epoch)]
  IN  /\ phase = "down" /\ validate(disk)
      /\ phase' = "up" /\ epoch' = loaded.last_epoch /\ state' = loaded
      /\ UNCHANGED <<disk, live, admitting, server, issued, acked, crashes, faults>>

\* Coordinator::create: load, mint the epoch, first pass of recovery.  The epoch
\* becomes durable with the next write only.
Create ==
  LET loaded == [disk EXCEPT !.last_epoch = NextEpoch(disk.last_epoch)]
  IN  /\ phase = "down" /\ validate(disk)
      /\ \/ /\ ~RecoveryTouches(loaded)
            /\ phase' = "up" /\ epoch' = loaded.last_epoch /\ state' = Demoted(loaded)
            /\ UNCHANGED <<disk, faults>>
         \/ /\ RecoveryTouches(loaded)
            /\ \E ok \in BOOLEAN :
                 /\ epoch' = loaded.last_epoch
                 /\ phase' = IF ok THEN "reconciling" ELSE "down"
                 /\ IF ok THEN state' = Demoted(loaded) /\ persist_locked(TRUE)
                          ELSE UNCHANGED state /\ persist_locked(FALSE)
      /\ UNCHANGED <<live, admitting, server, issued, acked, crashes>>

\* An image that does not validate cannot be loaded: create returns the error.
CreateRefused ==
  /\ phase = "down" /\ ~validate(disk)
  /\ UNCHANGED vars

\* The second pass of recovery.
Reconcile ==
  /\ phase = "reconciling"
  /\ \E ok \in BOOLEAN :
       /\ phase' = IF ok THEN "up" ELSE "down"
       /\ IF ok THEN state' = Resolved(state) /\ persist_locked(TRUE)
                ELSE state' = disk /\ persist_locked(FALSE)
  /\ UNCHANGED <<epoch, live, admitting, server, issued, acked, crashes>>

-----------------------------------------------------------------------------
ArtifactRequests == UNION {[1 .. n -> 0 .. MaxArtifactsPerAttempt] : n \in 0 .. MaxArtifactRequest}

WorkerStep ==
  \/ \E i \in Incarnation : RegisterWorker(i)
  \/ \E i \in Incarnation, max_claims \in 1 .. MaxConcurrent : ClaimTrials(i, max_claims)
  \/ \E e \in issued, m \in Metrics : RejectObservation(e, m)
  \/ \E e \in issued, m \in Metrics, v \in Validities : PublishObservation(e, m, v)
  \/ \E e \in issued : RejectArtifact(e)
  \/ \E e \in issued, k \in 1 .. MaxArtifactsPerAttempt : PublishArtifact(e, k)
  \/ \E e \in issued, arts \in ArtifactRequests : CommitTrial(e, arts)
  \/ \E e \in issued, arts \in ArtifactRequests : CommitRefused(e, arts)
  \/ \E e \in issued, retryable \in BOOLEAN : FailTrial(e, retryable)

OperatorStep ==
  \/ \E i \in Incarnation : RevokeWorker(i)
  \/ \E b \in 1 .. MaxBranches : CreateTrial(b)
  \/ \E b \in 1 .. MaxBranches : ForkBranch(b)
  \/ \E b \in 1 .. MaxBranches : RetireBranch(b)
  \/ ReviseHypothesis
  \/ \E t \in 1 .. MaxTrialId : CancelTrial(t)
  \/ CancelExperiment
  \/ \E c \in 1 .. MaxBranches + 1, outcome \in DecisionOutcomes : FinalizeExperiment(c, outcome)
  \/ \E g \in 1 .. MaxGeneration : Rollback(g)

ProcessStep ==
  \/ StartServer \/ RequestShutdown \/ StopServer
  \/ Crash \/ Create \/ CreateRefused \/ Reconcile

Next == WorkerStep \/ OperatorStep \/ ProcessStep

Spec == Init /\ [][Next]_vars

-----------------------------------------------------------------------------
(***************************************************************************)
(* Type invariant.                                                         *)
(***************************************************************************)
\* Every field of memory, image and process holds a value of its declared type.
TypeOK ==
  /\ phase \in {"down", "reconciling", "up"}
  /\ StateType(state) /\ StateType(disk)
  /\ epoch \in Nat \ {0}
  /\ DOMAIN live \subseteq Incarnation /\ live \in [DOMAIN live -> LiveWorker]
  /\ admitting \in BOOLEAN /\ server \in BOOLEAN
  /\ issued \subseteq Envelope /\ acked \subseteq Nat \X Nat
  /\ crashes \in Nat /\ faults \in Nat

-----------------------------------------------------------------------------
(***************************************************************************)
(* Safety.  A predicate on a state is asked of the memory and of the image *)
(* on disk: what a restart would load has to be as good as what is served. *)
(***************************************************************************)

\* At most one attempt of a logical trial is ever live, in memory and on disk: it
\* is the authoritative one of an open trial, whatever was retried, revoked,
\* superseded, cancelled or recovered in between.
OneLiveAttemptPerTrial == LiveIsAuthoritative(state) /\ LiveIsAuthoritative(disk)

\* Exactly one attempt commits a logical trial (README, "Hypothesis, branch
\* and trial model"): no
\* retry, duplicate commit, crash or re-issued identity ever adds a second.
ExactlyOneCommit == CommitIsUnique(state) /\ CommitIsUnique(disk)

\* No open trial outlives the generation it was created in.  Recovery and rollback
\* rely on it: recovery never compares the hypothesis revision, and rollback brings
\* earlier generation numbers back.
NoStaleOpenTrial == OpenIsCurrent(state) /\ OpenIsCurrent(disk)

\* While the coordinator serves, every live attempt was issued in the current epoch
\* to an incarnation that is registered, not revoked, and still has the producer
\* identity of the attempt: recovery and revocation leave no orphan behind.
LiveAttemptHasLiveOwner ==
  phase = "up" =>
    \A a \in LiveAttempts(state) :
      LET attempt == state.attempts[a]
      IN  /\ attempt.epoch = epoch
          /\ attempt.inc \in DOMAIN live
          /\ ~live[attempt.inc].revoked
          /\ live[attempt.inc].producer = attempt.producer

\* The head-room of claim_trials bounds the live attempts of every incarnation, in
\* memory and on disk, without any counter that would have to be given back.
HeadRoomRespected == HeadRoom(state) /\ HeadRoom(disk)

\* Attempts are numbered in order within the retry budget, in memory and on disk: a
\* retry after a failure, a revocation or a recovery never reuses a number.
AttemptsWithinBudget == NumberedInOrder(state) /\ NumberedInOrder(disk)

\* No completion without evidence, in memory or after a restart: the observation
\* is never lost while the completion that used it is kept.
CompletionHasEvidence == RestsOnEvidence(state) /\ RestsOnEvidence(disk)

\* A commit that was answered with success is on disk, committed by the attempt
\* that was told so: a crash at any later moment does not undo it.
AckedCommitIsDurable ==
  \A x \in acked : /\ x[1] \in DOMAIN disk.trials /\ x[2] \in DOMAIN disk.attempts
                   /\ disk.trials[x[1]].state = "COMPLETED"
                   /\ disk.trials[x[1]].authoritative_attempt = x[2]
                   /\ disk.attempts[x[2]].committed

\* The parts of the load-time validation that no history of calls, crashes and
\* failed writes can make an image fail.
ImageStructureValid ==
  /\ ValidWorkers(disk) /\ ValidTrials(disk) /\ ValidAttempts(disk)
  /\ ValidArtifacts(disk) /\ ValidWatermarks(disk)

\* The image on disk can be loaded: CoordinatorState::validate accepts it, so that
\* a restart succeeds (README, "Persistence and recovery").
ImageLoadable == validate(disk)

\* The outcome of a trial is final once it is durable: a trial that is terminal on
\* disk has the same terminal state on disk ever after.
DurableOutcomeIsFinal ==
  [][\A t \in DOMAIN disk.trials : is_terminal(disk.trials[t].state) =>
       /\ t \in DOMAIN disk'.trials
       /\ disk'.trials[t].state = disk.trials[t].state]_vars

\* Every step that changes the state of an attempt follows the attempt table of
\* is_valid_transition; a crash, which goes back to the image, is not such a step.
AttemptsFollowTable ==
  [][phase' # "down" =>
       \A a \in DOMAIN state.attempts \cap DOMAIN state'.attempts :
         state'.attempts[a].state = state.attempts[a].state
           \/ state'.attempts[a].state \in AttemptSuccessors(state.attempts[a].state)]_vars

\* Once shutdown was requested and until the server is started again, no worker
\* registers, no attempt is issued, no evidence is accepted, no trial completes, and no
\* attempt is given back as failed by its worker, while operators may still cancel,
\* revoke and decide.
ShutdownFencesWork ==
  [][phase = "up" /\ phase' = "up" /\ ~admitting =>
       /\ DOMAIN live' = DOMAIN live /\ issued' = issued /\ acked' = acked
       /\ state'.artifacts = state.artifacts
       /\ LateEvidencePolicy = "REJECT_AND_RECORD" => state'.observations = state.observations
       /\ \A t \in DOMAIN state.trials :
            state'.trials[t].state = "COMPLETED" => state.trials[t].state = "COMPLETED"
       /\ \A a \in DOMAIN state.attempts :
            state'.attempts[a].state = "FAILED" => state.attempts[a].state = "FAILED"]_vars

-----------------------------------------------------------------------------
(***************************************************************************)
(* The inductive invariant behind the theorems of module CoordinatorProofs.*)
(***************************************************************************)

\* Memory and image are each consistent, the memory has kept whatever the image has
\* settled, recovery has staged every open trial before it resolves any, and every
\* acknowledged commit is settled in the image.
AuthorityInvariant ==
  /\ TypeOK /\ StateInv(state) /\ StateInv(disk)
  /\ Keeps(disk, state)
  /\ phase = "reconciling" =>
       \A t \in OpenTrials(state) : state.trials[t].state = "REVALIDATION_REQUIRED"
  /\ LiveAttemptHasLiveOwner /\ AckedCommitIsDurable

\* The books of memory and image are in order.  While the process is down the memory is
\* the image; while it is not, the memory has the epoch of the process, and a worker that
\* is registered in that epoch and not revoked is live, so that register_worker never
\* records an incarnation twice.
BooksInvariant ==
  /\ Books(state) /\ Books(disk)
  /\ phase = "down" => state = disk
  /\ phase # "down" =>
       /\ state.last_epoch = epoch
       /\ \A w \in state.workers : w.epoch = epoch /\ ~w.revoked => w.inc \in DOMAIN live
=============================================================================
