-------------------------- MODULE CoordinatorProofs --------------------------
(***************************************************************************)
(* The invariants and step properties of module Coordinator hold for every *)
(* number of workers, trials, attempts, crashes and failed writes.         *)
(*                                                                         *)
(* StateInvariantsProofs shows that what a handler makes of a consistent   *)
(* state is consistent, and likewise for the books; HandlerProofs and      *)
(* BooksStepProofs lift that to the actions, and this module lifts both    *)
(* to the behaviours.                                                      *)
(***************************************************************************)
EXTENDS HandlerProofs, BooksStepProofs

-----------------------------------------------------------------------------
(***************************************************************************)
(* The theorems.                                                           *)
(***************************************************************************)

\* What create_experiment leaves behind satisfies the invariant.
LEMMA InitInvariant == Init => AuthorityInvariant
<1> SUFFICES ASSUME Init PROVE AuthorityInvariant
  OBVIOUS
<1>1. /\ phase = "up" /\ epoch = NextEpoch(0) /\ state = InitialState(epoch) /\ disk = state
      /\ live = [i \in {} |-> NoId] /\ admitting = TRUE /\ server = FALSE
      /\ issued = {} /\ acked = {} /\ crashes = 0 /\ faults = 0
  BY DEF Init
<1>2. epoch \in Nat \ {0}
  BY ZenonT(60), <1>1, NextEpochType
<1>3. /\ DOMAIN state = StateFields /\ state.exp = "OPEN"
      /\ state.generation = 1 /\ state.hypothesis_revision = 1
      /\ state.branches = [b \in 1 .. InitialBranches |-> [state |-> "ACTIVE", generation |-> 1]]
      /\ state.trials = EmptyMap /\ state.attempts = EmptyMap
      /\ state.observations = << >> /\ state.artifacts = {} /\ state.rejected = 0
      /\ state.decisions = << >> /\ state.rollback_points = << >> /\ state.workers = {}
      /\ state.last_epoch = epoch /\ state.next_worker_registration_sequence = 0
      /\ state.wm_branch = InitialBranches /\ state.wm_trial = 0 /\ state.wm_attempt = 0
  BY ZenonT(60), <1>1 DEF InitialState, StateFields
<1>4. InitialBranches \in Nat \ {0} /\ RejectedCap \in Nat
  BY ZenonT(60), DefinitionAssumption, LimitsAssumption
<1>5. DOMAIN EmptyMap = {} /\ IsMap(EmptyMap, TrialRecord) /\ IsMap(EmptyMap, AttemptRecord)
  BY ZenonT(60) DEF EmptyMap, IsMap
<1>6. /\ IsMap(state.branches, BranchRecord) /\ DOMAIN state.branches = 1 .. InitialBranches
      /\ Baseline \in DOMAIN state.branches
  <2>1. [state |-> "ACTIVE", generation |-> 1] \in BranchRecord
    BY ZenonT(60) DEF BranchRecord, BranchStates
  <2> QED BY <1>3, <1>4, <2>1 DEF IsMap, Baseline
<1>7. StateType(state)
  BY <1>2, <1>3, <1>4, <1>5, <1>6 DEF StateType, ExperimentStates
<1>8. OpenTrials(state) = {} /\ LiveAttempts(state) = {}
  BY ZenonT(60), <1>3, <1>5 DEF OpenTrials, LiveAttempts
<1>9. ValidWatermarks(state)
  BY <1>3, <1>4, <1>5, <1>6 DEF ValidWatermarks
<1>10. AuthorityIsOwn(state) /\ CommitIsUnique(state) /\ RestsOnEvidence(state)
  BY ZenonT(60), <1>3, <1>5 DEF AuthorityIsOwn, CommitIsUnique, RestsOnEvidence
<1>11. LiveOnItsBranch(state) /\ LiveIsAuthoritative(state) /\ OpenIsCurrent(state)
  BY ZenonT(60), <1>8 DEF LiveOnItsBranch, LiveIsAuthoritative, OpenIsCurrent
<1>12. StateInv(state) /\ StateInv(disk) /\ Keeps(disk, state)
  BY ZenonT(60), <1>1, <1>7, <1>9, <1>10, <1>11, KeepsReflexive DEF StateInv
<1>13. TypeOK
  BY ZenonT(120), <1>1, <1>2, <1>7 DEF TypeOK
<1>14. LiveAttemptHasLiveOwner /\ AckedCommitIsDurable
  BY ZenonT(60), <1>1, <1>8 DEF LiveAttemptHasLiveOwner, AckedCommitIsDurable
<1> QED BY ZenonT(60), <1>1, <1>12, <1>13, <1>14 DEF AuthorityInvariant

\* Every step preserves the invariant, and the image keeps what it has settled.
LEMMA NextInvariant == AuthorityInvariant /\ [Next]_vars => AuthorityInvariant' /\ Keeps(disk, disk')
<1> SUFFICES ASSUME AuthorityInvariant, [Next]_vars
             PROVE  AuthorityInvariant' /\ Keeps(disk, disk')
  OBVIOUS
<1>1. CASE WorkerStep
  <2>1. \A i \in Incarnation : RegisterWorker(i) => AuthorityInvariant' /\ Keeps(disk, disk')
    BY ZenonT(60), RegisterWorkerStep
  <2>2. \A i \in Incarnation, max_claims \in 1 .. MaxConcurrent :
          ClaimTrials(i, max_claims) => AuthorityInvariant' /\ Keeps(disk, disk')
    <3>1. MaxConcurrent \in Nat
      BY ZenonT(60), DefinitionAssumption
    <3> QED BY <3>1, ClaimTrialsStep
  <2>3. \A e \in issued, m \in Metrics : RejectObservation(e, m) => AuthorityInvariant' /\ Keeps(disk, disk')
    BY ZenonT(60), RejectObservationStep
  <2>4. \A e \in issued, m \in Metrics, v \in Validities :
          PublishObservation(e, m, v) => AuthorityInvariant' /\ Keeps(disk, disk')
    BY ZenonT(60), PublishObservationStep
  <2>5. \A e \in issued : RejectArtifact(e) => AuthorityInvariant' /\ Keeps(disk, disk')
    BY ZenonT(60), RejectArtifactStep
  <2>6. \A e \in issued, k \in 1 .. MaxArtifactsPerAttempt :
          PublishArtifact(e, k) => AuthorityInvariant' /\ Keeps(disk, disk')
    <3>1. MaxArtifactsPerAttempt \in Nat
      BY ZenonT(60), LimitsAssumption
    <3> QED BY <3>1, PublishArtifactStep
  <2>7. \A e \in issued, arts \in ArtifactRequests :
          CommitTrial(e, arts) => AuthorityInvariant' /\ Keeps(disk, disk')
    BY ZenonT(60), CommitTrialStep
  <2>8. \A e \in issued, arts \in ArtifactRequests :
          CommitRefused(e, arts) => AuthorityInvariant' /\ Keeps(disk, disk')
    BY ZenonT(60), CommitRefusedStep
  <2>9. \A e \in issued, retryable \in BOOLEAN :
          FailTrial(e, retryable) => AuthorityInvariant' /\ Keeps(disk, disk')
    BY ZenonT(60), FailTrialStep
  <2> QED BY ZenonT(60), <1>1, <2>1, <2>2, <2>3, <2>4, <2>5, <2>6, <2>7, <2>8, <2>9 DEF WorkerStep
<1>2. CASE OperatorStep
  <2>0. MaxBranches \in Nat
    BY ZenonT(60), LimitsAssumption
  <2>1. \A i \in Incarnation : RevokeWorker(i) => AuthorityInvariant' /\ Keeps(disk, disk')
    BY RevokeWorkerStep
  <2>2. \A b \in 1 .. MaxBranches : CreateTrial(b) => AuthorityInvariant' /\ Keeps(disk, disk')
    BY <2>0, CreateTrialStep
  <2>3. \A b \in 1 .. MaxBranches : ForkBranch(b) => AuthorityInvariant' /\ Keeps(disk, disk')
    BY <2>0, ForkBranchStep
  <2>4. \A c \in 1 .. MaxBranches + 1, outcome \in DecisionOutcomes :
          FinalizeExperiment(c, outcome) => AuthorityInvariant' /\ Keeps(disk, disk')
    BY <2>0, FinalizeStep
  <2>5. \A g \in 1 .. MaxGeneration : Rollback(g) => AuthorityInvariant' /\ Keeps(disk, disk')
    BY ZenonT(60), RollbackStep
  <2> QED BY ZenonT(60), <1>2, <2>1, <2>2, <2>3, <2>4, <2>5, ClosingSteps DEF OperatorStep
<1>3. CASE ProcessStep
  <2>1. CASE StartServer \/ RequestShutdown \/ StopServer
    BY ZenonT(60), <2>1, ServerStep
  <2>2. CASE Crash
    BY ZenonT(60), <2>2, CrashStep
  <2>3. CASE Create
    BY ZenonT(60), <2>3, CreateStep
  <2>4. CASE CreateRefused \/ UNCHANGED vars
    <3>1. UNCHANGED vars
      BY ZenonT(60), <2>4 DEF CreateRefused
    <3> QED BY ZenonT(120), <3>1, KeepsReflexive DEF vars, AuthorityInvariant, TypeOK, StateType,
              LiveAttemptHasLiveOwner, AckedCommitIsDurable
  <2>5. CASE Reconcile
    BY ZenonT(60), <2>5, ReconcileStep
  <2> QED BY ZenonT(60), <1>3, <2>1, <2>2, <2>3, <2>4, <2>5 DEF ProcessStep
<1>4. CASE UNCHANGED vars
  BY ZenonT(120), <1>4, KeepsReflexive DEF vars, AuthorityInvariant, TypeOK, StateType,
     LiveAttemptHasLiveOwner, AckedCommitIsDurable
<1> QED BY ZenonT(60), <1>1, <1>2, <1>3, <1>4 DEF Next

\* The authority invariant holds throughout: for every set of incarnations, every
\* limit, every number of crashes and failed writes.
THEOREM Authority == Spec => []AuthorityInvariant
<1>1. Init => AuthorityInvariant
  BY ZenonT(60), InitInvariant
<1>2. AuthorityInvariant /\ [Next]_vars => AuthorityInvariant'
  BY ZenonT(60), NextInvariant
<1> QED BY <1>1, <1>2, PTL DEF Spec

\* Every variable keeps its type, in memory and on disk.
THEOREM TypeCorrectness == Spec => []TypeOK
<1>1. AuthorityInvariant => TypeOK
  BY ZenonT(60) DEF AuthorityInvariant
<1> QED BY <1>1, Authority, PTL

\* claim_trials, retries, revocations, supersession and recovery never leave two
\* live attempts of one trial behind.
THEOREM AtMostOneLiveAttempt == Spec => []OneLiveAttemptPerTrial
<1>1. AuthorityInvariant => OneLiveAttemptPerTrial
  BY DEF AuthorityInvariant, StateInv, OneLiveAttemptPerTrial
<1> QED BY <1>1, Authority, PTL

\* commit_trial completes a trial once, and what it completes rests on evidence of
\* the attempt that committed it.
THEOREM CommitsOnceWithEvidence == Spec => [](ExactlyOneCommit /\ CompletionHasEvidence)
<1>1. AuthorityInvariant => ExactlyOneCommit /\ CompletionHasEvidence
  BY ZenonT(60) DEF AuthorityInvariant, StateInv, ExactlyOneCommit, CompletionHasEvidence
<1> QED BY <1>1, Authority, PTL

\* No open trial outlives its generation, whatever is revised, retired, rolled back
\* or recovered.
THEOREM OpenTrialsAreCurrent == Spec => []NoStaleOpenTrial
<1>1. AuthorityInvariant => NoStaleOpenTrial
  BY ZenonT(60) DEF AuthorityInvariant, StateInv, NoStaleOpenTrial
<1> QED BY <1>1, Authority, PTL

\* Recovery and revocation leave no live attempt without a live owner.
THEOREM LiveAttemptsAreOwned == Spec => []LiveAttemptHasLiveOwner
<1>1. AuthorityInvariant => LiveAttemptHasLiveOwner
  BY ZenonT(60) DEF AuthorityInvariant
<1> QED BY <1>1, Authority, PTL

\* A commit that was answered with success survives every crash and failed write.
THEOREM AckedCommitsAreDurable == Spec => []AckedCommitIsDurable
<1>1. AuthorityInvariant => AckedCommitIsDurable
  BY ZenonT(60) DEF AuthorityInvariant
<1> QED BY <1>1, Authority, PTL

\* A trial that is terminal on disk stays as it is.
THEOREM DurableOutcomesAreFinal == Spec => DurableOutcomeIsFinal
<1> DEFINE Final == \A t \in DOMAIN disk.trials : is_terminal(disk.trials[t].state) =>
                      /\ t \in DOMAIN disk'.trials
                      /\ disk'.trials[t].state = disk.trials[t].state
<1>1. AuthorityInvariant /\ [Next]_vars => [Final]_vars
  <2> SUFFICES ASSUME AuthorityInvariant, [Next]_vars PROVE Final
    OBVIOUS
  <2>1. Keeps(disk, disk')
    BY ZenonT(60), NextInvariant
  <2> QED BY ZenonT(60), <2>1 DEF Keeps
<1>2. DurableOutcomeIsFinal <=> [][Final]_vars
  BY ZenonT(60) DEF DurableOutcomeIsFinal
<1> HIDE DEF Final
<1> QED BY <1>1, <1>2, Authority, PTL DEF Spec

-----------------------------------------------------------------------------
(***************************************************************************)
(* Shutdown: what an operator asks for completes nothing, and what a worker*)
(* asks for is refused.                                                    *)
(***************************************************************************)

\* What an operator asks for completes no trial and adds no evidence.
LEMMA OperatorIdle ==
  ASSUME TypeOK, OperatorStep
  PROVE  /\ Idle(state, state') /\ DOMAIN live' = DOMAIN live
         /\ issued' = issued /\ acked' = acked
<1>t. StateType(state)
  BY ZenonT(60) DEF TypeOK
<1>1. ASSUME NEW i, RevokeWorker(i)
      PROVE  /\ Idle(state, state') /\ DOMAIN live' = DOMAIN live /\ issued' = issued /\ acked' = acked
  <2>1. /\ live' = RevokeLive({i}) /\ state' = LoseProducers(state, {i})
        /\ issued' = issued /\ acked' = acked
    BY ZenonT(120), <1>1 DEF RevokeWorker
  <2> QED BY ZenonT(60), <1>t, <2>1, LossesIdle DEF RevokeLive
<1>2. ASSUME NEW b, CreateTrial(b) PROVE Idle(state, state') /\ UNCHANGED Volatile
  <2> DEFINE id == state.wm_trial + 1
             numbered == [state EXCEPT !.wm_trial = id]
             new == [t \in DOMAIN state.trials \cup {id} |->
                       IF t = id THEN NewTrial(b) ELSE state.trials[t]]
             created == [numbered EXCEPT !.trials = new]
  <2>1. (state' = numbered \/ state' = created) /\ UNCHANGED Volatile
    BY ZenonT(120), <1>2 DEF CreateTrial
  <2>2. \A t \in DOMAIN state.trials : new[t].state = "COMPLETED" => state.trials[t].state = "COMPLETED"
    BY DEF NewTrial
  <2> HIDE DEF new, id
  <2>3. CASE state' = numbered
    <3>1. /\ state'.artifacts = state.artifacts /\ state'.observations = state.observations
          /\ state'.trials = state.trials /\ state'.attempts = state.attempts
      BY ZenonT(60), <1>t, <2>3 DEF StateType, StateFields
    <3> QED BY ZenonT(60), <2>1, <3>1 DEF Idle
  <2>4. CASE state' = created
    <3>1. /\ state'.artifacts = state.artifacts /\ state'.observations = state.observations
          /\ state'.trials = new /\ state'.attempts = state.attempts
      BY ZenonT(60), <1>t, <2>4 DEF StateType, StateFields
    <3> QED BY ZenonT(60), <2>1, <2>2, <3>1 DEF Idle
  <2> QED BY ZenonT(60), <2>1, <2>3, <2>4
<1>3. ASSUME NEW b, ForkBranch(b) PROVE Idle(state, state') /\ UNCHANGED Volatile
  <2> DEFINE id == state.wm_branch + 1
             numbered == [state EXCEPT !.wm_branch = id]
             new == [c \in DOMAIN state.branches \cup {id} |->
                       IF c = id THEN [state |-> "ACTIVE", generation |-> 1] ELSE state.branches[c]]
             forked == [numbered EXCEPT !.branches = new]
  <2>1. (state' = numbered \/ state' = forked) /\ UNCHANGED Volatile
    BY ZenonT(120), <1>3 DEF ForkBranch
  <2> HIDE DEF new, id
  <2>2. /\ state'.artifacts = state.artifacts /\ state'.observations = state.observations
        /\ state'.trials = state.trials /\ state'.attempts = state.attempts
    BY ZenonT(60), <1>t, <2>1 DEF StateType, StateFields
  <2> QED BY ZenonT(60), <2>1, <2>2 DEF Idle
<1>4. ASSUME NEW b, RetireBranch(b) PROVE Idle(state, state') /\ UNCHANGED Volatile
  <2> DEFINE ended == SetTrials(state, OpenTrials(state) \cap TrialsOf(state, b), "SUPERSEDED")
             dropped == SetAttempts(state, {a \in LiveAttempts(state) : state.attempts[a].branch = b},
                                    "ABANDONED")
             record == [state |-> "RETIRED", generation |-> state.branches[b].generation + 1]
  <2>1. /\ state' = [state EXCEPT !.branches[b] = record, !.trials = ended, !.attempts = dropped]
        /\ UNCHANGED Volatile
    BY ZenonT(60), <1>4 DEF RetireBranch
  <2>2. \A t \in DOMAIN state.trials : ended[t].state = "COMPLETED" => state.trials[t].state = "COMPLETED"
    BY ZenonT(60), <1>t, SetTrialsIdle
  <2>4. \A a \in DOMAIN state.attempts : dropped[a].state = "FAILED" => state.attempts[a].state = "FAILED"
    BY ZenonT(60), <1>t, SetAttemptsIdle
  <2> HIDE DEF ended, dropped, record
  <2>3. /\ state'.artifacts = state.artifacts /\ state'.observations = state.observations
        /\ state'.trials = ended /\ state'.attempts = dropped
    BY ZenonT(60), <1>t, <2>1 DEF StateType, StateFields
  <2> QED BY ZenonT(60), <2>1, <2>2, <2>3, <2>4 DEF Idle
<1>5. CASE ReviseHypothesis
  <2> DEFINE aside == abandon_stale_live_work(state)
  <2>1. /\ state' = [aside EXCEPT !.hypothesis_revision = @ + 1, !.generation = @ + 1]
        /\ UNCHANGED Volatile
    BY ZenonT(60), <1>5 DEF ReviseHypothesis
  <2>2. Idle(state, aside) /\ DOMAIN aside = StateFields
    BY ZenonT(60), <1>t, LossesIdle DEF abandon_stale_live_work, StateType
  <2> HIDE DEF aside
  <2>3. /\ state'.artifacts = aside.artifacts /\ state'.observations = aside.observations
        /\ state'.trials = aside.trials /\ state'.attempts = aside.attempts
    BY ZenonT(60), <2>1, <2>2 DEF StateFields
  <2> QED BY ZenonT(60), <2>1, <2>2, <2>3 DEF Idle, Volatile
<1>6. ASSUME NEW u, CancelTrial(u) PROVE Idle(state, state') /\ UNCHANGED Volatile
  <2> DEFINE ended == SetTrials(state, {u}, "CANCELLED")
             dropped == SetAttempts(state, {a \in LiveAttempts(state) : state.attempts[a].trial = u},
                                    "CANCELLED")
  <2>1. state' = [state EXCEPT !.trials = ended, !.attempts = dropped] /\ UNCHANGED Volatile
    BY ZenonT(60), <1>6 DEF CancelTrial
  <2>2. \A t \in DOMAIN state.trials : ended[t].state = "COMPLETED" => state.trials[t].state = "COMPLETED"
    BY ZenonT(60), <1>t, SetTrialsIdle
  <2>4. \A a \in DOMAIN state.attempts : dropped[a].state = "FAILED" => state.attempts[a].state = "FAILED"
    BY ZenonT(60), <1>t, SetAttemptsIdle
  <2> HIDE DEF ended, dropped
  <2>3. /\ state'.artifacts = state.artifacts /\ state'.observations = state.observations
        /\ state'.trials = ended /\ state'.attempts = dropped
    BY ZenonT(60), <1>t, <2>1 DEF StateType, StateFields
  <2> QED BY ZenonT(60), <2>1, <2>2, <2>3, <2>4 DEF Idle
<1>7. CASE CancelExperiment
  <2> DEFINE ended == SetTrials(state, OpenTrials(state), "CANCELLED")
             dropped == SetAttempts(state, LiveAttempts(state), "CANCELLED")
  <2>1. /\ state' = [state EXCEPT !.exp = "CANCELLED", !.trials = ended, !.attempts = dropped]
        /\ UNCHANGED Volatile
    BY ZenonT(60), <1>7 DEF CancelExperiment
  <2>2. \A t \in DOMAIN state.trials : ended[t].state = "COMPLETED" => state.trials[t].state = "COMPLETED"
    BY ZenonT(60), <1>t, SetTrialsIdle
  <2>4. \A a \in DOMAIN state.attempts : dropped[a].state = "FAILED" => state.attempts[a].state = "FAILED"
    BY ZenonT(60), <1>t, SetAttemptsIdle
  <2> HIDE DEF ended, dropped
  <2>3. /\ state'.artifacts = state.artifacts /\ state'.observations = state.observations
        /\ state'.trials = ended /\ state'.attempts = dropped
    BY ZenonT(60), <1>t, <2>1 DEF StateType, StateFields
  <2> QED BY ZenonT(60), <2>1, <2>2, <2>3, <2>4 DEF Idle, Volatile
<1>8. ASSUME NEW c, NEW outcome, FinalizeExperiment(c, outcome)
      PROVE  Idle(state, state') /\ UNCHANGED Volatile
  <2>1. /\ state'.artifacts = state.artifacts /\ state'.observations = state.observations
        /\ state'.trials = state.trials /\ state'.attempts = state.attempts /\ UNCHANGED Volatile
    BY ZenonT(60), <1>t, <1>8 DEF FinalizeExperiment, StateType, StateFields
  <2> QED BY ZenonT(60), <2>1 DEF Idle
<1>9. ASSUME NEW g, Rollback(g) PROVE Idle(state, state') /\ UNCHANGED Volatile
  <2> DEFINE aside == abandon_stale_live_work(state)
  <2>1. PICK point : state' = RolledBack(state, point) /\ UNCHANGED Volatile
    BY ZenonT(60), <1>9 DEF Rollback
  <2>2. Idle(state, aside) /\ DOMAIN aside = StateFields
    BY ZenonT(60), <1>t, LossesIdle DEF abandon_stale_live_work, StateType
  <2>3. state' = [aside EXCEPT !.generation = point.generation,
                               !.branches = RestoredBranches(state, point.authority),
                               !.rollback_points = Append(@, point),
                               !.exp = IF @ \in {"FINALIZED", "SUPERSEDED"} THEN "OPEN" ELSE @]
    BY ZenonT(60), <2>1 DEF RolledBack
  <2> HIDE DEF aside
  <2>4. /\ state'.artifacts = aside.artifacts /\ state'.observations = aside.observations
        /\ state'.trials = aside.trials /\ state'.attempts = aside.attempts
    BY ZenonT(60), <2>2, <2>3 DEF StateFields
  <2> QED BY ZenonT(60), <2>1, <2>2, <2>4 DEF Idle
<1>10. UNCHANGED Volatile => DOMAIN live' = DOMAIN live /\ issued' = issued /\ acked' = acked
  BY ZenonT(60) DEF Volatile
<1> QED BY ZenonT(60), <1>1, <1>2, <1>3, <1>4, <1>5, <1>6, <1>7, <1>8, <1>9, <1>10 DEF OperatorStep

\* What a worker asks for after the shutdown is refused: at most a rejection is recorded.
LEMMA WorkerFenced ==
  ASSUME TypeOK, WorkerStep, ~admitting
  PROVE  /\ live' = live /\ issued' = issued /\ acked' = acked
         /\ state'.artifacts = state.artifacts /\ state'.trials = state.trials /\ state'.attempts = state.attempts
         /\ LateEvidencePolicy = "REJECT_AND_RECORD" => state'.observations = state.observations
<1>t. StateType(state)
  BY ZenonT(60) DEF TypeOK
<1>1. \A e : ~check_envelope(e)
  BY ZenonT(60) DEF check_envelope
<1>2. \A i : ~RegisterWorker(i)
  BY ZenonT(60) DEF RegisterWorker
<1>3. \A i, n : ~ClaimTrials(i, n)
  BY ZenonT(60) DEF ClaimTrials
<1>4. \A e, m, v : ~PublishObservation(e, m, v)
  BY ZenonT(60), <1>1 DEF PublishObservation
<1>5. \A e, k : ~PublishArtifact(e, k)
  BY ZenonT(60), <1>1 DEF PublishArtifact
<1>6. \A e, arts : ~CommitTrial(e, arts) /\ ~CommitRefused(e, arts)
  BY ZenonT(60), <1>1 DEF CommitTrial, CommitRefused, CommitAllowed
<1>7. \A e, retryable : ~FailTrial(e, retryable)
  BY ZenonT(60), <1>1 DEF FailTrial
<1>8. ASSUME NEW e, NEW m, RejectObservation(e, m)
      PROVE  /\ live' = live /\ issued' = issued /\ acked' = acked
             /\ state'.artifacts = state.artifacts /\ state'.trials = state.trials /\ state'.attempts = state.attempts
             /\ LateEvidencePolicy = "REJECT_AND_RECORD" => state'.observations = state.observations
  <2>1. UNCHANGED Volatile
    BY ZenonT(60), <1>8 DEF RejectObservation
  <2>2. /\ state'.artifacts = state.artifacts /\ state'.trials = state.trials /\ state'.attempts = state.attempts
        /\ LateEvidencePolicy = "REJECT_AND_RECORD" => state'.observations = state.observations
    BY ZenonT(60), <1>t, <1>8 DEF RejectObservation, StateType, StateFields
  <2> QED BY ZenonT(60), <2>1, <2>2 DEF Volatile
<1>9. ASSUME NEW e, RejectArtifact(e)
      PROVE  /\ live' = live /\ issued' = issued /\ acked' = acked
             /\ state'.artifacts = state.artifacts /\ state'.trials = state.trials /\ state'.attempts = state.attempts
             /\ LateEvidencePolicy = "REJECT_AND_RECORD" => state'.observations = state.observations
  <2>1. UNCHANGED Volatile
    BY ZenonT(60), <1>9 DEF RejectArtifact
  <2>2. /\ state'.artifacts = state.artifacts /\ state'.trials = state.trials /\ state'.attempts = state.attempts
        /\ state'.observations = state.observations
    BY ZenonT(60), <1>t, <1>9 DEF RejectArtifact, StateType, StateFields
  <2> QED BY ZenonT(60), <2>1, <2>2 DEF Volatile
<1> QED BY ZenonT(60), <1>2, <1>3, <1>4, <1>5, <1>6, <1>7, <1>8, <1>9 DEF WorkerStep

-----------------------------------------------------------------------------
(***************************************************************************)
(* The theorems about the books.                                           *)
(***************************************************************************)

\* The books of the memory and of the image are in order throughout, for every set of
\* incarnations, every limit, every number of crashes and failed writes.
THEOREM BooksInOrder == Spec => []BooksInvariant
<1>1. Init => BooksInvariant
  BY InitBooks
<1>2. AuthorityInvariant /\ AuthorityInvariant' /\ BooksInvariant /\ [Next]_vars => BooksInvariant'
  BY ZenonT(60), NextBooks
<1> QED BY <1>1, <1>2, Authority, PTL DEF Spec

\* claim_trials never gives an incarnation more live attempts than its head-room,
\* whatever it was given before, in memory or in the image.
THEOREM HeadRoomIsRespected == Spec => []HeadRoomRespected
<1>1. BooksInvariant => HeadRoomRespected
  BY ZenonT(60) DEF BooksInvariant, Books, HeadRoomRespected
<1> QED BY <1>1, BooksInOrder, PTL

\* Retries, revocations and recovery number the attempts of a trial 1, 2, ... without a
\* gap or a repetition, and stay within the retry budget.
THEOREM RetriesStayInBudget == Spec => []AttemptsWithinBudget
<1>1. AuthorityInvariant /\ BooksInvariant => AttemptsWithinBudget
  BY ZenonT(60), BooksNumbered DEF AuthorityInvariant, StateInv, BooksInvariant, AttemptsWithinBudget
<1> QED BY <1>1, Authority, BooksInOrder, PTL

\* Whatever image a crash leaves passes the part of validate that is about workers,
\* trials, attempts, artifacts and watermarks.
THEOREM ImagesAreStructured == Spec => []ImageStructureValid
<1>1. AuthorityInvariant /\ BooksInvariant => ImageStructureValid
  BY ZenonT(60), BooksStructure DEF AuthorityInvariant, BooksInvariant, ImageStructureValid
<1> QED BY <1>1, Authority, BooksInOrder, PTL

\* No handler moves an attempt against the attempt table, and neither does recovery.
THEOREM AttemptTableIsKept == Spec => AttemptsFollowTable
<1> DEFINE Follow == phase' # "down" =>
             \A a \in DOMAIN state.attempts \cap DOMAIN state'.attempts :
               state'.attempts[a].state = state.attempts[a].state
                 \/ state'.attempts[a].state \in AttemptSuccessors(state.attempts[a].state)
<1>1. AuthorityInvariant /\ AuthorityInvariant' /\ BooksInvariant /\ [Next]_vars => [Follow]_vars
  BY ZenonT(60), NextBooks DEF FollowTable
<1>2. AttemptsFollowTable <=> [][Follow]_vars
  BY ZenonT(60) DEF AttemptsFollowTable
<1> HIDE DEF Follow
<1> QED BY <1>1, <1>2, Authority, BooksInOrder, PTL DEF Spec

\* Once the coordinator has stopped admitting work, no worker registers, no attempt is
\* issued, no commit is answered with success, no artifact or (under REJECT_AND_RECORD)
\* observation is added, no trial is completed and no attempt fails, whatever is still
\* asked for.
THEOREM ShutdownFences == Spec => ShutdownFencesWork
<1> DEFINE Fenced == phase = "up" /\ phase' = "up" /\ ~admitting =>
             /\ DOMAIN live' = DOMAIN live /\ issued' = issued /\ acked' = acked
             /\ state'.artifacts = state.artifacts
             /\ LateEvidencePolicy = "REJECT_AND_RECORD" => state'.observations = state.observations
             /\ \A t \in DOMAIN state.trials :
                  state'.trials[t].state = "COMPLETED" => state.trials[t].state = "COMPLETED"
             /\ \A a \in DOMAIN state.attempts :
                  state'.attempts[a].state = "FAILED" => state.attempts[a].state = "FAILED"
<1>1. AuthorityInvariant /\ [Next]_vars => [Fenced]_vars
  <2> SUFFICES ASSUME AuthorityInvariant, [Next]_vars, phase = "up", phase' = "up", ~admitting
               PROVE  Fenced
    OBVIOUS
  <2>1. TypeOK
    BY ZenonT(60) DEF AuthorityInvariant
  <2>2. CASE WorkerStep
    BY ZenonT(60), <2>1, <2>2, WorkerFenced
  <2>3. CASE OperatorStep
    BY ZenonT(60), <2>1, <2>3, OperatorIdle DEF Idle
  <2>4. CASE ProcessStep \/ UNCHANGED vars
    <3>1. live' = live /\ issued' = issued /\ acked' = acked /\ state' = state
      <4>1. CASE StartServer \/ RequestShutdown \/ StopServer
        BY ZenonT(60), <4>1 DEF StartServer, RequestShutdown, StopServer
      <4>2. ~Crash /\ ~Create /\ ~Reconcile
        BY ZenonT(60) DEF Crash, Create, Reconcile
      <4>3. CASE CreateRefused \/ UNCHANGED vars
        BY ZenonT(60), <4>3 DEF CreateRefused, vars
      <4> QED BY ZenonT(60), <2>4, <4>1, <4>2, <4>3 DEF ProcessStep
    <3> QED BY ZenonT(60), <3>1
  <2> QED BY ZenonT(60), <2>2, <2>3, <2>4 DEF Next
<1>2. ShutdownFencesWork <=> [][Fenced]_vars
  BY DEF ShutdownFencesWork
<1> HIDE DEF Fenced
<1> QED BY <1>1, <1>2, Authority, PTL DEF Spec
=============================================================================
