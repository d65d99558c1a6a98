--------------------------- MODULE BooksStepProofs ---------------------------
(***************************************************************************)
(* The handlers of module Coordinator keep the books in order: first those *)
(* that only move work on, then those that issue, create, publish or       *)
(* register something or load an image, then every step.                   *)
(***************************************************************************)
EXTENDS Coordinator, StateInvariantsProofs

-----------------------------------------------------------------------------
(***************************************************************************)
(* The write of the image, the check of an envelope, and the types.        *)
(***************************************************************************)

\* persist_locked writes the memory or leaves the image.
LEMMA Written ==
  ASSUME NEW ok, persist_locked(ok)
  PROVE  disk' = state' \/ disk' = disk
BY ZenonT(60) DEF persist_locked

\* What check_envelope lets through is for a trial that is open and an attempt that is
\* live.
LEMMA CheckedEnvelope ==
  ASSUME NEW e, check_envelope(e)
  PROVE  e.trial \in OpenTrials(state) /\ e.attempt \in LiveAttempts(state)
BY DEF check_envelope, OpenTrials, LiveAttempts

\* The types and watermarks of both states of a step.
LEMMA BothTyped ==
  ASSUME AuthorityInvariant, AuthorityInvariant'
  PROVE  /\ StateType(state) /\ StateType(state') /\ StateType(disk) /\ StateType(disk')
         /\ ValidWatermarks(state) /\ ValidWatermarks(disk)
<1>1. StateType(state) /\ StateType(disk) /\ ValidWatermarks(state) /\ ValidWatermarks(disk)
  BY DEF AuthorityInvariant, TypeOK, StateInv
<1>2. StateType(state') /\ StateType(disk')
  BY DEF AuthorityInvariant, TypeOK
<1> QED BY ZenonT(60), <1>1, <1>2

-----------------------------------------------------------------------------
(***************************************************************************)
(* The handlers that only move work on.                                    *)
(***************************************************************************)

\* publish_observation without authority
LEMMA RejectObservationTame ==
  ASSUME AuthorityInvariant, NEW e \in issued, NEW m \in Metrics, RejectObservation(e, m)
  PROVE  Tame(state, state')
<1> DEFINE obs == IF LateEvidencePolicy = "RETAIN_HISTORICAL" /\ Len(state.observations) < MaxObservations
                  THEN Append(state.observations, [trial |-> e.trial, attempt |-> e.attempt,
                                                   metric |-> m, validity |-> "INVALID"])
                  ELSE state.observations
           rej == Min2(state.rejected + 1, RejectedCap)
<1>t. StateType(state)
  BY DEF AuthorityInvariant, TypeOK
<1>1. state' = [state EXCEPT !.rejected = rej, !.observations = obs]
  BY DEF RejectObservation
<1> HIDE DEF obs, rej
<1>2. /\ state'.attempts = state.attempts /\ state'.trials = state.trials
      /\ state'.branches = state.branches /\ state'.artifacts = state.artifacts
      /\ state'.workers = state.workers /\ state'.last_epoch = state.last_epoch
  BY ZenonT(60), <1>t, <1>1 DEF StateType, StateFields
<1> QED BY ZenonT(60), <1>t, <1>2, AsideTame

\* publish_artifact without authority
LEMMA RejectArtifactTame ==
  ASSUME AuthorityInvariant, NEW e \in issued, RejectArtifact(e)
  PROVE  Tame(state, state')
<1> DEFINE rej == Min2(state.rejected + 1, RejectedCap)
<1>t. StateType(state)
  BY DEF AuthorityInvariant, TypeOK
<1>1. state' = [state EXCEPT !.rejected = rej]
  BY DEF RejectArtifact
<1> HIDE DEF rej
<1>2. /\ state'.attempts = state.attempts /\ state'.trials = state.trials
      /\ state'.branches = state.branches /\ state'.artifacts = state.artifacts
      /\ state'.workers = state.workers /\ state'.last_epoch = state.last_epoch
  BY ZenonT(60), <1>t, <1>1 DEF StateType, StateFields
<1> QED BY ZenonT(60), <1>t, <1>2, AsideTame

\* publish_observation with authority: the attempt runs from its first observation on.
LEMMA PublishObservationTame ==
  ASSUME AuthorityInvariant, NEW e \in issued, NEW m \in Metrics, NEW v \in Validities,
         PublishObservation(e, m, v)
  PROVE  Tame(state, state')
<1> DEFINE t == e.trial
           a == e.attempt
           st == IF state.trials[t].state \in {"ASSIGNED", "RUNNING"} THEN "OBSERVING"
                                                                     ELSE state.trials[t].state
           sa == IF state.attempts[a].state = "ISSUED" THEN "RUNNING" ELSE state.attempts[a].state
           x == [state.trials[t] EXCEPT !.state = st]
           y == [state.attempts[a] EXCEPT !.state = sa]
           X == [state.trials EXCEPT ![t] = x]
           Y == [state.attempts EXCEPT ![a] = y]
           o == [trial |-> e.trial, attempt |-> e.attempt, metric |-> m, validity |-> v]
<1>t. StateType(state)
  BY ZenonT(60) DEF AuthorityInvariant, TypeOK
<1>1. t \in DOMAIN state.trials /\ a \in DOMAIN state.attempts
  <2>1. e \in Envelope
    BY DEF AuthorityInvariant, TypeOK
  <2>2. ObservationEnvelope(e).trial = e.trial /\ ObservationEnvelope(e).attempt = e.attempt
    BY ZenonT(60), <2>1 DEF Envelope, ObservationEnvelope
  <2> QED BY ZenonT(60), <2>2, CheckedEnvelope DEF PublishObservation, OpenTrials, LiveAttempts
<1>2. state.trials[t] \in TrialRecord /\ state.attempts[a] \in AttemptRecord
  BY ZenonT(60), <1>t, <1>1 DEF StateType, IsMap
<1>3. TrialMoves(state.trials[t], x)
  <2> HIDE DEF st
  <2> QED BY <1>2, TrialStays
<1>4. AttemptMoves(state.attempts[a], y)
  <2>1. sa = state.attempts[a].state \/ sa \in AttemptSuccessors(state.attempts[a].state)
    BY DEF AttemptSuccessors
  <2> HIDE DEF sa
  <2> QED BY ZenonT(60), <1>2, <2>1, StateSet
<1>5. UnderObservation(state, t, a) = [state EXCEPT !.trials = X, !.attempts = Y]
  BY ZenonT(60) DEF UnderObservation
<1> HIDE DEF X, Y, o
<1>6. PICK ok \in BOOLEAN :
        state' = IF ok THEN [UnderObservation(state, t, a) EXCEPT !.observations = Append(@, o)]
                       ELSE UnderObservation(state, t, a)
  BY DEF PublishObservation, o
<1>7. /\ state'.attempts = Y /\ state'.trials = X
      /\ state'.branches = state.branches /\ state'.artifacts = state.artifacts
      /\ state'.workers = state.workers /\ state'.last_epoch = state.last_epoch
  <2>1. CASE ok
    BY ZenonT(60), <1>t, <1>5, <1>6, <2>1 DEF StateType, StateFields
  <2>2. CASE ~ok
    BY ZenonT(60), <1>t, <1>5, <1>6, <2>2 DEF StateType, StateFields
  <2> QED BY ZenonT(60), <2>1, <2>2
<1>8. Moves(state, state')
  <2> HIDE DEF x, y
  <2> QED BY <1>t, <1>1, <1>3, <1>4, <1>7, PointMoves DEF X, Y
<1> QED BY ZenonT(60), <1>7, <1>8, WorkersSame DEF Tame

\* fail_trial
LEMMA FailTrialTame ==
  ASSUME AuthorityInvariant, NEW e \in issued, NEW retryable \in BOOLEAN, FailTrial(e, retryable)
  PROVE  Tame(state, state')
<1> DEFINE t == e.trial
           a == e.attempt
           b == state.trials[t].branch
           retry == retryable /\ RetryRemains(state.trials[t])
           st == IF /\ PartialFailurePolicy = "INVALIDATE_BRANCH"
                    /\ "INVALID" \in BranchSuccessors(state.branches[b].state)
                 THEN "INVALID" ELSE state.branches[b].state
           x == Requeue(state.trials[t], retry)
           y == [state.attempts[a] EXCEPT !.state = "FAILED"]
           X == [state.trials EXCEPT ![t] = x]
           Y == [state.attempts EXCEPT ![a] = y]
           B == [state.branches EXCEPT ![b].state = st]
<1>t. StateType(state)
  BY DEF AuthorityInvariant, TypeOK
<1>1. t \in DOMAIN state.trials /\ a \in LiveAttempts(state) /\ a \in DOMAIN state.attempts
  BY ZenonT(120), CheckedEnvelope DEF FailTrial, OpenTrials, LiveAttempts
<1>2. state.trials[t] \in TrialRecord /\ state.attempts[a] \in AttemptRecord
  BY ZenonT(60), <1>t, <1>1 DEF StateType, IsMap
<1>3. TrialMoves(state.trials[t], x)
  <2> HIDE DEF retry
  <2> QED BY <1>2, TrialStays
<1>4. AttemptMoves(state.attempts[a], y)
  <2>1. state.attempts[a].state \in AttemptStates /\ ~is_attempt_terminal(state.attempts[a].state)
    BY ZenonT(60), <1>1, <1>2 DEF AttemptRecord, LiveAttempts
  <2>2. "FAILED" \in AttemptSuccessors(state.attempts[a].state)
    BY ZenonT(60), <2>1, LiveMayEnd DEF AttemptExits
  <2> QED BY ZenonT(60), <1>2, <2>2, StateSet
<1>5. state' = [state EXCEPT !.attempts = Y, !.trials = X, !.branches = B]
  BY DEF FailTrial
<1>6. DOMAIN B = DOMAIN state.branches
  OBVIOUS
<1> HIDE DEF X, Y, B
<1>7. /\ state'.attempts = Y /\ state'.trials = X
      /\ state'.branches = B /\ state'.artifacts = state.artifacts
      /\ state'.workers = state.workers /\ state'.last_epoch = state.last_epoch
  BY ZenonT(60), <1>t, <1>5 DEF StateType, StateFields
<1>8. Moves(state, state')
  <2>1. /\ state'.trials = [state.trials EXCEPT ![t] = x]
        /\ state'.attempts = [state.attempts EXCEPT ![a] = y]
        /\ DOMAIN state'.branches = DOMAIN state.branches
    BY <1>6, <1>7 DEF X, Y
  <2> HIDE DEF t, a, x, y
  <2> QED BY ZenonT(60), <1>t, <1>1, <1>3, <1>4, <2>1, PointMoves
<1> QED BY ZenonT(60), <1>7, <1>8, WorkersSame DEF Tame

\* revoke_worker, and a registration that is refused after it has revoked.
LEMMA LosingTame ==
  ASSUME AuthorityInvariant, NEW I, state' = LoseProducers(state, I)
  PROVE  Tame(state, state')
<1>1. StateType(state)
  BY DEF AuthorityInvariant, TypeOK
<1> QED BY ZenonT(60), <1>1, LoseProducersTame

\* retire_branch
LEMMA RetireBranchTame ==
  ASSUME AuthorityInvariant, NEW b, RetireBranch(b)
  PROVE  Tame(state, state')
<1> DEFINE B == [state.branches EXCEPT ![b] = [state |-> "RETIRED",
                                               generation |-> state.branches[b].generation + 1]]
           T == OpenTrials(state) \cap TrialsOf(state, b)
           A == {a \in LiveAttempts(state) : state.attempts[a].branch = b}
           X == SetTrials(state, T, "SUPERSEDED")
           Y == SetAttempts(state, A, "ABANDONED")
<1>t. StateType(state)
  BY DEF AuthorityInvariant, TypeOK
<1>1. state' = [state EXCEPT !.branches = B, !.trials = X, !.attempts = Y]
  BY DEF RetireBranch
<1>2. DOMAIN B = DOMAIN state.branches /\ A \subseteq LiveAttempts(state)
  OBVIOUS
<1> HIDE DEF X, Y, B
<1>3. /\ state'.attempts = Y /\ state'.trials = X
      /\ state'.branches = B /\ state'.artifacts = state.artifacts
      /\ state'.workers = state.workers /\ state'.last_epoch = state.last_epoch
  BY ZenonT(60), <1>t, <1>1 DEF StateType, StateFields
<1>4. Moves(state, state')
  <2> HIDE DEF A, T
  <2> QED BY ZenonT(60), <1>t, <1>2, <1>3, SetsMove DEF X, Y, AttemptExits
<1> QED BY ZenonT(60), <1>3, <1>4, WorkersSame DEF Tame

\* cancel_trial
LEMMA CancelTrialTame ==
  ASSUME AuthorityInvariant, NEW t, CancelTrial(t)
  PROVE  Tame(state, state')
<1> DEFINE A == {a \in LiveAttempts(state) : state.attempts[a].trial = t}
           X == SetTrials(state, {t}, "CANCELLED")
           Y == SetAttempts(state, A, "CANCELLED")
<1>t. StateType(state)
  BY DEF AuthorityInvariant, TypeOK
<1>1. state' = [state EXCEPT !.trials = X, !.attempts = Y]
  BY DEF CancelTrial
<1>2. A \subseteq LiveAttempts(state)
  OBVIOUS
<1> HIDE DEF X, Y
<1>3. /\ state'.attempts = Y /\ state'.trials = X
      /\ state'.branches = state.branches /\ state'.artifacts = state.artifacts
      /\ state'.workers = state.workers /\ state'.last_epoch = state.last_epoch
  BY ZenonT(60), <1>t, <1>1 DEF StateType, StateFields
<1>4. Moves(state, state')
  <2> HIDE DEF A
  <2> QED BY ZenonT(60), <1>t, <1>2, <1>3, SetsMove DEF X, Y, AttemptExits
<1> QED BY ZenonT(60), <1>3, <1>4, WorkersSame DEF Tame

\* cancel_experiment
LEMMA CancelExperimentTame ==
  ASSUME AuthorityInvariant, CancelExperiment
  PROVE  Tame(state, state')
<1> DEFINE X == SetTrials(state, OpenTrials(state), "CANCELLED")
           Y == SetAttempts(state, LiveAttempts(state), "CANCELLED")
<1>t. StateType(state)
  BY DEF AuthorityInvariant, TypeOK
<1>1. state' = [state EXCEPT !.exp = "CANCELLED", !.trials = X, !.attempts = Y]
  BY DEF CancelExperiment
<1> HIDE DEF X, Y
<1>3. /\ state'.attempts = Y /\ state'.trials = X
      /\ state'.branches = state.branches /\ state'.artifacts = state.artifacts
      /\ state'.workers = state.workers /\ state'.last_epoch = state.last_epoch
  BY ZenonT(60), <1>t, <1>1 DEF StateType, StateFields
<1>4. Moves(state, state')
  BY ZenonT(60), <1>t, <1>3, SetsMove DEF X, Y, AttemptExits
<1> QED BY ZenonT(60), <1>3, <1>4, WorkersSame DEF Tame

\* What follows abandon_stale_live_work and touches none of trials, attempts, artifacts,
\* workers and epoch.
LEMMA AbandoningTame ==
  ASSUME NEW s, NEW r, StateType(s), DOMAIN r.branches = DOMAIN s.branches,
         \A f \in {"trials", "attempts", "artifacts", "workers", "last_epoch"} :
           r[f] = abandon_stale_live_work(s)[f]
  PROVE  Tame(s, r)
<1> DEFINE q == abandon_stale_live_work(s)
<1>1. Tame(s, q)
  BY AbandonTame
<1>2. /\ r.trials = q.trials /\ r.attempts = q.attempts /\ r.artifacts = q.artifacts
      /\ r.workers = q.workers /\ r.last_epoch = q.last_epoch
  OBVIOUS
<1> HIDE DEF q
<1> QED BY ZenonT(60), <1>1, <1>2 DEF Tame, Moves, WorkersKept

\* revise_hypothesis
LEMMA ReviseHypothesisTame ==
  ASSUME AuthorityInvariant, ReviseHypothesis
  PROVE  Tame(state, state')
<1> DEFINE q == abandon_stale_live_work(state)
<1>t. StateType(state)
  BY DEF AuthorityInvariant, TypeOK
<1>1. DOMAIN q = StateFields /\ q.branches = state.branches
  BY ZenonT(120), <1>t DEF abandon_stale_live_work, StateType, StateFields
<1>2. state' = [q EXCEPT !.hypothesis_revision = @ + 1, !.generation = @ + 1]
  BY DEF ReviseHypothesis
<1> HIDE DEF q
<1>3. /\ \A f \in {"trials", "attempts", "artifacts", "workers", "last_epoch"} : state'[f] = q[f]
      /\ DOMAIN state'.branches = DOMAIN state.branches
  BY ZenonT(60), <1>1, <1>2 DEF StateFields
<1> QED BY ZenonT(60), <1>t, <1>3, AbandoningTame DEF q

\* rollback
LEMMA RollbackTame ==
  ASSUME AuthorityInvariant, NEW g, Rollback(g)
  PROVE  Tame(state, state')
<1> DEFINE q == abandon_stale_live_work(state)
<1>t. StateType(state)
  BY DEF AuthorityInvariant, TypeOK
<1>1. DOMAIN q = StateFields
  BY ZenonT(120), <1>t DEF abandon_stale_live_work, StateType, StateFields
<1>2. PICK n \in DOMAIN state.rollback_points : state' = RolledBack(state, state.rollback_points[n])
  BY DEF Rollback
<1> DEFINE p == state.rollback_points[n]
           B == RestoredBranches(state, p.authority)
           ex == IF q.exp \in {"FINALIZED", "SUPERSEDED"} THEN "OPEN" ELSE q.exp
           rp == Append(q.rollback_points, p)
<1>3. state' = [q EXCEPT !.generation = p.generation, !.branches = B,
                         !.rollback_points = rp, !.exp = ex]
  BY <1>2 DEF RolledBack
<1>4. DOMAIN B = DOMAIN state.branches
  BY DEF RestoredBranches
<1> HIDE DEF q, p, B, ex, rp
<1>5. /\ \A f \in {"trials", "attempts", "artifacts", "workers", "last_epoch"} : state'[f] = q[f]
      /\ DOMAIN state'.branches = DOMAIN state.branches
  BY ZenonT(60), <1>1, <1>3, <1>4 DEF StateFields
<1> QED BY ZenonT(60), <1>t, <1>5, AbandoningTame DEF q

\* finalize_experiment
LEMMA FinalizeTame ==
  ASSUME AuthorityInvariant, NEW c, NEW outcome, FinalizeExperiment(c, outcome)
  PROVE  Tame(state, state')
<1> DEFINE ds == Append(state.decisions, [candidate |-> c, outcome |-> outcome])
           ex == StateAfter(outcome, state.exp)
           rp == IF outcome \in {"ACCEPT", "REJECT", "INVALID"}
                 THEN Append(state.rollback_points, [generation |-> state.generation,
                                                     authority |-> Snapshots(state)])
                 ELSE state.rollback_points
<1>t. StateType(state)
  BY DEF AuthorityInvariant, TypeOK
<1>1. state' = [state EXCEPT !.decisions = ds, !.exp = ex, !.rollback_points = rp]
  BY DEF FinalizeExperiment
<1> HIDE DEF ds, ex, rp
<1>2. /\ state'.attempts = state.attempts /\ state'.trials = state.trials
      /\ state'.branches = state.branches /\ state'.artifacts = state.artifacts
      /\ state'.workers = state.workers /\ state'.last_epoch = state.last_epoch
  BY ZenonT(60), <1>t, <1>1 DEF StateType, StateFields
<1> QED BY ZenonT(60), <1>t, <1>2, AsideTame

-----------------------------------------------------------------------------
(***************************************************************************)
(* What a step of this kind means for the books.                           *)
(***************************************************************************)

\* A handler that keeps the books of the memory and the workers, and writes the image or
\* fails to.
LEMMA ServingBooks ==
  ASSUME BooksInvariant, Books(state'), phase # "down", phase' # "down", epoch' = epoch,
         StateType(state), StateType(state'),
         WorkersKept(state, state'), state'.last_epoch = state.last_epoch,
         DOMAIN live \subseteq DOMAIN live', disk' = state' \/ disk' = disk
  PROVE  BooksInvariant'
<1>1. state.last_epoch \in Nat /\ state.last_epoch = epoch /\ state.last_epoch <= state'.last_epoch
  BY DEF StateType, BooksInvariant
<1>2. \A w \in state'.workers : \E v \in state.workers :
        v.inc = w.inc /\ v.epoch = w.epoch /\ (v.revoked => w.revoked)
  BY ZenonT(60), <1>1, WorkersStayValid DEF BooksInvariant, Books
<1>3. \A w \in state'.workers : w.epoch = epoch' /\ ~w.revoked => w.inc \in DOMAIN live'
  BY <1>2 DEF BooksInvariant
<1>4. Books(state') /\ Books(disk')
  BY DEF BooksInvariant
<1> QED BY ZenonT(60), <1>1, <1>3, <1>4 DEF BooksInvariant

\* The same while the coordinator serves.
LEMMA BooksStep ==
  ASSUME BooksInvariant, Books(state'), phase = "up", phase' = "up", epoch' = epoch,
         StateType(state), StateType(state'),
         WorkersKept(state, state'), state'.last_epoch = state.last_epoch,
         DOMAIN live \subseteq DOMAIN live', disk' = state' \/ disk' = disk
  PROVE  BooksInvariant'
<1>1. phase # "down" /\ phase' # "down"
  OBVIOUS
<1> QED BY ZenonT(60), <1>1, ServingBooks

\* A handler of the kind above keeps the books.
LEMMA TameStep ==
  ASSUME AuthorityInvariant, AuthorityInvariant', BooksInvariant, Tame(state, state'),
         phase = "up", phase' = "up", epoch' = epoch, DOMAIN live \subseteq DOMAIN live',
         disk' = state' \/ disk' = disk
  PROVE  BooksInvariant'
<1>1. StateType(state) /\ StateType(state') /\ ValidWatermarks(state) /\ Books(state)
  BY ZenonT(60), BothTyped DEF BooksInvariant
<1>2. Books(state')
  BY ZenonT(60), <1>1, TameBooks
<1> QED BY ZenonT(60), <1>1, <1>2, BooksStep DEF Tame

\* A handler that only moves work on keeps the books and follows the table.
LEMMA TameFollows ==
  ASSUME AuthorityInvariant, AuthorityInvariant', BooksInvariant, Tame(state, state'),
         phase = "up", UNCHANGED Volatile, \E ok \in BOOLEAN : persist_locked(ok)
  PROVE  BooksInvariant' /\ FollowTable(state, state')
<1>1. /\ phase' = "up" /\ epoch' = epoch /\ live' = live /\ (disk' = state' \/ disk' = disk)
  BY ZenonT(120), Written DEF Volatile
<1>2. BooksInvariant'
  BY ZenonT(60), <1>1, TameStep
<1> QED BY ZenonT(60), <1>2, MovesFollow DEF Tame

-----------------------------------------------------------------------------
(***************************************************************************)
(* The handlers that add attempts, a trial, a branch or artifacts.         *)
(***************************************************************************)

\* claim_trials
LEMMA ClaimTrialsBooks ==
  ASSUME AuthorityInvariant, AuthorityInvariant', BooksInvariant, NEW i \in Incarnation,
         NEW max_claims \in Nat, ClaimTrials(i, max_claims)
  PROVE  /\ BooksInvariant'
         /\ \A a \in DOMAIN state.attempts : state'.attempts[a] = state.attempts[a]
<1> DEFINE wm == state.wm_attempt
           budget == ClaimBudget(i, max_claims)
<1>t. /\ StateType(state) /\ StateType(state') /\ ValidWatermarks(state) /\ Books(state)
      /\ wm \in Nat
  BY ZenonT(60), BothTyped DEF BooksInvariant, StateType
<1>1. PICK n \in 1 .. max_claims : \E picked \in [1 .. n -> Claimable] :
        /\ n <= budget
        /\ WalkTakes(picked, budget)
        /\ state' =
             [state EXCEPT
                !.wm_attempt = wm + n,
                !.attempts = [a \in DOMAIN state.attempts \cup (wm + 1 .. wm + n) |->
                                IF a \in wm + 1 .. wm + n THEN IssuedTo(i, picked[a - wm])
                                                          ELSE state.attempts[a]],
                !.trials = [t \in DOMAIN state.trials |->
                              IF \E k \in 1 .. n : picked[k] = t
                              THEN [state.trials[t] EXCEPT
                                      !.attempt_count = @ + 1,
                                      !.next_attempt_number = @ + 1,
                                      !.authoritative_attempt =
                                         wm + (CHOOSE k \in 1 .. n : picked[k] = t),
                                      !.state = "ASSIGNED"]
                              ELSE state.trials[t]]]
  BY ZenonT(120) DEF ClaimTrials
<1>2. PICK picked \in [1 .. n -> Claimable] :
        /\ n <= budget
        /\ WalkTakes(picked, budget)
        /\ state' =
             [state EXCEPT
                !.wm_attempt = wm + n,
                !.attempts = [a \in DOMAIN state.attempts \cup (wm + 1 .. wm + n) |->
                                IF a \in wm + 1 .. wm + n THEN IssuedTo(i, picked[a - wm])
                                                          ELSE state.attempts[a]],
                !.trials = [t \in DOMAIN state.trials |->
                              IF \E k \in 1 .. n : picked[k] = t
                              THEN [state.trials[t] EXCEPT
                                      !.attempt_count = @ + 1,
                                      !.next_attempt_number = @ + 1,
                                      !.authoritative_attempt =
                                         wm + (CHOOSE k \in 1 .. n : picked[k] = t),
                                      !.state = "ASSIGNED"]
                              ELSE state.trials[t]]]
  BY ZenonT(120), <1>1
<1> DEFINE at(t) == CHOOSE k \in 1 .. n : picked[k] = t
           hit(t) == \E k \in 1 .. n : picked[k] = t
           X == [t \in DOMAIN state.trials |->
                   IF hit(t)
                   THEN [state.trials[t] EXCEPT
                           !.attempt_count = @ + 1, !.next_attempt_number = @ + 1,
                           !.authoritative_attempt = wm + at(t), !.state = "ASSIGNED"]
                   ELSE state.trials[t]]
           Y == [a \in DOMAIN state.attempts \cup (wm + 1 .. wm + n) |->
                   IF a \in wm + 1 .. wm + n THEN IssuedTo(i, picked[a - wm]) ELSE state.attempts[a]]
<1>3. /\ state'.trials = X /\ state'.attempts = Y /\ state'.branches = state.branches
      /\ state'.artifacts = state.artifacts /\ state'.workers = state.workers
      /\ state'.last_epoch = state.last_epoch
  <2>1. state' = [state EXCEPT !.wm_attempt = wm + n, !.attempts = Y, !.trials = X]
    BY ZenonT(60), <1>2
  <2> HIDE DEF X, Y
  <2> QED BY ZenonT(60), <1>t, <2>1 DEF StateType, StateFields
<1>4. picked \in [1 .. n -> DOMAIN state.trials]
  BY ZenonT(60) DEF Claimable
<1>5. \A j, k \in 1 .. n : picked[j] = picked[k] => j = k
  <2>1. \A j, k \in 1 .. n : j < k => picked[j] < picked[k]
    BY ZenonT(60), <1>2 DEF WalkTakes
  <2>2. \A j \in 1 .. n : picked[j] \in Nat
    BY ZenonT(60), <1>t, <1>4 DEF StateType, IsMap
  <2> QED BY <2>1, <2>2
<1>6. \A k \in 1 .. n : /\ state.trials[picked[k]].attempt_count < MaxAttempts
                        /\ ~(RetryPolicy = "NO_RETRY" /\ state.trials[picked[k]].attempt_count > 0)
  BY DEF Claimable
<1>7. Cardinality(ActiveOf(state, i)) + n <= MaxConcurrent
  <2> DEFINE m == Monus(MaxConcurrent, Cardinality(ActiveOf(state, i)))
             l == Monus(Cardinality(DOMAIN state.trials) * AttemptsLimit + 16,
                        Cardinality(DOMAIN state.attempts))
  <2>1. m \in Int
    BY <1>t, FiniteActive, DefinitionAssumption DEF Monus
  <2>2. l \in Int
    <3>1. Cardinality(DOMAIN state.trials) \in Nat /\ Cardinality(DOMAIN state.attempts) \in Nat
      BY ZenonT(60), <1>t, FiniteMaps, FS_CardinalityType
    <3>2. Cardinality(DOMAIN state.trials) * AttemptsLimit \in Nat
      BY <3>1, LimitsAssumption
    <3> QED BY <3>1, <3>2 DEF Monus
  <2>3. n <= Min2(Min2(max_claims, m), l)
    BY ZenonT(60), <1>2 DEF ClaimBudget
  <2> HIDE DEF m, l
  <2>4. Min2(max_claims, m) \in Int /\ Min2(max_claims, m) <= m
    BY <2>1 DEF Min2
  <2>5. Min2(Min2(max_claims, m), l) \in Int /\ Min2(Min2(max_claims, m), l) <= Min2(max_claims, m)
    <3>1. \A x, y \in Int : Min2(x, y) \in Int /\ Min2(x, y) <= x
      BY DEF Min2
    <3> QED BY ZenonT(60), <2>2, <2>4, <3>1
  <2>6. n <= m
    BY <2>1, <2>3, <2>4, <2>5
  <2>7. MaxConcurrent \in Nat /\ Cardinality(ActiveOf(state, i)) \in Nat
    BY ZenonT(60), <1>t, FiniteActive, DefinitionAssumption
  <2> QED BY <2>6, <2>7 DEF m, Monus
<1>8. /\ \A a \in DOMAIN state.attempts : a <= wm
      /\ \A a \in wm + 1 .. wm + n : ~(a <= wm)
  BY <1>t DEF ValidWatermarks
<1>9. /\ DOMAIN Y = DOMAIN state.attempts \cup (wm + 1 .. wm + n)
      /\ \A a \in DOMAIN state.attempts : a <= wm /\ Y[a] = state.attempts[a]
      /\ \A a \in wm + 1 .. wm + n :
           /\ Y[a].inc = i /\ Y[a].trial = picked[a - wm]
           /\ Y[a].number = state.trials[picked[a - wm]].next_attempt_number
  <2>1. \A t : /\ IssuedTo(i, t).inc = i /\ IssuedTo(i, t).trial = t
               /\ IssuedTo(i, t).number = state.trials[t].next_attempt_number
    BY ZenonT(60) DEF IssuedTo
  <2> QED BY ZenonT(60), <1>8, <2>1
<1>10. /\ DOMAIN X = DOMAIN state.trials
       /\ \A t \in DOMAIN state.trials :
            /\ X[t].branch = state.trials[t].branch /\ X[t].generation = state.trials[t].generation
            /\ IF hit(t)
               THEN /\ X[t].attempt_count = state.trials[t].attempt_count + 1
                    /\ X[t].next_attempt_number = state.trials[t].next_attempt_number + 1
               ELSE /\ X[t].attempt_count = state.trials[t].attempt_count
                    /\ X[t].next_attempt_number = state.trials[t].next_attempt_number
  <2> HIDE DEF hit, at
  <2>1. \A t \in DOMAIN state.trials : state.trials[t] \in TrialRecord
    BY ZenonT(60), <1>t DEF StateType, IsMap
  <2> QED BY ZenonT(60), <2>1 DEF TrialRecord
<1>11. IssuesTo(state, state', i, n, picked, wm)
  <2> HIDE DEF X, Y
  <2> QED BY ZenonT(60), <1>3, <1>9, <1>10 DEF IssuesTo
<1>12. Books(state')
  <2> HIDE DEF wm
  <2>1. n \in Nat \ {0}
    OBVIOUS
  <2> QED BY ZenonT(60), <1>t, <1>3, <1>4, <1>5, <1>6, <1>7, <1>11, <2>1, ClaimedBooks
<1>13. /\ phase = "up" /\ phase' = "up" /\ epoch' = epoch /\ live' = live
       /\ (disk' = state' \/ disk' = disk)
  BY ZenonT(120), Written DEF ClaimTrials
<1>14. BooksInvariant'
  BY ZenonT(60), <1>t, <1>3, <1>12, <1>13, WorkersSame, BooksStep
<1> QED BY ZenonT(60), <1>3, <1>9, <1>14

\* create_trial: the new trial has no attempt yet, and the limit leaves room for it.
LEMMA CreateTrialBooks ==
  ASSUME AuthorityInvariant, AuthorityInvariant', BooksInvariant, NEW b, CreateTrial(b)
  PROVE  /\ BooksInvariant'
         /\ \A a \in DOMAIN state.attempts : state'.attempts[a] = state.attempts[a]
<1> DEFINE id == state.wm_trial + 1
           X == [t \in DOMAIN state.trials \cup {id} |->
                   IF t = id THEN NewTrial(b) ELSE state.trials[t]]
           created == [[state EXCEPT !.wm_trial = id] EXCEPT !.trials = X]
<1>t. /\ StateType(state) /\ StateType(state') /\ ValidWatermarks(state) /\ Books(state)
      /\ state.wm_trial \in Nat /\ DOMAIN state.trials \subseteq Nat \ {0}
  BY ZenonT(60), BothTyped DEF BooksInvariant, StateType, IsMap
<1>1. \/ state' = [state EXCEPT !.wm_trial = id]
      \/ state' = created
  BY ZenonT(120) DEF CreateTrial
<1>2. /\ b \in DOMAIN state.branches
      /\ Cardinality(DOMAIN state.trials) < Cardinality(DOMAIN state.branches) * MaxTrialsPerBranch
      /\ phase = "up" /\ UNCHANGED Volatile /\ (disk' = state' \/ disk' = disk)
  BY ZenonT(120), Written DEF CreateTrial
<1>3. id \notin DOMAIN state.trials
  BY <1>t DEF ValidWatermarks
<1>4. CASE state' = [state EXCEPT !.wm_trial = id]
  <2>1. /\ state'.attempts = state.attempts /\ state'.trials = state.trials
        /\ state'.branches = state.branches /\ state'.artifacts = state.artifacts
        /\ state'.workers = state.workers /\ state'.last_epoch = state.last_epoch
    BY ZenonT(60), <1>t, <1>4 DEF StateType, StateFields
  <2>2. Tame(state, state')
    BY ZenonT(60), <1>t, <2>1, AsideTame
  <2> QED BY ZenonT(60), <1>2, <2>1, <2>2, TameStep DEF Volatile
<1>5. CASE state' = created
  <2>1. /\ state'.attempts = state.attempts /\ state'.trials = X
        /\ state'.branches = state.branches /\ state'.artifacts = state.artifacts
        /\ state'.workers = state.workers /\ state'.last_epoch = state.last_epoch
    <3> HIDE DEF X
    <3> QED BY ZenonT(60), <1>t, <1>5 DEF StateType, StateFields
  <2>2. /\ DOMAIN X = DOMAIN state.trials \cup {id} /\ X[id] = NewTrial(b)
        /\ \A t \in DOMAIN state.trials : X[t] = state.trials[t]
    BY ZenonT(60), <1>3
  <2>3. /\ NewTrial(b).attempt_count = 0 /\ NewTrial(b).next_attempt_number = 1
        /\ NewTrial(b).branch = b /\ NewTrial(b).generation = state.generation
        /\ state.generation # 0
    BY ZenonT(60), <1>t DEF NewTrial, StateType
  <2> HIDE DEF X, id
  <2>4. HeadRoom(state')
    BY ZenonT(60), <1>t, <2>1, SameBooks DEF Books
  <2>5. AttemptsCounted(state')
    <3>1. id \notin DOMAIN state.trials /\ AttemptsCounted(state)
      BY ZenonT(60), <1>t, <1>3 DEF Books, id
    <3>2. /\ DOMAIN state'.trials = DOMAIN state.trials \cup {id}
          /\ \A t \in DOMAIN state.trials : state'.trials[t] = state.trials[t]
          /\ state'.trials[id].attempt_count = 0 /\ state'.trials[id].next_attempt_number = 1
      BY ZenonT(60), <2>1, <2>2, <2>3
    <3> QED BY ZenonT(60), <2>1, <3>1, <3>2, CreatedCounted
  <2>6. TrialsCounted(state')
    <3>1. \A t \in DOMAIN state'.trials :
            state'.trials[t].branch \in DOMAIN state'.branches /\ state'.trials[t].generation # 0
      <4>1. \A t \in DOMAIN state.trials :
              state.trials[t].branch \in DOMAIN state.branches /\ state.trials[t].generation # 0
        BY ZenonT(60), <1>t DEF Books, TrialsCounted
      <4> QED BY ZenonT(60), <1>2, <2>1, <2>2, <2>3, <4>1
    <3> DEFINE p == Cardinality(DOMAIN state.branches) * MaxTrialsPerBranch
    <3>2. IsFiniteSet(DOMAIN state.branches) /\ IsFiniteSet(DOMAIN state.trials)
      BY ZenonT(60), <1>t, FiniteMaps
    <3>3. p \in Nat /\ Cardinality(DOMAIN state.trials) \in Nat
      BY <3>2, FS_CardinalityType, LimitsAssumption
    <3>4. Cardinality(DOMAIN state'.trials) = Cardinality(DOMAIN state.trials) + 1
      BY ZenonT(60), <1>3, <2>1, <2>2, <3>2, FS_AddElement DEF id
    <3>5. Cardinality(DOMAIN state.trials) < p
      BY ZenonT(60), <1>2
    <3> HIDE DEF p
    <3>6. Cardinality(DOMAIN state'.trials) <= p
      BY <3>3, <3>4, <3>5
    <3> QED BY ZenonT(60), <2>1, <3>1, <3>6 DEF TrialsCounted, p
  <2>7. IsFiniteSet(state'.artifacts) /\ ValidArtifacts(state')
    BY ZenonT(60), <1>t, <2>1, ArtifactsStayValid DEF Books
  <2>8. Books(state')
    BY ZenonT(60), <1>t, <2>1, <2>4, <2>5, <2>6, <2>7 DEF Books, ValidWorkers
  <2> QED BY ZenonT(60), <1>t, <1>2, <2>1, <2>8, WorkersSame, BooksStep DEF Volatile
<1> QED BY ZenonT(60), <1>1, <1>4, <1>5

\* fork_branch: one more branch leaves room for more trials.
LEMMA ForkBranchBooks ==
  ASSUME AuthorityInvariant, AuthorityInvariant', BooksInvariant, NEW b, ForkBranch(b)
  PROVE  /\ BooksInvariant'
         /\ \A a \in DOMAIN state.attempts : state'.attempts[a] = state.attempts[a]
<1> DEFINE id == state.wm_branch + 1
           B == [c \in DOMAIN state.branches \cup {id} |->
                   IF c = id THEN [state |-> "ACTIVE", generation |-> 1] ELSE state.branches[c]]
           forked == [[state EXCEPT !.wm_branch = id] EXCEPT !.branches = B]
<1>t. /\ StateType(state) /\ StateType(state') /\ ValidWatermarks(state) /\ Books(state)
      /\ state.wm_branch \in Nat /\ DOMAIN state.branches \subseteq Nat \ {0}
  BY ZenonT(60), BothTyped DEF BooksInvariant, StateType, IsMap
<1>1. \/ state' = [state EXCEPT !.wm_branch = id]
      \/ state' = forked
  BY ZenonT(120) DEF ForkBranch
<1>2. phase = "up" /\ UNCHANGED Volatile /\ (disk' = state' \/ disk' = disk)
  BY ZenonT(120), Written DEF ForkBranch
<1>3. id \notin DOMAIN state.branches
  BY <1>t DEF ValidWatermarks
<1>4. CASE state' = [state EXCEPT !.wm_branch = id]
  <2>1. /\ state'.attempts = state.attempts /\ state'.trials = state.trials
        /\ state'.branches = state.branches /\ state'.artifacts = state.artifacts
        /\ state'.workers = state.workers /\ state'.last_epoch = state.last_epoch
    BY ZenonT(60), <1>t, <1>4 DEF StateType, StateFields
  <2>2. Tame(state, state')
    BY ZenonT(60), <1>t, <2>1, AsideTame
  <2> QED BY ZenonT(60), <1>2, <2>1, <2>2, TameStep DEF Volatile
<1>5. CASE state' = forked
  <2>1. /\ state'.attempts = state.attempts /\ state'.trials = state.trials
        /\ state'.branches = B /\ state'.artifacts = state.artifacts
        /\ state'.workers = state.workers /\ state'.last_epoch = state.last_epoch
    <3> HIDE DEF B
    <3> QED BY ZenonT(60), <1>t, <1>5 DEF StateType, StateFields
  <2>2. DOMAIN B = DOMAIN state.branches \cup {id}
    OBVIOUS
  <2> HIDE DEF B, id
  <2>3. HeadRoom(state') /\ AttemptsCounted(state')
    BY ZenonT(60), <1>t, <2>1, SameBooks DEF Books
  <2>4. TrialsCounted(state')
    <3> DEFINE old == Cardinality(DOMAIN state.branches)
               new == Cardinality(DOMAIN state'.branches)
    <3>1. IsFiniteSet(DOMAIN state.branches) /\ IsFiniteSet(DOMAIN state.trials)
      BY ZenonT(60), <1>t, FiniteMaps
    <3>2. old \in Nat /\ new = old + 1 /\ Cardinality(DOMAIN state.trials) \in Nat
      BY ZenonT(60), <1>3, <2>1, <2>2, <3>1, FS_AddElement, FS_CardinalityType
    <3>3. MaxTrialsPerBranch \in Nat
      BY ZenonT(60), LimitsAssumption
    <3>4. Cardinality(DOMAIN state.trials) <= old * MaxTrialsPerBranch
      BY ZenonT(60), <1>t DEF Books, TrialsCounted
    <3> HIDE DEF old, new
    <3>5. new * MaxTrialsPerBranch = old * MaxTrialsPerBranch + MaxTrialsPerBranch
      BY <3>2, <3>3
    <3>6. old * MaxTrialsPerBranch \in Nat
      BY <3>2, <3>3
    <3>7. Cardinality(DOMAIN state.trials) <= new * MaxTrialsPerBranch
      BY <3>2, <3>3, <3>4, <3>5, <3>6
    <3> QED BY ZenonT(60), <1>t, <2>1, <2>2, <3>7 DEF Books, TrialsCounted, new
  <2>5. IsFiniteSet(state'.artifacts) /\ ValidArtifacts(state')
    BY ZenonT(60), <1>t, <2>1, ArtifactsStayValid DEF Books
  <2>6. Books(state')
    BY ZenonT(60), <1>t, <2>1, <2>3, <2>4, <2>5 DEF Books, ValidWorkers
  <2> QED BY ZenonT(60), <1>t, <1>2, <2>1, <2>6, WorkersSame, BooksStep DEF Volatile
<1> QED BY ZenonT(60), <1>1, <1>4, <1>5

\* publish_artifact with authority
LEMMA PublishArtifactBooks ==
  ASSUME AuthorityInvariant, AuthorityInvariant', BooksInvariant, NEW e \in issued, NEW k \in Nat,
         PublishArtifact(e, k)
  PROVE  /\ BooksInvariant'
         /\ \A a \in DOMAIN state.attempts : state'.attempts[a] = state.attempts[a]
<1> DEFINE more == state.artifacts \cup {<<e.attempt, k>>}
<1>t. /\ StateType(state) /\ StateType(state') /\ ValidWatermarks(state) /\ Books(state)
  BY BothTyped DEF BooksInvariant
<1>1. /\ state' = [state EXCEPT !.artifacts = more] \/ state' = state
      /\ e.attempt \in DOMAIN state.attempts /\ Cardinality(state.artifacts) < MaxArtifacts
      /\ phase = "up" /\ UNCHANGED Volatile /\ (disk' = state' \/ disk' = disk)
  BY ZenonT(120), Written DEF PublishArtifact, ArtifactAddressed
<1>2. IsFiniteSet(more) /\ Cardinality(more) <= MaxArtifacts
  <2>1. IsFiniteSet(state.artifacts) /\ Cardinality(state.artifacts) \in Nat
    BY ZenonT(60), <1>t, FS_CardinalityType DEF Books
  <2>2. /\ IsFiniteSet(more)
        /\ \/ Cardinality(more) = Cardinality(state.artifacts)
           \/ Cardinality(more) = Cardinality(state.artifacts) + 1
    BY ZenonT(60), <2>1, FS_AddElement
  <2> HIDE DEF more
  <2> QED BY <1>1, <2>1, <2>2, LimitsAssumption
<1>3. \A x \in more : x[1] \in DOMAIN state.attempts
  BY <1>t, <1>1 DEF Books, ValidArtifacts
<1> HIDE DEF more
<1>4. /\ state'.attempts = state.attempts /\ state'.trials = state.trials
      /\ state'.branches = state.branches /\ state'.artifacts \in {more, state.artifacts}
      /\ state'.workers = state.workers /\ state'.last_epoch = state.last_epoch
  BY ZenonT(60), <1>t, <1>1 DEF StateType, StateFields
<1>5. IsFiniteSet(state'.artifacts) /\ ValidArtifacts(state')
  BY ZenonT(60), <1>t, <1>2, <1>3, <1>4 DEF Books, ValidArtifacts
<1>6. Books(state')
  <2>1. HeadRoom(state') /\ AttemptsCounted(state') /\ TrialsCounted(state')
    BY ZenonT(60), <1>t, <1>4, SameBooks DEF Books
  <2> QED BY ZenonT(60), <1>t, <1>4, <1>5, <2>1 DEF Books, ValidWorkers
<1> QED BY ZenonT(60), <1>t, <1>1, <1>4, <1>6, WorkersSame, BooksStep DEF Volatile

\* The last of several artifacts that register has room, and so have the ones before it.
LEMMA LastRegisters ==
  ASSUME NEW e, NEW arts, NEW n \in Nat, \A j \in 1 .. n : Registers(e, arts, j)
  PROVE  n # 0 => Cardinality(state.artifacts) + n - 1 < MaxArtifacts
<1> SUFFICES ASSUME n # 0 PROVE Cardinality(state.artifacts) + n - 1 < MaxArtifacts
  OBVIOUS
<1>1. Registers(e, arts, n)
  OBVIOUS
<1> QED BY <1>1 DEF Registers

\* commit_trial that stops at an artifact: the ones before it stay.
LEMMA CommitRefusedBooks ==
  ASSUME AuthorityInvariant, AuthorityInvariant', BooksInvariant, NEW e \in issued,
         NEW arts \in ArtifactRequests, CommitRefused(e, arts)
  PROVE  /\ BooksInvariant'
         /\ \A a \in DOMAIN state.attempts : state'.attempts[a] = state.attempts[a]
<1>t. /\ StateType(state) /\ StateType(state') /\ ValidWatermarks(state) /\ Books(state)
  BY ZenonT(60), BothTyped DEF BooksInvariant
<1>1. PICK n \in DOMAIN arts : /\ \A j \in 1 .. n - 1 : Registers(e, arts, j)
                               /\ state' = WithArtifacts(e, arts, 1 .. n - 1)
  BY ZenonT(60) DEF CommitRefused
<1>2. PICK l \in 0 .. MaxArtifactRequest : arts \in [1 .. l -> 0 .. MaxArtifactsPerAttempt]
  BY ZenonT(60) DEF ArtifactRequests
<1>3. /\ phase = "up" /\ UNCHANGED Volatile /\ disk' = disk /\ check_envelope(e)
  BY ZenonT(60) DEF CommitRefused, CommitAllowed
<1>4. e.attempt \in DOMAIN state.attempts
  BY ZenonT(60), <1>3 DEF check_envelope
<1> DEFINE more == state.artifacts \cup {<<e.attempt, arts[j]>> : j \in 1 .. n - 1}
<1>5. state' = [state EXCEPT !.artifacts = more]
  BY ZenonT(60), <1>1 DEF WithArtifacts
<1>6. n - 1 \in Nat /\ n - 1 \in 0 .. l /\ l \in Nat /\ arts \in [1 .. l -> Nat]
  BY <1>2, BoundsAssumption, LimitsAssumption
<1> HIDE DEF more
<1>7. /\ state'.attempts = state.attempts /\ state'.trials = state.trials
      /\ state'.branches = state.branches /\ state'.artifacts = more
      /\ state'.workers = state.workers /\ state'.last_epoch = state.last_epoch
  BY ZenonT(60), <1>t, <1>5 DEF StateType, StateFields
<1>8. IsFiniteSet(state'.artifacts) /\ ValidArtifacts(state')
  <2> DEFINE k == n - 1
  <2>1. \A j \in 1 .. k : Registers(e, arts, j)
    BY ZenonT(60), <1>1
  <2>2. k \in Nat /\ k \in 0 .. l
    BY <1>6
  <2>3. state'.artifacts = state.artifacts \cup {<<e.attempt, arts[j]>> : j \in 1 .. k}
    BY ZenonT(60), <1>7 DEF more
  <2> HIDE DEF k
  <2>4. k # 0 => Cardinality(state.artifacts) + k - 1 < MaxArtifacts
    BY ZenonT(60), <2>1, <2>2, LastRegisters
  <2>5. IsFiniteSet(state.artifacts) /\ ValidArtifacts(state) /\ DOMAIN state'.attempts = DOMAIN state.attempts
    BY ZenonT(60), <1>t, <1>7 DEF Books
  <2> QED BY ZenonT(60), <1>4, <1>6, <2>2, <2>3, <2>4, <2>5, RegisteredArtifacts
<1>9. Books(state')
  <2>1. HeadRoom(state') /\ AttemptsCounted(state') /\ TrialsCounted(state')
    BY ZenonT(60), <1>t, <1>7, SameBooks DEF Books
  <2> QED BY ZenonT(60), <1>t, <1>7, <1>8, <2>1 DEF Books, ValidWorkers
<1> QED BY ZenonT(60), <1>t, <1>3, <1>7, <1>9, WorkersSame, BooksStep DEF Volatile

\* commit_trial
LEMMA CommitTrialBooks ==
  ASSUME AuthorityInvariant, AuthorityInvariant', BooksInvariant, NEW e \in issued,
         NEW arts \in ArtifactRequests, CommitTrial(e, arts)
  PROVE  BooksInvariant' /\ Moves(state, state')
<1> DEFINE t == e.trial
           a == e.attempt
           more == state.artifacts \cup {<<a, arts[j]>> : j \in DOMAIN arts}
           x == [state.trials[t] EXCEPT !.state = "COMPLETED", !.committed_attempts = 1]
           y == [state.attempts[a] EXCEPT !.state = "COMPLETED", !.committed = TRUE]
           X == [state.trials EXCEPT ![t] = x]
           Y == [state.attempts EXCEPT ![a] = y]
<1>t. /\ StateType(state) /\ StateType(state') /\ ValidWatermarks(state) /\ Books(state)
  BY ZenonT(60), BothTyped DEF BooksInvariant
<1>1. /\ \A n \in DOMAIN arts : Registers(e, arts, n)
      /\ state' = Committed(WithArtifacts(e, arts, DOMAIN arts), t, a)
      /\ "COMPLETED" \in AttemptSuccessors(state.attempts[a].state)
      /\ phase = "up" /\ phase' = "up" /\ epoch' = epoch /\ live' = live /\ check_envelope(e)
  BY ZenonT(120) DEF CommitTrial, CommitAllowed
<1>2. disk' = state' \/ disk' = disk
  BY ZenonT(120), Written DEF CommitTrial
<1>3. PICK l \in 0 .. MaxArtifactRequest : arts \in [1 .. l -> 0 .. MaxArtifactsPerAttempt]
  BY ZenonT(60) DEF ArtifactRequests
<1>4. l \in Nat /\ l \in 0 .. l /\ arts \in [1 .. l -> Nat] /\ DOMAIN arts = 1 .. l
  BY <1>3, BoundsAssumption, LimitsAssumption
<1>5. t \in DOMAIN state.trials /\ a \in DOMAIN state.attempts
  BY ZenonT(60), <1>1 DEF check_envelope
<1>6. state.trials[t] \in TrialRecord /\ state.attempts[a] \in AttemptRecord
  BY ZenonT(60), <1>t, <1>5 DEF StateType, IsMap
<1>7. TrialMoves(state.trials[t], x) /\ AttemptMoves(state.attempts[a], y)
  BY ZenonT(60), <1>1, <1>6 DEF TrialMoves, AttemptMoves, TrialRecord, AttemptRecord
<1>8. state' = [[state EXCEPT !.artifacts = more] EXCEPT !.attempts = Y, !.trials = X]
  <2>1. WithArtifacts(e, arts, DOMAIN arts) = [state EXCEPT !.artifacts = more]
    BY ZenonT(60) DEF WithArtifacts
  <2> DEFINE s == [state EXCEPT !.artifacts = more]
  <2>2. s.trials = state.trials /\ s.attempts = state.attempts
    <3> HIDE DEF more
    <3> QED BY ZenonT(60), <1>t DEF StateType, StateFields
  <2>3. state' = Committed(s, t, a)
    BY ZenonT(60), <1>1, <2>1
  <2> HIDE DEF s
  <2>4. state' = [s EXCEPT !.attempts = [s.attempts EXCEPT ![a] = [s.attempts[a] EXCEPT !.state = "COMPLETED", !.committed = TRUE]],
                           !.trials = [s.trials EXCEPT ![t] = [s.trials[t] EXCEPT !.state = "COMPLETED", !.committed_attempts = 1]]]
    BY ZenonT(60), <2>3 DEF Committed
  <2> QED BY ZenonT(60), <2>2, <2>4 DEF s
<1> HIDE DEF more, X, Y
<1>9. /\ state'.attempts = Y /\ state'.trials = X
      /\ state'.branches = state.branches /\ state'.artifacts = more
      /\ state'.workers = state.workers /\ state'.last_epoch = state.last_epoch
  BY ZenonT(60), <1>t, <1>8 DEF StateType, StateFields
<1>10. Moves(state, state')
  <2>1. /\ state'.trials = [state.trials EXCEPT ![t] = x]
        /\ state'.attempts = [state.attempts EXCEPT ![a] = y]
        /\ DOMAIN state'.branches = DOMAIN state.branches
    BY ZenonT(60), <1>9 DEF X, Y
  <2> HIDE DEF t, a, x, y
  <2> QED BY ZenonT(60), <1>t, <1>5, <1>7, <2>1, PointMoves
<1>11. IsFiniteSet(state'.artifacts) /\ ValidArtifacts(state')
  <2>1. state'.artifacts = state.artifacts \cup {<<a, arts[j]>> : j \in 1 .. l}
    BY ZenonT(60), <1>4, <1>9 DEF more
  <2>2. l # 0 => Cardinality(state.artifacts) + l - 1 < MaxArtifacts
    BY ZenonT(60), <1>1, <1>4, LastRegisters
  <2>3. IsFiniteSet(state.artifacts) /\ ValidArtifacts(state) /\ DOMAIN state'.attempts = DOMAIN state.attempts
    BY ZenonT(60), <1>t, <1>10 DEF Books, Moves
  <2> HIDE DEF a
  <2> QED BY ZenonT(60), <1>4, <1>5, <2>1, <2>2, <2>3, RegisteredArtifacts
<1>12. HeadRoom(state') /\ AttemptsCounted(state') /\ TrialsCounted(state')
  BY ZenonT(60), <1>t, <1>10, HeadRoomKept, AttemptsCountedKept, TrialsCountedKept DEF Books
<1>13. Books(state')
  BY ZenonT(60), <1>t, <1>9, <1>11, <1>12 DEF Books, ValidWorkers
<1>14. BooksInvariant'
  BY ZenonT(60), <1>t, <1>1, <1>2, <1>9, <1>13, WorkersSame, BooksStep
<1> QED BY ZenonT(60), <1>10, <1>14

-----------------------------------------------------------------------------
(***************************************************************************)
(* The process.                                                            *)
(***************************************************************************)

\* The server and the crash: the memory stays or becomes the image.
LEMMA ServerAndCrashBooks ==
  ASSUME AuthorityInvariant, AuthorityInvariant', BooksInvariant,
         StartServer \/ RequestShutdown \/ StopServer \/ Crash \/ CreateRefused \/ UNCHANGED vars
  PROVE  BooksInvariant' /\ (phase' # "down" => Moves(state, state'))
<1>t. StateType(state)
  BY ZenonT(60) DEF AuthorityInvariant, TypeOK
<1>1. CASE StartServer \/ RequestShutdown \/ StopServer
  <2>1. /\ phase = "up" /\ phase' = "up" /\ epoch' = epoch /\ live' = live /\ state' = state
        /\ (disk' = state' \/ disk' = disk)
    BY ZenonT(120), <1>1, Written DEF StartServer, RequestShutdown, StopServer
  <2>2. Tame(state, state')
    BY ZenonT(60), <1>t, <2>1, AsideTame
  <2> QED BY ZenonT(60), <2>1, <2>2, TameStep DEF Tame
<1>2. CASE Crash
  BY ZenonT(60), <1>2 DEF Crash, BooksInvariant
<1>3. CASE CreateRefused \/ UNCHANGED vars
  <2>1. phase' = phase /\ epoch' = epoch /\ live' = live /\ state' = state /\ disk' = disk
    BY ZenonT(120), <1>3 DEF CreateRefused, vars
  <2>2. Moves(state, state')
    BY ZenonT(60), <1>t, <2>1, NothingMoves
  <2> QED BY ZenonT(60), <2>1, <2>2 DEF BooksInvariant
<1> QED BY ZenonT(60), <1>1, <1>2, <1>3

\* The second pass of recovery
LEMMA ReconcileBooks ==
  ASSUME AuthorityInvariant, AuthorityInvariant', BooksInvariant, Reconcile
  PROVE  BooksInvariant' /\ (phase' # "down" => Moves(state, state'))
<1> DEFINE r == Resolved(state)
<1>t. /\ StateType(state) /\ StateType(state') /\ ValidWatermarks(state) /\ Books(state)
  BY ZenonT(60), BothTyped DEF BooksInvariant
<1>1. phase = "reconciling" /\ epoch' = epoch /\ live' = live
  BY DEF Reconcile
<1>2. Tame(state, r)
  BY ZenonT(60), <1>t, ResolvedTame
<1> HIDE DEF r
<1>3. \/ phase' = "up" /\ state' = r /\ disk' = state'
      \/ phase' = "down" /\ state' = disk /\ disk' = disk
  <2>1. PICK ok \in BOOLEAN :
          /\ phase' = IF ok THEN "up" ELSE "down"
          /\ IF ok THEN state' = r /\ persist_locked(TRUE) ELSE state' = disk /\ persist_locked(FALSE)
    BY ZenonT(120) DEF Reconcile, r
  <2> QED BY <2>1 DEF persist_locked
<1>4. CASE phase' = "up" /\ state' = r /\ disk' = state'
  <2>1. Books(state') /\ WorkersKept(state, state') /\ state'.last_epoch = state.last_epoch
    BY ZenonT(60), <1>t, <1>2, <1>4, TameBooks DEF Tame
  <2>2. phase # "down" /\ phase' # "down"
    BY ZenonT(60), <1>1, <1>4
  <2>3. BooksInvariant'
    BY ZenonT(60), <1>t, <1>1, <1>4, <2>1, <2>2, ServingBooks
  <2> QED BY ZenonT(60), <1>2, <1>4, <2>3 DEF Tame
<1>5. CASE phase' = "down" /\ state' = disk /\ disk' = disk
  BY ZenonT(60), <1>5 DEF BooksInvariant
<1> QED BY ZenonT(60), <1>3, <1>4, <1>5

-----------------------------------------------------------------------------
(***************************************************************************)
(* Registration and recovery keep the books, and so does every step.       *)
(***************************************************************************)

\* register_worker: an incarnation that is recorded is revoked, of an earlier epoch, or
\* live, so that a registration that is accepted records a new one.
LEMMA RegisterWorkerBooks ==
  ASSUME AuthorityInvariant, AuthorityInvariant', BooksInvariant, NEW i \in Incarnation,
         RegisterWorker(i)
  PROVE  BooksInvariant' /\ Moves(state, state')
<1> DEFINE lost == LoseProducers(state, Replaced(i))
           producer == state.next_worker_registration_sequence + 1
           new == [inc |-> i, epoch |-> epoch, producer |-> producer, revoked |-> FALSE]
           W == lost.workers \cup {new}
           accepted == [lost EXCEPT !.next_worker_registration_sequence = producer, !.workers = W]
<1>t. /\ StateType(state) /\ StateType(state') /\ ValidWatermarks(state) /\ Books(state)
      /\ StateInv(state) /\ state.last_epoch = epoch /\ epoch \in Nat
  <2>1. phase = "up"
    BY DEF RegisterWorker
  <2>2. StateType(state) /\ StateType(state') /\ ValidWatermarks(state)
    BY ZenonT(60), BothTyped
  <2> QED BY ZenonT(60), <2>1, <2>2 DEF BooksInvariant, AuthorityInvariant, TypeOK
<1>1. Tame(state, lost) /\ StateType(lost)
  <2>1. StateType(lost)
    BY ZenonT(60), <1>t, LostTyped
  <2> QED BY ZenonT(60), <1>t, <2>1, LoseProducersTame
<1>2. /\ phase = "up" /\ phase' = "up" /\ epoch' = epoch /\ i \notin DOMAIN live
  BY DEF RegisterWorker
<1>3. \/ state' = lost /\ disk' = disk /\ live' = RevokeLive(Replaced(i))
      \/ /\ ~RegistrationRefused(lost, i)
         /\ state' = accepted
         /\ live' = [j \in DOMAIN live \cup {i} |->
                       IF j = i THEN [producer |-> producer, revoked |-> FALSE]
                                ELSE RevokeLive(Replaced(i))[j]]
         /\ \E ok \in BOOLEAN : persist_locked(ok)
  BY ZenonT(120) DEF RegisterWorker
<1> HIDE DEF lost, producer
<1>4. CASE state' = lost /\ disk' = disk /\ live' = RevokeLive(Replaced(i))
  <2>1. DOMAIN live' = DOMAIN live
    BY ZenonT(60), <1>4 DEF RevokeLive
  <2> QED BY ZenonT(60), <1>1, <1>2, <1>4, <2>1, TameStep DEF Tame
<1>5. CASE /\ ~RegistrationRefused(lost, i)
           /\ state' = accepted
           /\ live' = [j \in DOMAIN live \cup {i} |->
                         IF j = i THEN [producer |-> producer, revoked |-> FALSE]
                                  ELSE RevokeLive(Replaced(i))[j]]
           /\ \E ok \in BOOLEAN : persist_locked(ok)
  <2>1. DOMAIN live' = DOMAIN live \cup {i} /\ (disk' = state' \/ disk' = disk)
    BY ZenonT(60), <1>5, Written
  <2> HIDE DEF W
  <2>2. /\ state'.attempts = lost.attempts /\ state'.trials = lost.trials
        /\ state'.branches = lost.branches /\ state'.artifacts = lost.artifacts
        /\ state'.workers = W /\ state'.last_epoch = lost.last_epoch
    BY ZenonT(60), <1>1, <1>5 DEF StateType, StateFields
  <2>3. Books(lost)
    BY ZenonT(60), <1>t, <1>1, TameBooks
  <2>4. /\ HeadRoom(state') /\ AttemptsCounted(state') /\ TrialsCounted(state')
        /\ IsFiniteSet(state'.artifacts) /\ ValidArtifacts(state')
    BY ZenonT(60), <2>2, <2>3, SameBooks DEF Books, ValidArtifacts
  <2>5. /\ \A w \in lost.workers : w.epoch <= lost.last_epoch
        /\ \A w \in lost.workers : \E v \in state.workers :
             v.inc = w.inc /\ v.epoch = w.epoch /\ (v.revoked => w.revoked)
    <3>1. lost.last_epoch = epoch /\ state.last_epoch <= lost.last_epoch
      BY <1>t, <1>1 DEF Tame
    <3> QED BY ZenonT(60), <1>t, <1>1, <3>1, WorkersStayValid DEF Books, Tame
  <2>6. \A w \in lost.workers : w.inc # i
    <3> SUFFICES ASSUME NEW w \in lost.workers, w.inc = i PROVE FALSE
      OBVIOUS
    <3>1. ~w.revoked /\ w.epoch = epoch
      BY ZenonT(60), <1>5 DEF RegistrationRefused
    <3>2. PICK v \in state.workers : v.inc = w.inc /\ v.epoch = w.epoch /\ (v.revoked => w.revoked)
      BY ZenonT(60), <2>5
    <3>3. v.inc \in DOMAIN live
      BY ZenonT(60), <1>2, <3>1, <3>2 DEF BooksInvariant
    <3> QED BY ZenonT(60), <1>2, <3>2, <3>3
  <2>7. new.inc = i /\ new.epoch = epoch
    OBVIOUS
  <2> HIDE DEF new
  <2>8. ValidWorkers(state')
    BY ZenonT(60), <2>2, <2>3, <2>6, <2>7 DEF Books, ValidWorkers, W
  <2>9. lost.last_epoch = epoch
    BY ZenonT(60), <1>t, <1>1 DEF Tame
  <2>10. \A w \in state'.workers : w.epoch <= state'.last_epoch
    <3>1. epoch <= epoch
      BY <1>t
    <3> QED BY ZenonT(60), <2>2, <2>5, <2>7, <2>9, <3>1 DEF W
  <2>11. Books(state') /\ Books(disk')
    BY ZenonT(60), <2>1, <2>4, <2>8, <2>10 DEF Books, BooksInvariant
  <2>12. \A w \in state'.workers : w.epoch = epoch' /\ ~w.revoked => w.inc \in DOMAIN live'
    <3> SUFFICES ASSUME NEW w \in state'.workers, w.epoch = epoch', ~w.revoked
                 PROVE  w.inc \in DOMAIN live'
      OBVIOUS
    <3>1. CASE w = new
      BY ZenonT(60), <2>1, <2>7, <3>1
    <3>2. CASE w \in lost.workers
      <4>1. PICK v \in state.workers : v.inc = w.inc /\ v.epoch = w.epoch /\ (v.revoked => w.revoked)
        BY ZenonT(60), <2>5, <3>2
      <4>2. v.inc \in DOMAIN live
        BY ZenonT(60), <1>2, <4>1 DEF BooksInvariant
      <4> QED BY ZenonT(60), <2>1, <4>1, <4>2
    <3> QED BY ZenonT(60), <2>2, <3>1, <3>2 DEF W
  <2>13. BooksInvariant'
    BY ZenonT(60), <1>2, <2>2, <2>9, <2>11, <2>12 DEF BooksInvariant
  <2>14. Moves(state, state')
    BY ZenonT(60), <1>1, <2>2 DEF Tame, Moves
  <2> QED BY ZenonT(60), <2>13, <2>14
<1> QED BY ZenonT(60), <1>3, <1>4, <1>5

\* An epoch that is minted is new.
LEMMA NextEpochGrows ==
  ASSUME NEW l \in Nat
  PROVE  l < NextEpoch(l) /\ NextEpoch(l) \in Nat
BY BoundsAssumption DEF NextEpoch

\* Coordinator::create
LEMMA CreateBooks ==
  ASSUME AuthorityInvariant, AuthorityInvariant', BooksInvariant, Create
  PROVE  BooksInvariant' /\ (phase' # "down" => Moves(state, state'))
<1> DEFINE e == NextEpoch(disk.last_epoch)
           loaded == [disk EXCEPT !.last_epoch = e]
           r == Demoted(loaded)
<1>t. /\ StateType(disk) /\ ValidWatermarks(disk) /\ Books(disk) /\ StateType(state')
      /\ StateInv(disk) /\ disk.last_epoch \in Nat
  BY ZenonT(60), BothTyped DEF BooksInvariant, StateType, AuthorityInvariant
<1>1. e \in Nat /\ disk.last_epoch < e
  BY ZenonT(60), <1>t, NextEpochGrows
<1>2. phase = "down" /\ live' = live /\ state = disk
  BY DEF Create, BooksInvariant
<1>3. \/ phase' = "up" /\ epoch' = loaded.last_epoch /\ state' = r /\ disk' = disk
      \/ phase' = "reconciling" /\ epoch' = loaded.last_epoch /\ state' = r /\ disk' = state'
      \/ phase' = "down" /\ state' = state /\ disk' = disk
  <2> HIDE DEF e
  <2>1. CASE ~RecoveryTouches(loaded)
    BY ZenonT(120), <2>1 DEF Create, e
  <2>2. CASE RecoveryTouches(loaded)
    <3>1. PICK ok \in BOOLEAN :
            /\ epoch' = loaded.last_epoch /\ phase' = IF ok THEN "reconciling" ELSE "down"
            /\ IF ok THEN state' = r /\ persist_locked(TRUE) ELSE state' = state /\ persist_locked(FALSE)
      BY ZenonT(120), <2>2 DEF Create, e
    <3> HIDE DEF r, loaded
    <3> QED BY ZenonT(60), <3>1 DEF persist_locked
  <2> QED BY ZenonT(60), <2>1, <2>2
<1> HIDE DEF e
<1>4. /\ loaded.attempts = disk.attempts /\ loaded.trials = disk.trials
      /\ loaded.branches = disk.branches /\ loaded.artifacts = disk.artifacts
      /\ loaded.workers = disk.workers /\ loaded.last_epoch = e
      /\ loaded.wm_branch = disk.wm_branch /\ loaded.wm_trial = disk.wm_trial
      /\ loaded.wm_attempt = disk.wm_attempt
  BY ZenonT(60), <1>t DEF StateType, StateFields
<1>5. StateType(loaded)
  <2>1. /\ DOMAIN loaded = StateFields
        /\ \A f \in StateFields \ {"last_epoch"} : loaded[f] = disk[f]
    BY ZenonT(120), <1>t DEF StateType, StateFields
  <2> HIDE DEF loaded
  <2> QED BY ZenonT(60), <1>t, <1>1, <1>4, <2>1 DEF StateType, StateFields
<1>6. StateType(r)
  BY ZenonT(60), <1>5, DemotedTyped
<1> HIDE DEF loaded
<1>7. ValidWatermarks(loaded)
  BY ZenonT(60), <1>t, <1>4 DEF ValidWatermarks
<1>8. Books(loaded) /\ \A w \in loaded.workers : w.epoch < e
  <2>1. \A w \in loaded.workers : w.epoch \in Nat /\ w.epoch <= disk.last_epoch
    <3>1. /\ loaded.workers \subseteq WorkerIncarnation
          /\ \A w \in loaded.workers : w.epoch <= disk.last_epoch
      BY ZenonT(60), <1>t, <1>4 DEF Books, StateType
    <3> QED BY ZenonT(60), <3>1 DEF WorkerIncarnation
  <2>2. \A w \in loaded.workers : w.epoch < e /\ w.epoch <= e
    BY <1>t, <1>1, <2>1
  <2>3. /\ HeadRoom(loaded) /\ AttemptsCounted(loaded) /\ TrialsCounted(loaded)
        /\ IsFiniteSet(loaded.artifacts) /\ ValidArtifacts(loaded) /\ ValidWorkers(loaded)
    <3>1. HeadRoom(loaded)
      BY ZenonT(60), <1>t, <1>4, SameBooks DEF Books
    <3>2. AttemptsCounted(loaded) /\ TrialsCounted(loaded)
      BY ZenonT(60), <1>t, <1>4, SameBooks DEF Books
    <3>3. IsFiniteSet(loaded.artifacts) /\ ValidArtifacts(loaded) /\ ValidWorkers(loaded)
      BY ZenonT(60), <1>t, <1>4 DEF Books, ValidArtifacts, ValidWorkers
    <3> QED BY <3>1, <3>2, <3>3
  <2> QED BY ZenonT(60), <1>4, <2>2, <2>3 DEF Books
<1>9. Tame(loaded, r)
  BY ZenonT(60), <1>5, DemotedTame
<1> HIDE DEF r
<1>10. Books(r) /\ r.last_epoch = e
  BY ZenonT(60), <1>4, <1>5, <1>6, <1>7, <1>8, <1>9, TameBooks DEF Tame
<1>11. \A w \in r.workers : w.epoch # e
  <2>1. loaded.last_epoch <= r.last_epoch
    BY <1>1, <1>4, <1>10
  <2>2. \A w \in r.workers : \E v \in loaded.workers : v.epoch = w.epoch
    BY ZenonT(60), <1>5, <1>6, <1>8, <1>9, <2>1, WorkersStayValid DEF Books, Tame
  <2>3. \A w \in loaded.workers : w.epoch \in Nat
    BY ZenonT(60), <1>5 DEF StateType, WorkerIncarnation
  <2> QED BY <1>1, <1>8, <2>2, <2>3
<1>12. Moves(state, r)
  BY ZenonT(60), <1>2, <1>4, <1>9 DEF Tame, Moves
<1> QED BY ZenonT(60), <1>t, <1>2, <1>3, <1>4, <1>10, <1>11, <1>12 DEF BooksInvariant

\* What a worker asks for keeps the books and follows the table.
LEMMA WorkerStepBooks ==
  ASSUME AuthorityInvariant, AuthorityInvariant', BooksInvariant, WorkerStep
  PROVE  BooksInvariant' /\ FollowTable(state, state')
<1>1. ASSUME NEW i \in Incarnation, RegisterWorker(i)
      PROVE  BooksInvariant' /\ FollowTable(state, state')
  BY ZenonT(60), <1>1, RegisterWorkerBooks, MovesFollow
<1>2. ASSUME NEW i \in Incarnation, NEW max_claims \in 1 .. MaxConcurrent, ClaimTrials(i, max_claims)
      PROVE  BooksInvariant' /\ FollowTable(state, state')
  <2>1. max_claims \in Nat
    BY DefinitionAssumption
  <2> QED BY ZenonT(60), <1>2, <2>1, ClaimTrialsBooks, MovesFollow
<1>3. ASSUME NEW e \in issued, NEW m \in Metrics, RejectObservation(e, m)
      PROVE  BooksInvariant' /\ FollowTable(state, state')
  <2>1. phase = "up" /\ UNCHANGED Volatile /\ \E ok \in BOOLEAN : persist_locked(ok)
    BY ZenonT(60), <1>3 DEF RejectObservation
  <2> QED BY ZenonT(60), <1>3, <2>1, RejectObservationTame, TameFollows
<1>4. ASSUME NEW e \in issued, NEW m \in Metrics, NEW v \in Validities, PublishObservation(e, m, v)
      PROVE  BooksInvariant' /\ FollowTable(state, state')
  <2>1. phase = "up" /\ UNCHANGED Volatile /\ \E ok \in BOOLEAN : persist_locked(ok)
    BY ZenonT(120), <1>4 DEF PublishObservation
  <2> QED BY ZenonT(60), <1>4, <2>1, PublishObservationTame, TameFollows
<1>5. ASSUME NEW e \in issued, RejectArtifact(e)
      PROVE  BooksInvariant' /\ FollowTable(state, state')
  <2>1. phase = "up" /\ UNCHANGED Volatile /\ \E ok \in BOOLEAN : persist_locked(ok)
    BY ZenonT(60), <1>5 DEF RejectArtifact
  <2> QED BY ZenonT(60), <1>5, <2>1, RejectArtifactTame, TameFollows
<1>6. ASSUME NEW e \in issued, NEW k \in 1 .. MaxArtifactsPerAttempt, PublishArtifact(e, k)
      PROVE  BooksInvariant' /\ FollowTable(state, state')
  <2>1. k \in Nat
    BY LimitsAssumption
  <2> QED BY ZenonT(60), <1>6, <2>1, PublishArtifactBooks, MovesFollow
<1>7. ASSUME NEW e \in issued, NEW arts \in ArtifactRequests, CommitTrial(e, arts)
      PROVE  BooksInvariant' /\ FollowTable(state, state')
  BY ZenonT(60), <1>7, CommitTrialBooks, MovesFollow
<1>8. ASSUME NEW e \in issued, NEW arts \in ArtifactRequests, CommitRefused(e, arts)
      PROVE  BooksInvariant' /\ FollowTable(state, state')
  BY ZenonT(60), <1>8, CommitRefusedBooks, MovesFollow
<1>9. ASSUME NEW e \in issued, NEW retryable \in BOOLEAN, FailTrial(e, retryable)
      PROVE  BooksInvariant' /\ FollowTable(state, state')
  <2>1. phase = "up" /\ UNCHANGED Volatile /\ \E ok \in BOOLEAN : persist_locked(ok)
    BY ZenonT(120), <1>9 DEF FailTrial
  <2> QED BY ZenonT(60), <1>9, <2>1, FailTrialTame, TameFollows
<1> QED BY ZenonT(60), <1>1, <1>2, <1>3, <1>4, <1>5, <1>6, <1>7, <1>8, <1>9 DEF WorkerStep

\* So does what an operator asks for.
LEMMA OperatorStepBooks ==
  ASSUME AuthorityInvariant, AuthorityInvariant', BooksInvariant, OperatorStep
  PROVE  BooksInvariant' /\ FollowTable(state, state')
<1>1. ASSUME NEW i \in Incarnation, RevokeWorker(i)
      PROVE  BooksInvariant' /\ FollowTable(state, state')
  <2>1. /\ phase = "up" /\ phase' = "up" /\ epoch' = epoch /\ live' = RevokeLive({i})
        /\ state' = LoseProducers(state, {i}) /\ (disk' = state' \/ disk' = disk)
    BY ZenonT(120), <1>1, Written DEF RevokeWorker
  <2>2. DOMAIN live' = DOMAIN live
    BY ZenonT(60), <2>1 DEF RevokeLive
  <2>3. Tame(state, state')
    BY ZenonT(60), <2>1, LosingTame
  <2> QED BY ZenonT(60), <2>1, <2>2, <2>3, TameStep, MovesFollow DEF Tame
<1>2. ASSUME NEW b, CreateTrial(b) PROVE BooksInvariant' /\ FollowTable(state, state')
  BY ZenonT(60), <1>2, CreateTrialBooks, MovesFollow
<1>3. ASSUME NEW b, ForkBranch(b) PROVE BooksInvariant' /\ FollowTable(state, state')
  BY ZenonT(60), <1>3, ForkBranchBooks, MovesFollow
<1>4. ASSUME NEW b, RetireBranch(b) PROVE BooksInvariant' /\ FollowTable(state, state')
  <2>1. phase = "up" /\ UNCHANGED Volatile /\ \E ok \in BOOLEAN : persist_locked(ok)
    BY ZenonT(60), <1>4 DEF RetireBranch
  <2> QED BY ZenonT(60), <1>4, <2>1, RetireBranchTame, TameFollows
<1>5. CASE ReviseHypothesis
  <2>1. phase = "up" /\ UNCHANGED Volatile /\ \E ok \in BOOLEAN : persist_locked(ok)
    BY ZenonT(60), <1>5 DEF ReviseHypothesis
  <2> QED BY ZenonT(60), <1>5, <2>1, ReviseHypothesisTame, TameFollows
<1>6. ASSUME NEW t, CancelTrial(t) PROVE BooksInvariant' /\ FollowTable(state, state')
  <2>1. phase = "up" /\ UNCHANGED Volatile /\ \E ok \in BOOLEAN : persist_locked(ok)
    BY ZenonT(60), <1>6 DEF CancelTrial
  <2> QED BY <1>6, <2>1, CancelTrialTame, TameFollows
<1>7. CASE CancelExperiment
  <2>1. phase = "up" /\ UNCHANGED Volatile /\ \E ok \in BOOLEAN : persist_locked(ok)
    BY ZenonT(60), <1>7 DEF CancelExperiment
  <2> QED BY <1>7, <2>1, CancelExperimentTame, TameFollows
<1>8. ASSUME NEW c, NEW outcome, FinalizeExperiment(c, outcome)
      PROVE  BooksInvariant' /\ FollowTable(state, state')
  <2>1. phase = "up" /\ UNCHANGED Volatile /\ \E ok \in BOOLEAN : persist_locked(ok)
    BY ZenonT(60), <1>8 DEF FinalizeExperiment
  <2> QED BY ZenonT(60), <1>8, <2>1, FinalizeTame, TameFollows
<1>9. ASSUME NEW g, Rollback(g) PROVE BooksInvariant' /\ FollowTable(state, state')
  <2>1. /\ phase = "up" /\ phase' = "up" /\ epoch' = epoch /\ live' = live
        /\ (disk' = state' \/ disk' = disk)
    BY ZenonT(120), <1>9, Written DEF Rollback, Volatile
  <2>2. Tame(state, state')
    BY ZenonT(60), <1>9, RollbackTame
  <2> QED BY ZenonT(60), <2>1, <2>2, TameStep, MovesFollow DEF Tame
<1> QED BY ZenonT(60), <1>1, <1>2, <1>3, <1>4, <1>5, <1>6, <1>7, <1>8, <1>9 DEF OperatorStep

\* Every step keeps the books, and follows the table unless the process goes down.
LEMMA NextBooks ==
  AuthorityInvariant /\ AuthorityInvariant' /\ BooksInvariant /\ [Next]_vars
    => BooksInvariant' /\ (phase' # "down" => FollowTable(state, state'))
<1> SUFFICES ASSUME AuthorityInvariant, AuthorityInvariant', BooksInvariant, [Next]_vars
             PROVE  BooksInvariant' /\ (phase' # "down" => FollowTable(state, state'))
  OBVIOUS
<1>1. CASE WorkerStep
  BY ZenonT(60), <1>1, WorkerStepBooks
<1>2. CASE OperatorStep
  BY ZenonT(60), <1>2, OperatorStepBooks
<1>3. CASE ProcessStep \/ UNCHANGED vars
  <2>1. CASE Create
    BY ZenonT(60), <2>1, CreateBooks, MovesFollow
  <2>2. CASE Reconcile
    BY ZenonT(60), <2>2, ReconcileBooks, MovesFollow
  <2>3. CASE StartServer \/ RequestShutdown \/ StopServer \/ Crash \/ CreateRefused \/ UNCHANGED vars
    BY ZenonT(60), <2>3, ServerAndCrashBooks, MovesFollow
  <2> QED BY ZenonT(60), <1>3, <2>1, <2>2, <2>3 DEF ProcessStep
<1> QED BY ZenonT(60), <1>1, <1>2, <1>3 DEF Next

\* The books of a new experiment are empty.
LEMMA InitBooks == Init => BooksInvariant
<1> SUFFICES ASSUME Init PROVE BooksInvariant
  OBVIOUS
<1>1. /\ phase = "up" /\ disk = state /\ state = InitialState(epoch) /\ epoch = NextEpoch(0)
  BY ZenonT(60) DEF Init
<1>2. /\ state.branches = [b \in 1 .. InitialBranches |-> [state |-> "ACTIVE", generation |-> 1]]
      /\ state.trials = EmptyMap /\ state.attempts = EmptyMap /\ state.artifacts = {}
      /\ state.workers = {} /\ state.last_epoch = epoch
  BY ZenonT(60), <1>1 DEF InitialState
<1>3. DOMAIN EmptyMap = {}
  BY ZenonT(60) DEF EmptyMap
<1>4. /\ InitialBranches \in Nat /\ MaxConcurrent \in Nat /\ MaxTrialsPerBranch \in Nat
      /\ MaxArtifacts \in Nat
  BY ZenonT(60), DefinitionAssumption, LimitsAssumption
<1>5. HeadRoom(state)
  <2>1. \A i : ActiveOf(state, i) = {}
    BY ZenonT(60), <1>2, <1>3 DEF ActiveOf, LiveAttempts
  <2> QED BY <1>4, <2>1, FS_EmptySet DEF HeadRoom
<1>6. AttemptsCounted(state)
  BY ZenonT(60), <1>2, <1>3 DEF AttemptsCounted
<1>7. TrialsCounted(state)
  <2>1. DOMAIN state.branches = 1 .. InitialBranches /\ DOMAIN state.trials = {}
    BY ZenonT(60), <1>2, <1>3
  <2>2. Cardinality(DOMAIN state.branches) \in Nat
    <3>1. IsFiniteSet(1 .. InitialBranches)
      BY <1>4, FS_Interval
    <3> QED BY ZenonT(60), <2>1, <3>1, FS_CardinalityType
  <2>3. Cardinality(DOMAIN state.branches) * MaxTrialsPerBranch \in Nat
    BY <1>4, <2>2
  <2> QED BY <2>1, <2>3, FS_EmptySet DEF TrialsCounted
<1>8. IsFiniteSet(state.artifacts) /\ ValidArtifacts(state)
  BY <1>2, <1>4, FS_EmptySet DEF ValidArtifacts
<1>9. Books(state)
  BY ZenonT(60), <1>2, <1>5, <1>6, <1>7, <1>8 DEF Books, ValidWorkers
<1> QED BY ZenonT(60), <1>1, <1>2, <1>9 DEF BooksInvariant
=============================================================================
