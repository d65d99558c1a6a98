---------------------------- MODULE HandlerProofs ---------------------------
(***************************************************************************)
(* One lemma per action of module Coordinator: it preserves the authority  *)
(* invariant, and the image on disk keeps what it has settled.  First the  *)
(* steps of workers, then those by which a worker delivers (publications,  *)
(* commits, failures), then those of operators and of the process.         *)
(***************************************************************************)
EXTENDS Coordinator, StateInvariantsProofs

-----------------------------------------------------------------------------
(***************************************************************************)
(* What every handler begins and ends with: the check of an envelope and   *)
(* the write of the image.                                                 *)
(***************************************************************************)

\* persist_locked writes the memory or leaves the image.
LEMMA Persisted ==
  ASSUME AuthorityInvariant, NEW ok, persist_locked(ok)
  PROVE  (disk' = state' \/ disk' = disk) /\ faults' \in Nat
<1>1. faults \in Nat
  BY DEF AuthorityInvariant, TypeOK
<1> QED BY <1>1 DEF persist_locked

\* check_envelope leaves no doubt whose authority it is: the trial is open, the
\* attempt is live, and each is the other's.
LEMMA EnvelopeHasAuthority ==
  ASSUME AuthorityInvariant, NEW e, check_envelope(e)
  PROVE  /\ e.trial \in OpenTrials(state) /\ e.attempt \in LiveAttempts(state)
         /\ state.trials[e.trial].authoritative_attempt = e.attempt
         /\ state.attempts[e.attempt].trial = e.trial
         /\ state.trials[e.trial].branch \in DOMAIN state.branches
<1>1. /\ e.trial \in OpenTrials(state) /\ e.attempt \in LiveAttempts(state)
      /\ state.trials[e.trial].authoritative_attempt = e.attempt
      /\ state.trials[e.trial].branch \in DOMAIN state.branches
  BY ZenonT(60) DEF check_envelope, OpenTrials, LiveAttempts
<1>2. e.attempt # NoId
  BY SMTT(60), <1>1 DEF AuthorityInvariant, TypeOK, StateType, IsMap, LiveAttempts, NoId
<1>3. state.attempts[e.attempt].trial = e.trial
  BY ZenonT(60), <1>1, <1>2 DEF AuthorityInvariant, StateInv, AuthorityIsOwn, OpenTrials
<1> QED BY ZenonT(60), <1>1, <1>3

\* The trial and the attempt of a publication are those of the envelope.
LEMMA SameTarget ==
  ASSUME AuthorityInvariant, NEW e \in issued
  PROVE  /\ ObservationEnvelope(e).trial = e.trial /\ ObservationEnvelope(e).attempt = e.attempt
         /\ e.trial \in Nat /\ e.attempt \in Nat
BY DEF AuthorityInvariant, TypeOK, Envelope, ObservationEnvelope

-----------------------------------------------------------------------------
(***************************************************************************)
(* From states to steps: the memory takes a handler's step, the image      *)
(* follows it or stays as it was.                                          *)
(***************************************************************************)

\* What is kept at every step is kept throughout.
LEMMA KeepsTransitive ==
  ASSUME NEW s, NEW r, NEW q, Keeps(s, r), Keeps(r, q)
  PROVE  Keeps(s, q)
<1>1. \A t \in DOMAIN s.trials : is_terminal(s.trials[t].state) =>
        t \in DOMAIN q.trials /\ q.trials[t] = s.trials[t]
  BY DEF Keeps
<1>2. \A a \in DOMAIN s.attempts : s.attempts[a].committed =>
        a \in DOMAIN q.attempts /\ q.attempts[a] = s.attempts[a]
  BY DEF Keeps
<1> QED BY ZenonT(60), <1>1, <1>2 DEF Keeps

\* A handler that leaves the state alone keeps everything settled in it.
LEMMA KeepsReflexive ==
  ASSUME NEW s
  PROVE  Keeps(s, s)
BY DEF Keeps

\* A serving step preserves the invariant when the new memory is consistent and
\* keeps what was settled, the owners are right, and what is newly acknowledged is
\* on disk.
LEMMA ServingStep ==
  ASSUME AuthorityInvariant, phase' = "up",
         StateInv(state'), Keeps(disk, state'), disk' = state' \/ disk' = disk,
         epoch' \in Nat \ {0},
         DOMAIN live' \subseteq Incarnation, live' \in [DOMAIN live' -> LiveWorker],
         admitting' \in BOOLEAN, server' \in BOOLEAN,
         issued' \subseteq Envelope, acked' \subseteq Nat \X Nat,
         crashes' \in Nat, faults' \in Nat,
         LiveAttemptHasLiveOwner',
         \A x \in acked' : x \in acked \/ /\ x[1] \in DOMAIN disk'.trials
                                          /\ x[2] \in DOMAIN disk'.attempts
                                          /\ disk'.trials[x[1]].state = "COMPLETED"
                                          /\ disk'.trials[x[1]].authoritative_attempt = x[2]
                                          /\ disk'.attempts[x[2]].committed
  PROVE  AuthorityInvariant' /\ Keeps(disk, disk')
<1>1. StateInv(disk') /\ StateType(disk') /\ StateType(state')
  BY DEF AuthorityInvariant, StateInv
<1>2. TypeOK'
  BY <1>1 DEF TypeOK
<1>3. Keeps(disk, disk') /\ Keeps(disk', state')
  BY ZenonT(60), KeepsReflexive
<1>4. AckedCommitIsDurable'
  <2> SUFFICES ASSUME NEW x \in acked'
               PROVE  /\ x[1] \in DOMAIN disk'.trials /\ x[2] \in DOMAIN disk'.attempts
                      /\ disk'.trials[x[1]].state = "COMPLETED"
                      /\ disk'.trials[x[1]].authoritative_attempt = x[2]
                      /\ disk'.attempts[x[2]].committed
    BY ZenonT(60) DEF AckedCommitIsDurable
  <2>1. CASE x \in acked
    <3>1. /\ x[1] \in DOMAIN disk.trials /\ x[2] \in DOMAIN disk.attempts
          /\ disk.trials[x[1]].state = "COMPLETED"
          /\ disk.trials[x[1]].authoritative_attempt = x[2]
          /\ disk.attempts[x[2]].committed
      BY ZenonT(60), <2>1 DEF AuthorityInvariant, AckedCommitIsDurable
    <3>2. x[1] \in DOMAIN disk'.trials /\ disk'.trials[x[1]] = disk.trials[x[1]]
      BY ZenonT(60), <1>3, <3>1 DEF Keeps, is_terminal
    <3>3. x[2] \in DOMAIN disk'.attempts /\ disk'.attempts[x[2]] = disk.attempts[x[2]]
      BY ZenonT(60), <1>3, <3>1 DEF Keeps
    <3> QED BY ZenonT(60), <3>1, <3>2, <3>3
  <2> QED BY <2>1
<1> QED BY ZenonT(60), <1>1, <1>2, <1>3, <1>4 DEF AuthorityInvariant

\* The owners of live attempts after a handler that issues none and touches none
\* of the volatile state.
LEMMA OwnersKept ==
  ASSUME LiveAttemptHasLiveOwner, phase = "up", SameOwners(state, state'),
         epoch' = epoch, live' = live
  PROVE  LiveAttemptHasLiveOwner'
BY ZenonT(60) DEF LiveAttemptHasLiveOwner, SameOwners

\* A handler that only works on the durable state.
LEMMA HandlerStep ==
  ASSUME AuthorityInvariant, phase = "up", UNCHANGED Volatile,
         StateInv(state'), Keeps(state, state'), SameOwners(state, state'),
         disk' = state' \/ disk' = disk, faults' \in Nat
  PROVE  AuthorityInvariant' /\ Keeps(disk, disk')
<1>1. LiveAttemptHasLiveOwner'
  BY OwnersKept DEF AuthorityInvariant, Volatile
<1>2. Keeps(disk, state')
  BY KeepsTransitive DEF AuthorityInvariant
<1>3. /\ phase' = "up" /\ epoch' = epoch /\ live' = live /\ admitting' = admitting
      /\ server' = server /\ issued' = issued /\ acked' = acked /\ crashes' = crashes
  BY DEF Volatile
<1> QED BY ZenonT(60), <1>1, <1>2, <1>3, ServingStep DEF AuthorityInvariant, TypeOK

-----------------------------------------------------------------------------
(***************************************************************************)
(* One lemma per action.                                                   *)
(***************************************************************************)

\* register_worker, refused or accepted.
LEMMA RegisterWorkerStep ==
  ASSUME AuthorityInvariant, NEW i \in Incarnation, RegisterWorker(i)
  PROVE  AuthorityInvariant' /\ Keeps(disk, disk')
<1> DEFINE R == Replaced(i)
           lost == LoseProducers(state, R)
           producer == state.next_worker_registration_sequence + 1
           W == lost.workers \cup {[inc |-> i, epoch |-> epoch, producer |-> producer, revoked |-> FALSE]}
           accepted == [lost EXCEPT !.next_worker_registration_sequence = producer, !.workers = W]
<1>t. TypeOK /\ StateInv(state) /\ StateType(state)
  BY DEF AuthorityInvariant, TypeOK
<1>1. /\ StateInv(lost) /\ Keeps(state, lost) /\ SameOwners(state, lost)
      /\ \A a \in LiveAttempts(lost) : lost.attempts[a].inc \notin R
  BY <1>t, LoseProducersInv
<1>2. /\ StateInv(accepted) /\ Keeps(lost, accepted) /\ accepted.attempts = lost.attempts
  <2>1. producer \in Nat
    BY <1>t DEF StateType
  <2>2. W \subseteq WorkerIncarnation
    <3>1. epoch \in Nat /\ lost.workers \subseteq WorkerIncarnation
      BY ZenonT(120), <1>1, <1>t DEF TypeOK, StateInv, StateType
    <3> HIDE DEF producer, lost
    <3>2. ASSUME NEW c \in BOOLEAN
          PROVE  [inc |-> i, epoch |-> epoch, producer |-> producer, revoked |-> c] \in WorkerIncarnation
      BY <2>1, <3>1 DEF WorkerIncarnation
    <3>3. FALSE \in BOOLEAN
      OBVIOUS
    <3>4. [inc |-> i, epoch |-> epoch, producer |-> producer, revoked |-> FALSE] \in WorkerIncarnation
      BY ZenonT(120), <3>2, <3>3
    <3> QED BY ZenonT(120), <3>1, <3>4
  <2> HIDE DEF lost, producer, W
  <2>3. StateType(lost)
    BY <1>1 DEF StateInv
  <2>4. /\ DOMAIN accepted = StateFields /\ accepted.workers = W
        /\ accepted.next_worker_registration_sequence = producer
        /\ \A f \in StateFields \ {"next_worker_registration_sequence", "workers"} :
             accepted[f] = lost[f]
    BY ZenonT(120), <2>3 DEF StateType, StateFields
  <2> HIDE DEF accepted
  <2>5. StateType(accepted)
    BY ZenonT(60), <2>1, <2>2, <2>3, <2>4 DEF StateType, StateFields
  <2>6. /\ accepted.branches = lost.branches /\ accepted.trials = lost.trials
        /\ accepted.attempts = lost.attempts /\ accepted.generation = lost.generation
        /\ accepted.hypothesis_revision = lost.hypothesis_revision
        /\ accepted.observations = lost.observations
        /\ accepted.wm_branch = lost.wm_branch /\ accepted.wm_trial = lost.wm_trial
        /\ accepted.wm_attempt = lost.wm_attempt
    BY <2>4 DEF StateFields
  <2>7. lost.wm_branch \in Nat /\ lost.wm_trial \in Nat /\ lost.wm_attempt \in Nat
    BY <2>3 DEF StateType
  <2>8. /\ lost.wm_branch <= accepted.wm_branch /\ lost.wm_trial <= accepted.wm_trial
        /\ lost.wm_attempt <= accepted.wm_attempt
    BY <2>6, <2>7
  <2> QED BY ZenonT(60), <1>1, <2>5, <2>6, <2>8, AsideInv
<1>3. /\ DOMAIN live \subseteq Incarnation /\ live \in [DOMAIN live -> LiveWorker]
      /\ i \notin DOMAIN live /\ phase = "up"
  BY <1>t DEF TypeOK, RegisterWorker
<1>4. /\ DOMAIN live \subseteq DOMAIN live' /\ DOMAIN live' \subseteq Incarnation
      /\ live' \in [DOMAIN live' -> LiveWorker]
      /\ \A j \in DOMAIN live : j \notin R => live'[j] = live[j]
  <2>1. /\ RevokeLive(R) \in [DOMAIN live -> LiveWorker]
        /\ \A j \in DOMAIN live : j \notin R => RevokeLive(R)[j] = live[j]
    <3> HIDE DEF R
    <3> QED BY ZenonT(120), <1>3 DEF RevokeLive, LiveWorker
  <2>2. CASE live' = RevokeLive(R)
    <3> HIDE DEF R
    <3> QED BY ZenonT(60), <1>3, <2>1, <2>2
  <2>3. CASE live' = [j \in DOMAIN live \cup {i} |->
                        IF j = i THEN [producer |-> producer, revoked |-> FALSE] ELSE RevokeLive(R)[j]]
    <3>1. producer \in Nat
      BY <1>t DEF StateType
    <3> HIDE DEF R, producer
    <3>2. [producer |-> producer, revoked |-> FALSE] \in LiveWorker
      BY <3>1 DEF LiveWorker
    <3> QED BY ZenonT(60), <1>3, <2>1, <2>3, <3>2
  <2> QED BY <2>2, <2>3 DEF RegisterWorker
<1>5. /\ state' = lost \/ state' = accepted
      /\ disk' = state' \/ disk' = disk
      /\ faults' \in Nat
  <2>1. CASE RegistrationRefused(lost, i)
    BY <2>1, <1>t DEF RegisterWorker, TypeOK
  <2>2. CASE ~RegistrationRefused(lost, i)
    <3>1. state' = accepted /\ \E ok \in BOOLEAN : persist_locked(ok)
      BY <2>2 DEF RegisterWorker
    <3> QED BY <3>1, Persisted
  <2> QED BY <2>1, <2>2
<1>6. StateInv(state') /\ Keeps(state, state') /\ state'.attempts = lost.attempts
  <2> HIDE DEF lost, accepted
  <2> QED BY <1>1, <1>2, <1>5, KeepsTransitive
<1>7. Keeps(disk, state')
  BY ZenonT(60), <1>6, KeepsTransitive DEF AuthorityInvariant
<1>8. /\ phase' = "up" /\ epoch' = epoch /\ admitting' = admitting /\ server' = server
      /\ issued' = issued /\ acked' = acked /\ crashes' = crashes
  BY ZenonT(60), <1>3 DEF RegisterWorker
<1>9. LiveAttemptHasLiveOwner'
  <2> HIDE DEF lost, R
  <2>1. LiveAttempts(state') = LiveAttempts(lost)
    BY ZenonT(60), <1>6 DEF LiveAttempts
  <2> SUFFICES ASSUME NEW a \in LiveAttempts(state')
               PROVE  /\ state'.attempts[a].epoch = epoch'
                      /\ state'.attempts[a].inc \in DOMAIN live'
                      /\ ~live'[state'.attempts[a].inc].revoked
                      /\ live'[state'.attempts[a].inc].producer = state'.attempts[a].producer
    BY DEF LiveAttemptHasLiveOwner
  <2>2. /\ a \in LiveAttempts(state) /\ lost.attempts[a].inc \notin R
        /\ lost.attempts[a].inc = state.attempts[a].inc
        /\ lost.attempts[a].epoch = state.attempts[a].epoch
        /\ lost.attempts[a].producer = state.attempts[a].producer
    BY ZenonT(60), <1>1, <2>1 DEF SameOwners
  <2>3. /\ state.attempts[a].epoch = epoch /\ state.attempts[a].inc \in DOMAIN live
        /\ ~live[state.attempts[a].inc].revoked
        /\ live[state.attempts[a].inc].producer = state.attempts[a].producer
    BY <1>3, <2>2 DEF AuthorityInvariant, LiveAttemptHasLiveOwner
  <2> QED BY ZenonT(60), <1>4, <1>6, <1>8, <2>2, <2>3
<1> QED BY ZenonT(60), <1>4, <1>5, <1>6, <1>7, <1>8, <1>9, <1>t, ServingStep DEF TypeOK

\* revoke_worker
LEMMA RevokeWorkerStep ==
  ASSUME AuthorityInvariant, NEW i \in Incarnation, RevokeWorker(i)
  PROVE  AuthorityInvariant' /\ Keeps(disk, disk')
<1> DEFINE lost == LoseProducers(state, {i})
<1>t. TypeOK /\ StateInv(state)
  BY DEF AuthorityInvariant
<1>1. /\ StateInv(lost) /\ Keeps(state, lost) /\ SameOwners(state, lost)
      /\ \A a \in LiveAttempts(lost) : lost.attempts[a].inc \notin {i}
  BY <1>t, LoseProducersInv
<1>2. /\ state' = lost /\ phase = "up" /\ phase' = "up" /\ epoch' = epoch
      /\ admitting' = admitting /\ server' = server /\ issued' = issued /\ acked' = acked
      /\ crashes' = crashes /\ live' = RevokeLive({i})
  BY DEF RevokeWorker
<1>3. (disk' = state' \/ disk' = disk) /\ faults' \in Nat
  BY ZenonT(60), Persisted DEF RevokeWorker
<1>4. Keeps(disk, state')
  BY <1>1, <1>2, KeepsTransitive DEF AuthorityInvariant
<1>5. /\ DOMAIN live' = DOMAIN live /\ live' \in [DOMAIN live -> LiveWorker]
      /\ \A j \in DOMAIN live : j # i => live'[j] = live[j]
  <2>1. live \in [DOMAIN live -> LiveWorker]
    BY ZenonT(60), <1>t DEF TypeOK
  <2> QED BY ZenonT(120), <1>2, <2>1 DEF RevokeLive, LiveWorker
<1>6. LiveAttemptHasLiveOwner'
  <2> HIDE DEF lost
  <2> SUFFICES ASSUME NEW a \in LiveAttempts(lost)
               PROVE  /\ lost.attempts[a].epoch = epoch
                      /\ lost.attempts[a].inc \in DOMAIN live'
                      /\ ~live'[lost.attempts[a].inc].revoked
                      /\ live'[lost.attempts[a].inc].producer = lost.attempts[a].producer
    BY ZenonT(60), <1>2 DEF LiveAttemptHasLiveOwner
  <2>1. /\ a \in LiveAttempts(state) /\ lost.attempts[a].inc # i
        /\ lost.attempts[a].inc = state.attempts[a].inc
        /\ lost.attempts[a].epoch = state.attempts[a].epoch
        /\ lost.attempts[a].producer = state.attempts[a].producer
    BY <1>1 DEF SameOwners
  <2>2. /\ state.attempts[a].epoch = epoch /\ state.attempts[a].inc \in DOMAIN live
        /\ ~live[state.attempts[a].inc].revoked
        /\ live[state.attempts[a].inc].producer = state.attempts[a].producer
    BY ZenonT(60), <1>2, <2>1 DEF AuthorityInvariant, LiveAttemptHasLiveOwner
  <2> QED BY ZenonT(60), <1>5, <2>1, <2>2
<1> QED BY ZenonT(120), <1>1, <1>2, <1>3, <1>4, <1>5, <1>6, <1>t, ServingStep DEF TypeOK

\* claim_trials
LEMMA ClaimTrialsStep ==
  ASSUME AuthorityInvariant, NEW i \in Incarnation, NEW max_claims \in Nat,
         ClaimTrials(i, max_claims)
  PROVE  AuthorityInvariant' /\ Keeps(disk, disk')
<1>t. TypeOK /\ StateInv(state) /\ StateType(state)
  BY DEF AuthorityInvariant, TypeOK
<1> DEFINE wm == state.wm_attempt
<1>1. PICK n \in 1 .. max_claims : \E picked \in [1 .. n -> Claimable] :
        /\ WalkTakes(picked, ClaimBudget(i, max_claims))
        /\ state' =
             [state EXCEPT
                !.wm_attempt = wm + n,
                !.attempts = [a \in DOMAIN state.attempts \cup (wm + 1 .. wm + n) |->
                                IF a \in wm + 1 .. wm + n THEN IssuedTo(i, picked[a - wm])
                                                          ELSE state.attempts[a]],
                !.trials = [t \in DOMAIN state.trials |->
                              IF \E k \in 1 .. n : picked[k] = t
                              THEN [state.trials[t] EXCEPT
                                      !.attempt_count = @ + 1,
                                      !.next_attempt_number = @ + 1,
                                      !.authoritative_attempt =
                                         wm + (CHOOSE k \in 1 .. n : picked[k] = t),
                                      !.state = "ASSIGNED"]
                              ELSE state.trials[t]]]
        /\ issued' = issued \cup {EnvelopeFor(i, picked[k], wm + k) : k \in 1 .. n}
  BY ZenonT(120) DEF ClaimTrials
<1>2. PICK picked \in [1 .. n -> Claimable] :
        /\ WalkTakes(picked, ClaimBudget(i, max_claims))
        /\ state' =
             [state EXCEPT
                !.wm_attempt = wm + n,
                !.attempts = [a \in DOMAIN state.attempts \cup (wm + 1 .. wm + n) |->
                                IF a \in wm + 1 .. wm + n THEN IssuedTo(i, picked[a - wm])
                                                          ELSE state.attempts[a]],
                !.trials = [t \in DOMAIN state.trials |->
                              IF \E k \in 1 .. n : picked[k] = t
                              THEN [state.trials[t] EXCEPT
                                      !.attempt_count = @ + 1,
                                      !.next_attempt_number = @ + 1,
                                      !.authoritative_attempt =
                                         wm + (CHOOSE k \in 1 .. n : picked[k] = t),
                                      !.state = "ASSIGNED"]
                              ELSE state.trials[t]]]
        /\ issued' = issued \cup {EnvelopeFor(i, picked[k], wm + k) : k \in 1 .. n}
  BY ZenonT(120), <1>1
<1> DEFINE N == wm + 1 .. wm + n
           T == {t \in DOMAIN state.trials : \E k \in 1 .. n : picked[k] = t}
           at(t) == CHOOSE k \in 1 .. n : picked[k] = t
           X == [t \in DOMAIN state.trials |->
                   IF \E k \in 1 .. n : picked[k] = t
                   THEN [state.trials[t] EXCEPT
                           !.attempt_count = @ + 1, !.next_attempt_number = @ + 1,
                           !.authoritative_attempt = wm + at(t), !.state = "ASSIGNED"]
                   ELSE state.trials[t]]
           Y == [a \in DOMAIN state.attempts \cup N |->
                   IF a \in N THEN IssuedTo(i, picked[a - wm]) ELSE state.attempts[a]]
<1>n. n \in Nat /\ wm \in Nat
  BY <1>t DEF StateType
<1>3. /\ DOMAIN state' = StateFields /\ state'.wm_attempt = wm + n
      /\ state'.trials = X /\ state'.attempts = Y
      /\ \A f \in StateFields \ {"trials", "attempts", "wm_attempt"} : state'[f] = state[f]
  <2>1. state' = [state EXCEPT !.wm_attempt = wm + n, !.attempts = Y, !.trials = X]
    BY <1>2
  <2> HIDE DEF X, Y
  <2> QED BY ZenonT(120), <1>t, <2>1 DEF StateType, StateFields
<1>4. /\ phase = "up" /\ phase' = "up" /\ epoch' = epoch /\ live' = live /\ admitting' = admitting
      /\ server' = server /\ acked' = acked /\ crashes' = crashes
      /\ i \in DOMAIN live /\ ~live[i].revoked
  BY DEF ClaimTrials
<1>5. (disk' = state' \/ disk' = disk) /\ faults' \in Nat
  BY ZenonT(120), Persisted DEF ClaimTrials
<1>6. /\ epoch \in Nat /\ live[i].producer \in Nat /\ live[i] \in LiveWorker
      /\ state.trials \in [DOMAIN state.trials -> TrialRecord]
      /\ DOMAIN state.trials \subseteq Nat \ {0}
      /\ state.attempts \in [DOMAIN state.attempts -> AttemptRecord]
      /\ DOMAIN state.attempts \subseteq Nat \ {0}
      /\ state.generation \in Nat /\ state.hypothesis_revision \in Nat
  BY ZenonT(120), <1>t, <1>4 DEF TypeOK, StateType, IsMap, LiveWorker
<1>7. ASSUME NEW k \in 1 .. n
      PROVE  /\ picked[k] \in DOMAIN state.trials /\ picked[k] \in T
             /\ state.trials[picked[k]].state = "READY"
             /\ state.trials[picked[k]] \in TrialRecord
             /\ at(picked[k]) = k
  <2>1. /\ picked[k] \in DOMAIN state.trials /\ state.trials[picked[k]].state = "READY"
    BY DEF Claimable
  <2>2. \A j, l \in 1 .. n : j < l => picked[j] < picked[l]
    BY <1>2 DEF WalkTakes
  <2>3. at(picked[k]) \in 1 .. n /\ picked[at(picked[k])] = picked[k]
    OBVIOUS
  <2>4. \A j \in 1 .. n : picked[j] \in Nat
    BY <1>6 DEF Claimable
  <2> HIDE DEF at
  <2>5. at(picked[k]) = k
    BY <2>2, <2>3, <2>4
  <2> QED BY ZenonT(60), <2>1, <2>5, <1>6
<1>8. ASSUME NEW t \in T
      PROVE  at(t) \in 1 .. n /\ picked[at(t)] = t
  OBVIOUS
<1>9. ASSUME NEW k \in 1 .. n
      PROVE  /\ IssuedTo(i, picked[k]) \in AttemptRecord
             /\ IssuedTo(i, picked[k]).trial = picked[k]
             /\ IssuedTo(i, picked[k]).branch = state.trials[picked[k]].branch
             /\ IssuedTo(i, picked[k]).state = "ISSUED"
             /\ IssuedTo(i, picked[k]).committed = FALSE
             /\ IssuedTo(i, picked[k]).inc = i /\ IssuedTo(i, picked[k]).epoch = epoch
             /\ IssuedTo(i, picked[k]).producer = live[i].producer
  <2>1. /\ state.trials[picked[k]].next_attempt_number \in Nat /\ picked[k] \in Nat
        /\ state.trials[picked[k]].branch \in Nat
    BY ZenonT(120), <1>6, <1>7 DEF TrialRecord
  <2>2. ASSUME NEW c \in BOOLEAN
        PROVE  [number |-> state.trials[picked[k]].next_attempt_number, trial |-> picked[k],
                branch |-> state.trials[picked[k]].branch, inc |-> i, epoch |-> epoch,
                producer |-> live[i].producer, state |-> "ISSUED", committed |-> c] \in AttemptRecord
    BY <1>6, <2>1 DEF AttemptRecord, AttemptStates
  <2>3. FALSE \in BOOLEAN
    OBVIOUS
  <2>4. IssuedTo(i, picked[k]) \in AttemptRecord
    BY ZenonT(120), <2>2, <2>3 DEF IssuedTo
  <2> QED BY <2>4 DEF IssuedTo
<1>10. /\ DOMAIN X = DOMAIN state.trials
       /\ \A t \in DOMAIN state.trials : t \notin T => X[t] = state.trials[t]
       /\ \A t \in T : /\ X[t] \in TrialRecord /\ X[t].state = "ASSIGNED"
                       /\ X[t].authoritative_attempt = wm + at(t)
                       /\ X[t].committed_attempts = state.trials[t].committed_attempts
                       /\ X[t].branch = state.trials[t].branch
                       /\ X[t].generation = state.trials[t].generation
                       /\ X[t].branch_generation = state.trials[t].branch_generation
                       /\ X[t].hypothesis_revision = state.trials[t].hypothesis_revision
  <2>1. DOMAIN X = DOMAIN state.trials /\ \A t \in DOMAIN state.trials : t \notin T => X[t] = state.trials[t]
    BY ZenonT(120)
  <2>2. ASSUME NEW t \in T
        PROVE  /\ X[t] \in TrialRecord /\ X[t].state = "ASSIGNED"
               /\ X[t].authoritative_attempt = wm + at(t)
               /\ X[t].committed_attempts = state.trials[t].committed_attempts
               /\ X[t].branch = state.trials[t].branch
               /\ X[t].generation = state.trials[t].generation
               /\ X[t].branch_generation = state.trials[t].branch_generation
               /\ X[t].hypothesis_revision = state.trials[t].hypothesis_revision
    <3> DEFINE x == state.trials[t]
               p == x.attempt_count + 1
               q == x.next_attempt_number + 1
               w == wm + at(t)
    <3>1. x \in TrialRecord
      BY ZenonT(60), <1>6
    <3>2. p \in Nat /\ q \in Nat
      <4>1. x.attempt_count \in Nat /\ x.next_attempt_number \in Nat
        BY ZenonT(60), <3>1 DEF TrialRecord
      <4> QED BY <4>1
    <3>3. w \in Nat
      <4> HIDE DEF at
      <4> QED BY <1>n, <1>8
    <3>4. X[t] = [x EXCEPT !.attempt_count = p, !.next_attempt_number = q,
                           !.authoritative_attempt = w, !.state = "ASSIGNED"]
      BY ZenonT(120)
    <3> HIDE DEF x, p, q, w, X
    <3>5. /\ X[t] \in TrialRecord /\ X[t].state = "ASSIGNED" /\ X[t].authoritative_attempt = w
          /\ X[t].committed_attempts = x.committed_attempts /\ X[t].branch = x.branch
          /\ X[t].generation = x.generation /\ X[t].branch_generation = x.branch_generation
          /\ X[t].hypothesis_revision = x.hypothesis_revision
      BY ZenonT(120), <3>1, <3>2, <3>3, <3>4 DEF TrialRecord, TrialStates
    <3> QED BY ZenonT(60), <3>5 DEF x, w
  <2> HIDE DEF X, T, at
  <2> QED BY <2>1, <2>2
<1>11. \A a \in N : a - wm \in 1 .. n /\ a = wm + (a - wm)
  BY <1>n
<1>12. \A k \in 1 .. n : wm + k \in N /\ (wm + k) - wm = k
  BY <1>n
<1>13. N \cap DOMAIN state.attempts = {} /\ NoId \notin N /\ N \subseteq Nat \ {0}
  <2>1. \A a \in DOMAIN state.attempts : a <= wm /\ a \in Nat
    BY ZenonT(60), <1>t, <1>6 DEF StateInv, ValidWatermarks
  <2> QED BY <1>n, <2>1 DEF NoId
<1>14. /\ DOMAIN Y = DOMAIN state.attempts \cup N
       /\ \A a \in DOMAIN state.attempts : Y[a] = state.attempts[a]
       /\ \A k \in 1 .. n : Y[wm + k] = IssuedTo(i, picked[k])
  <2> HIDE DEF N
  <2> QED BY <1>12, <1>13
<1> HIDE DEF X, Y, N, T, at, wm
<1>15. StateType(state')
  <2>1. IsMap(X, TrialRecord)
    <3>1. \A t \in DOMAIN state.trials : X[t] \in TrialRecord
      BY <1>6, <1>10
    <3>2. X = [t \in DOMAIN X |-> X[t]]
      BY ZenonT(120) DEF X
    <3> QED BY ZenonT(60), <1>6, <1>10, <3>1, <3>2 DEF IsMap
  <2>2. IsMap(Y, AttemptRecord)
    <3>1. ASSUME NEW a \in DOMAIN Y PROVE Y[a] \in AttemptRecord
      <4>1. CASE a \in N
        <5>1. PICK k \in 1 .. n : a = wm + k
          BY ZenonT(60), <4>1, <1>11
        <5>2. Y[a] = IssuedTo(i, picked[k])
          BY ZenonT(60), <5>1, <1>14
        <5> QED BY ZenonT(120), <5>2, <1>9
      <4>2. CASE a \in DOMAIN state.attempts
        BY ZenonT(60), <4>2, <1>6, <1>14
      <4> QED BY ZenonT(60), <4>1, <4>2, <1>14
    <3>2. Y = [a \in DOMAIN Y |-> Y[a]]
      BY DEF Y
    <3> QED BY ZenonT(60), <1>6, <1>13, <1>14, <3>1, <3>2 DEF IsMap
  <2>3. wm + n \in Nat
    BY <1>n
  <2> QED BY ZenonT(120), <1>3, <1>t, <2>1, <2>2, <2>3 DEF StateType, StateFields
<1>16. /\ T \subseteq DOMAIN state.trials /\ \A t \in T : state.trials[t].state = "READY"
  <2>1. T \subseteq DOMAIN state.trials
    BY DEF T
  <2>2. \A t \in T : state.trials[t].state = "READY"
    BY ZenonT(60), <1>7, <1>8
  <2> QED BY ZenonT(60), <2>1, <2>2
<1>17. \A t \in T : /\ X[t].authoritative_attempt \in N
                    /\ Y[X[t].authoritative_attempt].trial = t
  <2> SUFFICES ASSUME NEW t \in T
               PROVE  X[t].authoritative_attempt \in N /\ Y[X[t].authoritative_attempt].trial = t
    OBVIOUS
  <2>1. PICK k \in 1 .. n : k = at(t) /\ picked[k] = t
    BY ZenonT(60), <1>8
  <2>2. X[t].authoritative_attempt = wm + k
    BY ZenonT(60), <1>10, <2>1
  <2>3. Y[wm + k] = IssuedTo(i, t) /\ IssuedTo(i, t).trial = t
    BY ZenonT(120), <1>9, <1>14, <2>1
  <2> QED BY ZenonT(60), <1>12, <2>2, <2>3
<1>18. \A a \in N : /\ Y[a] = IssuedTo(i, picked[a - wm])
                    /\ Y[a].trial = picked[a - wm] /\ Y[a].trial \in T
                    /\ X[Y[a].trial].authoritative_attempt = a
                    /\ Y[a].branch = state.trials[Y[a].trial].branch
                    /\ Y[a].state = "ISSUED" /\ Y[a].committed = FALSE
                    /\ Y[a].inc = i /\ Y[a].epoch = epoch /\ Y[a].producer = live[i].producer
  <2> SUFFICES ASSUME NEW a \in N
               PROVE  /\ Y[a] = IssuedTo(i, picked[a - wm])
                      /\ Y[a].trial = picked[a - wm] /\ Y[a].trial \in T
                      /\ X[Y[a].trial].authoritative_attempt = a
                      /\ Y[a].branch = state.trials[Y[a].trial].branch
                      /\ Y[a].state = "ISSUED" /\ Y[a].committed = FALSE
                      /\ Y[a].inc = i /\ Y[a].epoch = epoch /\ Y[a].producer = live[i].producer
    BY ZenonT(120)
  <2>1. PICK k \in 1 .. n : k = a - wm /\ a = wm + k
    BY ZenonT(60), <1>11
  <2>2. Y[a] = IssuedTo(i, picked[k]) /\ picked[k] \in T /\ at(picked[k]) = k
    BY ZenonT(60), <1>7, <1>14, <2>1
  <2>3. X[picked[k]].authoritative_attempt = a
    BY ZenonT(60), <1>10, <2>1, <2>2
  <2> QED BY ZenonT(120), <1>9, <2>1, <2>2, <2>3
<1>19. /\ StateInv(state') /\ Keeps(state, state')
       /\ LiveAttempts(state') = LiveAttempts(state) \cup N
  <2>1. \A a \in N : a <= state'.wm_attempt
    BY <1>3, <1>n DEF N
  <2>2. state.wm_attempt <= state'.wm_attempt
    BY <1>3, <1>n DEF wm
  <2>3. /\ DOMAIN state'.trials = DOMAIN state.trials
        /\ DOMAIN state'.attempts = DOMAIN state.attempts \cup N
        /\ \A t \in DOMAIN state.trials : t \notin T => state'.trials[t] = state.trials[t]
        /\ \A a \in DOMAIN state.attempts : state'.attempts[a] = state.attempts[a]
    BY ZenonT(60), <1>3, <1>10, <1>14
  <2>4. \A t \in T :
          /\ state'.trials[t].state = "ASSIGNED"
          /\ state'.trials[t].authoritative_attempt \in N
          /\ state'.attempts[state'.trials[t].authoritative_attempt].trial = t
          /\ state'.trials[t].committed_attempts = state.trials[t].committed_attempts
          /\ state'.trials[t].branch = state.trials[t].branch
          /\ state'.trials[t].generation = state.trials[t].generation
          /\ state'.trials[t].branch_generation = state.trials[t].branch_generation
          /\ state'.trials[t].hypothesis_revision = state.trials[t].hypothesis_revision
    BY ZenonT(60), <1>3, <1>10, <1>17
  <2>5. \A a \in N :
          /\ state'.attempts[a].trial \in T
          /\ state'.trials[state'.attempts[a].trial].authoritative_attempt = a
          /\ state'.attempts[a].branch = state.trials[state'.attempts[a].trial].branch
          /\ state'.attempts[a].state = "ISSUED" /\ state'.attempts[a].committed = FALSE
    BY ZenonT(60), <1>3, <1>18
  <2>6. \A f \in StateFields \ {"trials", "attempts", "wm_attempt"} : state'[f] = state[f]
    BY <1>3
  <2>7. StateInv(state) /\ StateType(state')
    BY ZenonT(60), <1>t, <1>15
  <2>8. N \cap DOMAIN state.attempts = {} /\ NoId \notin N
    BY <1>13
  <2>9. Claims(state, state', T, N)
    BY ZenonT(120), <1>16, <2>1, <2>2, <2>3, <2>4, <2>5, <2>6, <2>8 DEF Claims
  <2> QED BY ZenonT(60), <2>7, <2>9, ClaimedInv
<1>20. Keeps(disk, state')
  BY ZenonT(60), <1>19, KeepsTransitive DEF AuthorityInvariant
<1>21. issued' \subseteq Envelope
  <2>1. ASSUME NEW k \in 1 .. n
        PROVE  EnvelopeFor(i, picked[k], wm + k) \in Envelope
    <3>1. wm + k \in Nat
      BY <1>n
    <3>2. /\ state.trials[picked[k]].branch \in Nat /\ picked[k] \in Nat
          /\ state.trials[picked[k]].branch_generation \in Nat
      BY ZenonT(60), <1>6, <1>7 DEF TrialRecord
    <3> QED BY ZenonT(60), <1>6, <3>1, <3>2 DEF EnvelopeFor, Envelope
  <2>2. issued \subseteq Envelope
    BY <1>t DEF TypeOK
  <2> QED BY ZenonT(60), <1>2, <2>1, <2>2 DEF wm
<1>22. LiveAttemptHasLiveOwner'
  <2> SUFFICES ASSUME NEW a \in LiveAttempts(state')
               PROVE  /\ Y[a].epoch = epoch /\ Y[a].inc \in DOMAIN live
                      /\ ~live[Y[a].inc].revoked /\ live[Y[a].inc].producer = Y[a].producer
    BY ZenonT(60), <1>3, <1>4 DEF LiveAttemptHasLiveOwner
  <2>1. CASE a \in N
    BY ZenonT(60), <2>1, <1>4, <1>18
  <2>2. CASE a \in LiveAttempts(state)
    <3>1. Y[a] = state.attempts[a]
      BY ZenonT(60), <2>2, <1>14 DEF LiveAttempts
    <3>2. phase = "up" /\ LiveAttemptHasLiveOwner
      BY ZenonT(60), <1>4 DEF AuthorityInvariant
    <3> QED BY ZenonT(60), <2>2, <3>1, <3>2 DEF LiveAttemptHasLiveOwner
  <2>3. a \in N \/ a \in LiveAttempts(state)
    BY ZenonT(60), <1>19
  <2> QED BY ZenonT(60), <2>1, <2>2, <2>3
<1> QED BY ZenonT(60), <1>t, <1>4, <1>5, <1>19, <1>20, <1>21, <1>22, ServingStep DEF TypeOK

\* What a step aside of trials, attempts and branches comes to.
LEMMA AsideStep ==
  ASSUME AuthorityInvariant, phase = "up", UNCHANGED Volatile, StateType(state'),
         state'.branches = state.branches, state'.trials = state.trials,
         state'.attempts = state.attempts, state'.generation = state.generation,
         state'.hypothesis_revision = state.hypothesis_revision,
         \A n \in DOMAIN state.observations :
            n \in DOMAIN state'.observations /\ state'.observations[n] = state.observations[n],
         state.wm_branch <= state'.wm_branch, state.wm_trial <= state'.wm_trial,
         state.wm_attempt <= state'.wm_attempt,
         disk' = state' \/ disk' = disk, faults' \in Nat
  PROVE  AuthorityInvariant' /\ Keeps(disk, disk')
<1>1. StateInv(state)
  BY DEF AuthorityInvariant
<1>2. StateInv(state') /\ Keeps(state, state') /\ SameOwners(state, state')
  BY <1>1, AsideInv
<1> QED BY ZenonT(60), <1>2, HandlerStep

\* Appending an observation drops none.
LEMMA ObservationAppended ==
  ASSUME NEW obs \in Seq(Observation), NEW o \in Observation
  PROVE  /\ Append(obs, o) \in Seq(Observation)
         /\ \A n \in DOMAIN obs : n \in DOMAIN Append(obs, o) /\ Append(obs, o)[n] = obs[n]
OBVIOUS

\* publish_observation without authority
LEMMA RejectObservationStep ==
  ASSUME AuthorityInvariant, NEW e \in issued, NEW m \in Metrics, RejectObservation(e, m)
  PROVE  AuthorityInvariant' /\ Keeps(disk, disk')
<1> DEFINE o == [trial |-> e.trial, attempt |-> e.attempt, metric |-> m, validity |-> "INVALID"]
           obs == IF LateEvidencePolicy = "RETAIN_HISTORICAL" /\ Len(state.observations) < MaxObservations
                  THEN Append(state.observations, o) ELSE state.observations
           rej == Min2(state.rejected + 1, RejectedCap)
<1>t. TypeOK /\ StateType(state)
  BY ZenonT(60) DEF AuthorityInvariant, TypeOK
<1>1. o \in Observation
  <2>1. e.trial \in Nat /\ e.attempt \in Nat
    BY ZenonT(60), <1>t DEF TypeOK, Envelope
  <2> QED BY <2>1 DEF Observation, Validities
<1>2. /\ obs \in Seq(Observation)
      /\ \A n \in DOMAIN state.observations : n \in DOMAIN obs /\ obs[n] = state.observations[n]
  <2>1. state.observations \in Seq(Observation)
    BY <1>t DEF StateType
  <2> HIDE DEF o
  <2> QED BY ZenonT(60), <1>1, <2>1, ObservationAppended
<1>3. rej \in 0 .. RejectedCap
  <2>1. state.rejected \in 0 .. RejectedCap /\ RejectedCap \in Nat
    BY <1>t, LimitsAssumption DEF StateType
  <2> QED BY <2>1 DEF Min2
<1>4. state' = [state EXCEPT !.rejected = rej, !.observations = obs]
  BY DEF RejectObservation
<1> HIDE DEF o, obs, rej
<1>5. /\ DOMAIN state' = StateFields /\ state'.rejected = rej /\ state'.observations = obs
      /\ \A f \in StateFields \ {"rejected", "observations"} : state'[f] = state[f]
  BY ZenonT(120), <1>t, <1>4 DEF StateType, StateFields
<1>6. StateType(state')
  BY ZenonT(60), <1>t, <1>2, <1>3, <1>5 DEF StateType, StateFields
<1>7. /\ state'.branches = state.branches /\ state'.trials = state.trials
      /\ state'.attempts = state.attempts /\ state'.generation = state.generation
      /\ state'.hypothesis_revision = state.hypothesis_revision
      /\ state'.wm_branch = state.wm_branch /\ state'.wm_trial = state.wm_trial
      /\ state'.wm_attempt = state.wm_attempt
  BY ZenonT(60), <1>5 DEF StateFields
<1>8. /\ state.wm_branch <= state'.wm_branch /\ state.wm_trial <= state'.wm_trial
      /\ state.wm_attempt <= state'.wm_attempt
  BY <1>t, <1>7 DEF StateType
<1>9. (disk' = state' \/ disk' = disk) /\ faults' \in Nat /\ UNCHANGED Volatile /\ phase = "up"
  BY Persisted DEF RejectObservation
<1> QED BY ZenonT(60), <1>2, <1>5, <1>6, <1>7, <1>8, <1>9, AsideStep

\* publish_observation with authority
LEMMA PublishObservationStep ==
  ASSUME AuthorityInvariant, NEW e \in issued, NEW m \in Metrics, NEW v \in Validities,
         PublishObservation(e, m, v)
  PROVE  AuthorityInvariant' /\ Keeps(disk, disk')
<1> DEFINE o == [trial |-> e.trial, attempt |-> e.attempt, metric |-> m, validity |-> v]
           observed == UnderObservation(state, e.trial, e.attempt)
<1>t. TypeOK /\ StateType(state) /\ StateInv(state)
  BY DEF AuthorityInvariant, TypeOK
<1>1. e.trial \in OpenTrials(state) /\ e.attempt \in LiveAttempts(state)
  BY ZenonT(60), EnvelopeHasAuthority, SameTarget DEF PublishObservation
<1>2. o \in Observation
  BY ZenonT(60), SameTarget DEF Observation
<1>3. state.observations \in Seq(Observation)
  BY <1>t DEF StateType
<1>d. /\ DOMAIN observed = StateFields /\ observed.observations = state.observations
      /\ observed = [observed EXCEPT !.observations = state.observations]
  <2>1. DOMAIN observed = StateFields /\ observed.observations = state.observations
    BY <1>t DEF UnderObservation, StateType, StateFields
  <2>2. observed = [f \in StateFields |-> observed[f]]
    BY ZenonT(120), <1>t DEF UnderObservation, StateType, StateFields
  <2> HIDE DEF observed
  <2> QED BY <2>1, <2>2
<1>4. PICK obs \in {state.observations, Append(state.observations, o)} :
        state' = [observed EXCEPT !.observations = obs]
  <2> HIDE DEF observed, o
  <2>1. PICK ok \in BOOLEAN :
          state' = IF ok THEN [observed EXCEPT !.observations = Append(@, o)] ELSE observed
    BY DEF PublishObservation, observed, o
  <2>2. CASE ok
    BY <2>1, <2>2, <1>d
  <2>3. CASE ~ok
    BY ZenonT(60), <2>1, <2>3, <1>d
  <2> QED BY <2>2, <2>3
<1>5. /\ obs \in Seq(Observation)
      /\ \A n \in DOMAIN state.observations : n \in DOMAIN obs /\ obs[n] = state.observations[n]
  <2> HIDE DEF o
  <2> QED BY ZenonT(60), <1>2, <1>3, ObservationAppended
<1>6. StateInv(state') /\ Keeps(state, state') /\ SameOwners(state, state')
  BY <1>t, <1>1, <1>4, <1>5, ObservedInv
<1>7. (disk' = state' \/ disk' = disk) /\ faults' \in Nat /\ UNCHANGED Volatile /\ phase = "up"
  BY Persisted DEF PublishObservation
<1> QED BY ZenonT(60), <1>6, <1>7, HandlerStep

\* What a step that changes only the artifacts and the count of rejections comes to.
LEMMA ArtifactsStep ==
  ASSUME AuthorityInvariant, phase = "up", UNCHANGED Volatile,
         DOMAIN state' = StateFields,
         state'.artifacts \subseteq Nat \X Nat, state'.rejected \in 0 .. RejectedCap,
         \A f \in StateFields \ {"artifacts", "rejected"} : state'[f] = state[f],
         disk' = state' \/ disk' = disk, faults' \in Nat
  PROVE  AuthorityInvariant' /\ Keeps(disk, disk')
<1>t. TypeOK /\ StateType(state)
  BY ZenonT(60) DEF AuthorityInvariant, TypeOK
<1>2. StateType(state')
  BY ZenonT(60), <1>t DEF StateType, StateFields
<1>3. /\ state'.branches = state.branches /\ state'.trials = state.trials
      /\ state'.attempts = state.attempts /\ state'.generation = state.generation
      /\ state'.hypothesis_revision = state.hypothesis_revision
      /\ state'.observations = state.observations
      /\ state'.wm_branch = state.wm_branch /\ state'.wm_trial = state.wm_trial
      /\ state'.wm_attempt = state.wm_attempt
  BY ZenonT(60) DEF StateFields
<1>4. /\ state.wm_branch <= state'.wm_branch /\ state.wm_trial <= state'.wm_trial
      /\ state.wm_attempt <= state'.wm_attempt
  BY ZenonT(60), <1>t, <1>3, SameWatermarks
<1> QED BY ZenonT(60), <1>2, <1>3, <1>4, AsideStep

\* publish_artifact without authority
LEMMA RejectArtifactStep ==
  ASSUME AuthorityInvariant, NEW e \in issued, RejectArtifact(e)
  PROVE  AuthorityInvariant' /\ Keeps(disk, disk')
<1> DEFINE rej == Min2(state.rejected + 1, RejectedCap)
<1>t. StateType(state)
  BY DEF AuthorityInvariant, TypeOK
<1>1. rej \in 0 .. RejectedCap
  <2>1. state.rejected \in 0 .. RejectedCap /\ RejectedCap \in Nat
    BY <1>t, LimitsAssumption DEF StateType
  <2> QED BY <2>1 DEF Min2
<1>2. state' = [state EXCEPT !.rejected = rej]
  BY DEF RejectArtifact
<1> HIDE DEF rej
<1>3. /\ DOMAIN state' = StateFields
      /\ state'.artifacts \subseteq Nat \X Nat /\ state'.rejected \in 0 .. RejectedCap
      /\ \A f \in StateFields \ {"artifacts", "rejected"} : state'[f] = state[f]
  BY ZenonT(60), <1>t, <1>1, <1>2 DEF StateType, StateFields
<1>4. (disk' = state' \/ disk' = disk) /\ faults' \in Nat /\ UNCHANGED Volatile /\ phase = "up"
  BY ZenonT(60), Persisted DEF RejectArtifact
<1> QED BY ZenonT(60), <1>3, <1>4, ArtifactsStep

\* publish_artifact with authority
LEMMA PublishArtifactStep ==
  ASSUME AuthorityInvariant, NEW e \in issued, NEW k \in Nat, PublishArtifact(e, k)
  PROVE  AuthorityInvariant' /\ Keeps(disk, disk')
<1> DEFINE more == state.artifacts \cup {<<e.attempt, k>>}
<1>t. StateType(state)
  BY DEF AuthorityInvariant, TypeOK
<1>1. state.artifacts \subseteq Nat \X Nat /\ more \subseteq Nat \X Nat
  <2>1. e.attempt \in Nat
    BY ZenonT(60), SameTarget
  <2>2. state.artifacts \subseteq Nat \X Nat
    BY ZenonT(60), <1>t DEF StateType
  <2>3. <<e.attempt, k>> \in Nat \X Nat
    BY <2>1
  <2> QED BY <2>2, <2>3
<1>2. state' = [state EXCEPT !.artifacts = more] \/ state' = state
  BY DEF PublishArtifact
<1> HIDE DEF more
<1>3. /\ DOMAIN state' = StateFields
      /\ state'.artifacts \subseteq Nat \X Nat /\ state'.rejected \in 0 .. RejectedCap
      /\ \A f \in StateFields \ {"artifacts", "rejected"} : state'[f] = state[f]
  BY ZenonT(60), <1>t, <1>1, <1>2 DEF StateType, StateFields
<1>4. (disk' = state' \/ disk' = disk) /\ faults' \in Nat /\ UNCHANGED Volatile /\ phase = "up"
  BY Persisted DEF PublishArtifact
<1> QED BY ZenonT(60), <1>3, <1>4, ArtifactsStep

\* The artifacts of a commit request leave everything else as it is.
LEMMA WithArtifactsFields ==
  ASSUME AuthorityInvariant, NEW e \in issued, NEW arts, NEW J,
         \A j \in J : arts[j] \in Nat,
         NEW r, r = WithArtifacts(e, arts, J)
  PROVE  /\ DOMAIN r = StateFields
         /\ r.artifacts \subseteq Nat \X Nat /\ r.rejected \in 0 .. RejectedCap
         /\ \A f \in StateFields \ {"artifacts", "rejected"} : r[f] = state[f]
<1> DEFINE more == state.artifacts \cup {<<e.attempt, arts[j]>> : j \in J}
<1>t. StateType(state)
  BY ZenonT(60) DEF AuthorityInvariant, TypeOK
<1>1. more \subseteq Nat \X Nat
  <2>1. state.artifacts \subseteq Nat \X Nat
    BY ZenonT(60), <1>t DEF StateType
  <2>2. e.attempt \in Nat
    BY SameTarget
  <2>3. \A j \in J : <<e.attempt, arts[j]>> \in Nat \X Nat
    BY <2>2
  <2> QED BY ZenonT(60), <2>1, <2>3
<1>2. r = [state EXCEPT !.artifacts = more]
  BY ZenonT(60) DEF WithArtifacts
<1> HIDE DEF more
<1> QED BY <1>t, <1>1, <1>2 DEF StateType, StateFields

\* commit_trial that stops at an artifact
LEMMA CommitRefusedStep ==
  ASSUME AuthorityInvariant, NEW e \in issued, NEW arts \in ArtifactRequests,
         CommitRefused(e, arts)
  PROVE  AuthorityInvariant' /\ Keeps(disk, disk')
<1>1. PICK n \in DOMAIN arts : state' = WithArtifacts(e, arts, 1 .. n - 1)
  BY DEF CommitRefused
<1>2. PICK l \in 0 .. MaxArtifactRequest : arts \in [1 .. l -> 0 .. MaxArtifactsPerAttempt]
  BY ZenonT(60) DEF ArtifactRequests
<1>3. \A j \in 1 .. n - 1 : arts[j] \in Nat
  BY SMTT(60), <1>1, <1>2, BoundsAssumption, LimitsAssumption
<1>4. /\ DOMAIN state' = StateFields
      /\ state'.artifacts \subseteq Nat \X Nat /\ state'.rejected \in 0 .. RejectedCap
      /\ \A f \in StateFields \ {"artifacts", "rejected"} : state'[f] = state[f]
  <2> DEFINE J == 1 .. n - 1
  <2>1. \A j \in J : arts[j] \in Nat
    BY <1>3
  <2>2. state' = WithArtifacts(e, arts, J)
    BY ZenonT(60), <1>1
  <2> HIDE DEF J
  <2> QED BY SMTT(60), <2>1, <2>2, WithArtifactsFields
<1>5. disk' = disk /\ faults' \in Nat /\ UNCHANGED Volatile /\ phase = "up"
  BY ZenonT(60) DEF CommitRefused, CommitAllowed, AuthorityInvariant, TypeOK
<1> QED BY ZenonT(60), <1>4, <1>5, ArtifactsStep

\* commit_trial
LEMMA CommitTrialStep ==
  ASSUME AuthorityInvariant, NEW e \in issued, NEW arts \in ArtifactRequests,
         CommitTrial(e, arts)
  PROVE  AuthorityInvariant' /\ Keeps(disk, disk')
<1> DEFINE t == e.trial
           a == e.attempt
           J == DOMAIN arts
<1>t. TypeOK /\ StateType(state) /\ StateInv(state)
  BY DEF AuthorityInvariant, TypeOK
<1>1. /\ t \in OpenTrials(state) /\ a \in LiveAttempts(state)
      /\ state.trials[t].authoritative_attempt = a /\ state.attempts[a].trial = t
      /\ ObservationsOf(state, t, a) # {}
  BY ZenonT(120), EnvelopeHasAuthority DEF CommitTrial, CommitAllowed
<1>2. PICK l \in 0 .. MaxArtifactRequest : arts \in [1 .. l -> 0 .. MaxArtifactsPerAttempt]
  BY ZenonT(60) DEF ArtifactRequests
<1>3. \A j \in J : arts[j] \in Nat
  BY SMTT(60), <1>2, BoundsAssumption, LimitsAssumption
<1>c. /\ state' = Committed(WithArtifacts(e, arts, J), t, a) /\ phase = "up" /\ phase' = "up"
      /\ epoch' = epoch /\ live' = live /\ admitting' = admitting /\ server' = server
      /\ issued' = issued /\ crashes' = crashes
  BY ZenonT(60) DEF CommitTrial, CommitAllowed
<1> HIDE DEF t, a, J
<1>s. PICK s : s = WithArtifacts(e, arts, J)
  BY ZenonT(60) 
<1>4. /\ DOMAIN s = StateFields
      /\ s.artifacts \subseteq Nat \X Nat /\ s.rejected \in 0 .. RejectedCap
      /\ \A f \in StateFields \ {"artifacts", "rejected"} : s[f] = state[f]
  BY SMTT(60), <1>3, <1>s, WithArtifactsFields
<1>5. StateType(s)
  BY ZenonT(120), <1>t, <1>4 DEF StateType, StateFields
<1>6. /\ s.branches = state.branches /\ s.trials = state.trials /\ s.attempts = state.attempts
      /\ s.generation = state.generation /\ s.hypothesis_revision = state.hypothesis_revision
      /\ s.observations = state.observations /\ s.wm_branch = state.wm_branch
      /\ s.wm_trial = state.wm_trial /\ s.wm_attempt = state.wm_attempt
  BY ZenonT(60), <1>4 DEF StateFields
<1>7. StateInv(s) /\ Keeps(state, s) /\ SameOwners(state, s)
  <2>1. /\ state.wm_branch <= s.wm_branch /\ state.wm_trial <= s.wm_trial
        /\ state.wm_attempt <= s.wm_attempt
    BY ZenonT(60), <1>t, <1>6, SameWatermarks
  <2> QED BY ZenonT(60), <1>t, <1>5, <1>6, <2>1, AsideInv
<1>8. /\ t \in OpenTrials(s) /\ a \in LiveAttempts(s)
      /\ s.trials[t].authoritative_attempt = a /\ s.attempts[a].trial = t
      /\ ObservationsOf(s, t, a) # {}
  BY ZenonT(60), <1>1, <1>6 DEF OpenTrials, LiveAttempts, ObservationsOf
<1>9. /\ StateInv(state') /\ Keeps(s, state') /\ SameOwners(s, state')
      /\ t \in DOMAIN state'.trials /\ a \in DOMAIN state'.attempts
      /\ state'.trials[t].state = "COMPLETED" /\ state'.trials[t].authoritative_attempt = a
      /\ state'.attempts[a].committed
  <2>1. state' = Committed(s, t, a)
    BY ZenonT(60), <1>c, <1>s
  <2> QED BY <1>7, <1>8, <2>1, CommittedInv
<1>10. Keeps(disk, state')
  BY ZenonT(60), <1>7, <1>9, KeepsTransitive DEF AuthorityInvariant
<1>11. SameOwners(state, state')
  <2>1. SameOwners(state, s) /\ SameOwners(s, state')
    BY ZenonT(60), <1>7, <1>9
  <2> QED BY SMTT(60), <2>1 DEF SameOwners
<1>12. LiveAttemptHasLiveOwner'
  BY ZenonT(120), <1>c, <1>11, OwnersKept DEF AuthorityInvariant
<1>13. PICK ok \in BOOLEAN :
         persist_locked(ok) /\ acked' = IF ok THEN acked \cup {<<t, a>>} ELSE acked
  BY ZenonT(120) DEF CommitTrial, t, a
<1>14. (disk' = state' \/ disk' = disk) /\ faults' \in Nat /\ (ok => disk' = state')
  BY ZenonT(60), <1>13, Persisted DEF persist_locked
<1>15. t \in Nat /\ a \in Nat
  BY ZenonT(60), SameTarget DEF t, a
<1>16. acked' \subseteq Nat \X Nat
  BY SMTT(60), <1>13, <1>15, <1>t DEF TypeOK
<1>17. ASSUME NEW x \in acked', x \notin acked
       PROVE  /\ x[1] \in DOMAIN disk'.trials /\ x[2] \in DOMAIN disk'.attempts
              /\ disk'.trials[x[1]].state = "COMPLETED"
              /\ disk'.trials[x[1]].authoritative_attempt = x[2]
              /\ disk'.attempts[x[2]].committed
  <2>1. x = <<t, a>> /\ disk' = state'
    BY ZenonT(60), <1>13, <1>14, <1>17
  <2>2. x[1] = t /\ x[2] = a
    BY ZenonT(60), <2>1
  <2> QED BY ZenonT(60), <1>9, <2>1, <2>2
<1> QED BY ZenonT(60), <1>t, <1>c, <1>9, <1>10, <1>12, <1>14, <1>16, <1>17, ServingStep DEF TypeOK

\* fail_trial
LEMMA FailTrialStep ==
  ASSUME AuthorityInvariant, NEW e \in issued, NEW retryable \in BOOLEAN, FailTrial(e, retryable)
  PROVE  AuthorityInvariant' /\ Keeps(disk, disk')
<1> DEFINE t == e.trial
           a == e.attempt
           b == state.trials[t].branch
           retry == retryable /\ RetryRemains(state.trials[t])
           st == IF /\ PartialFailurePolicy = "INVALIDATE_BRANCH"
                    /\ "INVALID" \in BranchSuccessors(state.branches[b].state)
                 THEN "INVALID" ELSE state.branches[b].state
<1>t. StateType(state) /\ StateInv(state)
  BY DEF AuthorityInvariant, TypeOK
<1>1. /\ t \in OpenTrials(state) /\ a \in LiveAttempts(state)
      /\ state.trials[t].authoritative_attempt = a /\ state.attempts[a].trial = t
      /\ b \in DOMAIN state.branches
  BY ZenonT(120), EnvelopeHasAuthority DEF FailTrial
<1>2. state' = [state EXCEPT !.attempts[a].state = "FAILED",
                             !.trials[t] = Requeue(state.trials[t], retry),
                             !.branches[b].state = st]
  BY ZenonT(60) DEF FailTrial
<1>3. retry \in BOOLEAN
  BY DEF RetryRemains
<1>4. st \in BranchStates
  <2>1. state.branches[b].state \in BranchStates
    BY ZenonT(120), <1>t, <1>1 DEF StateType, IsMap, BranchRecord
  <2> QED BY ZenonT(120), <2>1 DEF BranchStates
<1> HIDE DEF t, a, b, retry, st
<1>5. StateInv(state') /\ Keeps(state, state') /\ SameOwners(state, state')
  BY ZenonT(120), <1>t, <1>1, <1>2, <1>3, <1>4, FailInv
<1>6. (disk' = state' \/ disk' = disk) /\ faults' \in Nat /\ UNCHANGED Volatile /\ phase = "up"
  BY ZenonT(120), Persisted DEF FailTrial
<1> QED BY ZenonT(60), <1>5, <1>6, HandlerStep

-----------------------------------------------------------------------------
(***************************************************************************)
(* Creation, closing, decisions, the server and recovery.                  *)
(***************************************************************************)

\* create_trial: created, or only numbered.
LEMMA CreateTrialStep ==
  ASSUME AuthorityInvariant, NEW b \in Nat, CreateTrial(b)
  PROVE  AuthorityInvariant' /\ Keeps(disk, disk')
<1> DEFINE id == state.wm_trial + 1
           numbered == [state EXCEPT !.wm_trial = id]
           X == [t \in DOMAIN state.trials \cup {id} |->
                   IF t = id THEN NewTrial(b) ELSE state.trials[t]]
           created == [numbered EXCEPT !.trials = X]
<1>t. StateType(state) /\ StateInv(state)
  BY DEF AuthorityInvariant, TypeOK
<1>1. /\ state.wm_trial \in Nat /\ id \in Nat \ {0} /\ state.wm_trial <= id
      /\ id \notin DOMAIN state.trials
  <2>1. state.wm_trial \in Nat /\ \A t \in DOMAIN state.trials : t <= state.wm_trial
    BY ZenonT(120), <1>t DEF StateType, StateInv, ValidWatermarks
  <2> QED BY <2>1
<1>2. /\ NewTrial(b) \in TrialRecord /\ b \in DOMAIN state.branches
      /\ NewTrial(b).state = "READY" /\ NewTrial(b).authoritative_attempt = NoId
      /\ NewTrial(b).committed_attempts = 0 /\ NewTrial(b).generation = state.generation
      /\ NewTrial(b).hypothesis_revision = state.hypothesis_revision /\ NewTrial(b).branch = b
      /\ NewTrial(b).branch_generation = state.branches[b].generation
  <2>1. b \in DOMAIN state.branches
    BY ZenonT(120) DEF CreateTrial
  <2>2. state.branches[b].generation \in Nat
    BY ZenonT(60), <1>t, <2>1 DEF StateType, IsMap, BranchRecord
  <2>3. state.generation \in Nat /\ state.hypothesis_revision \in Nat
    BY ZenonT(60), <1>t DEF StateType
  <2> QED BY <2>1, <2>2, <2>3 DEF NewTrial, TrialRecord, TrialStates, NoId
<1>3. state' = numbered \/ state' = created
  <2>1. CASE validate_record(created)
    <3>1. PICK ok \in BOOLEAN : state' = IF ok THEN created ELSE numbered
      BY ZenonT(120), <2>1 DEF CreateTrial
    <3> HIDE DEF created, numbered
    <3> QED BY <3>1
  <2>2. CASE ~validate_record(created)
    BY ZenonT(120), <2>2 DEF CreateTrial
  <2> QED BY <2>1, <2>2
<1>4. (disk' = state' \/ disk' = disk) /\ faults' \in Nat /\ UNCHANGED Volatile /\ phase = "up"
  <2>1. faults \in Nat
    BY DEF AuthorityInvariant, TypeOK
  <2> HIDE DEF created, numbered
  <2> QED BY ZenonT(120), <2>1, Persisted DEF CreateTrial
<1>5. /\ DOMAIN X = DOMAIN state.trials \cup {id} /\ X[id] = NewTrial(b)
      /\ \A t \in DOMAIN state.trials : X[t] = state.trials[t]
      /\ IsMap(X, TrialRecord)
  <2> HIDE DEF id
  <2> QED BY ZenonT(120), <1>t, <1>1, <1>2 DEF StateType, IsMap
<1> HIDE DEF id, X
<1>6. /\ DOMAIN numbered = StateFields /\ numbered.wm_trial = id
      /\ \A f \in StateFields \ {"wm_trial"} : numbered[f] = state[f]
  BY ZenonT(60), <1>t DEF StateType, StateFields
<1> HIDE DEF numbered
<1>7. /\ DOMAIN created = StateFields /\ created.wm_trial = id /\ created.trials = X
      /\ \A f \in StateFields \ {"trials", "wm_trial"} : created[f] = state[f]
  BY <1>6 DEF StateFields
<1> HIDE DEF created
<1>8. CASE state' = numbered
  <2>1. StateType(state')
    BY ZenonT(60), <1>t, <1>1, <1>6, <1>8 DEF StateType, StateFields
  <2>2. /\ state'.branches = state.branches /\ state'.trials = state.trials
        /\ state'.attempts = state.attempts /\ state'.generation = state.generation
        /\ state'.hypothesis_revision = state.hypothesis_revision
        /\ state'.observations = state.observations
        /\ state'.wm_branch = state.wm_branch /\ state'.wm_attempt = state.wm_attempt
        /\ state'.wm_trial = id
    BY ZenonT(60), <1>6, <1>8 DEF StateFields
  <2>3. /\ state.wm_branch <= state'.wm_branch /\ state.wm_trial <= state'.wm_trial
        /\ state.wm_attempt <= state'.wm_attempt
    BY SMTT(60), <1>t, <1>1, <2>2 DEF StateType
  <2> QED BY ZenonT(60), <1>4, <2>1, <2>2, <2>3, AsideStep
<1>9. CASE state' = created
  <2>1. StateType(state')
    BY ZenonT(60), <1>t, <1>1, <1>5, <1>7, <1>9 DEF StateType, StateFields
  <2>2. /\ state'.trials = X /\ state'.trials[id] = NewTrial(b) /\ state'.wm_trial = id
        /\ DOMAIN state'.trials = DOMAIN state.trials \cup {id}
        /\ \A t \in DOMAIN state.trials : state'.trials[t] = state.trials[t]
        /\ \A f \in StateFields \ {"trials", "wm_trial"} : state'[f] = state[f]
    BY ZenonT(60), <1>5, <1>7, <1>9
  <2>3. StateInv(state') /\ Keeps(state, state') /\ SameOwners(state, state')
    BY ZenonT(120), <1>t, <1>1, <1>2, <2>1, <2>2, CreatedInv
  <2> QED BY ZenonT(60), <1>4, <2>3, HandlerStep
<1> QED BY ZenonT(60), <1>3, <1>8, <1>9

\* fork_branch: forked, or only numbered.
LEMMA ForkBranchStep ==
  ASSUME AuthorityInvariant, NEW b \in Nat, ForkBranch(b)
  PROVE  AuthorityInvariant' /\ Keeps(disk, disk')
<1> DEFINE id == state.wm_branch + 1
           numbered == [state EXCEPT !.wm_branch = id]
           B == [c \in DOMAIN state.branches \cup {id} |->
                   IF c = id THEN [state |-> "ACTIVE", generation |-> 1] ELSE state.branches[c]]
           forked == [numbered EXCEPT !.branches = B]
<1>t. StateType(state) /\ StateInv(state)
  BY DEF AuthorityInvariant, TypeOK
<1>1. /\ state.wm_branch \in Nat /\ id \in Nat \ {0} /\ state.wm_branch <= id
      /\ id \notin DOMAIN state.branches
  <2>1. state.wm_branch \in Nat /\ \A c \in DOMAIN state.branches : c <= state.wm_branch
    BY ZenonT(120), <1>t DEF StateType, StateInv, ValidWatermarks
  <2> QED BY <2>1
<1>3. state' = numbered \/ state' = forked
  <2>1. CASE validate_record(forked)
    <3>1. PICK ok \in BOOLEAN : state' = IF ok THEN forked ELSE numbered
      BY ZenonT(120), <2>1 DEF ForkBranch
    <3> HIDE DEF forked, numbered
    <3> QED BY <3>1
  <2>2. CASE ~validate_record(forked)
    BY ZenonT(120), <2>2 DEF ForkBranch
  <2> QED BY ZenonT(60), <2>1, <2>2
<1>4. (disk' = state' \/ disk' = disk) /\ faults' \in Nat /\ UNCHANGED Volatile /\ phase = "up"
  <2>1. faults \in Nat
    BY DEF AuthorityInvariant, TypeOK
  <2> HIDE DEF forked, numbered
  <2> QED BY ZenonT(120), <2>1, Persisted DEF ForkBranch
<1>5. /\ DOMAIN B = DOMAIN state.branches \cup {id}
      /\ \A c \in DOMAIN state.branches : B[c] = state.branches[c]
      /\ IsMap(B, BranchRecord) /\ Baseline \in DOMAIN B
  <2>1. [state |-> "ACTIVE", generation |-> 1] \in BranchRecord
    BY DEF BranchRecord, BranchStates
  <2> HIDE DEF id
  <2> QED BY ZenonT(60), <1>t, <1>1, <2>1 DEF StateType, IsMap
<1> HIDE DEF id, B
<1>6. /\ DOMAIN numbered = StateFields /\ numbered.wm_branch = id
      /\ \A f \in StateFields \ {"wm_branch"} : numbered[f] = state[f]
  BY ZenonT(60), <1>t DEF StateType, StateFields
<1> HIDE DEF numbered
<1>7. /\ DOMAIN forked = StateFields /\ forked.wm_branch = id /\ forked.branches = B
      /\ \A f \in StateFields \ {"branches", "wm_branch"} : forked[f] = state[f]
  BY ZenonT(60), <1>6 DEF StateFields
<1> HIDE DEF forked
<1>8. CASE state' = numbered
  <2>1. StateType(state')
    BY ZenonT(60), <1>t, <1>1, <1>6, <1>8 DEF StateType, StateFields
  <2>2. /\ state'.branches = state.branches /\ state'.trials = state.trials
        /\ state'.attempts = state.attempts /\ state'.generation = state.generation
        /\ state'.hypothesis_revision = state.hypothesis_revision
        /\ state'.observations = state.observations
        /\ state'.wm_trial = state.wm_trial /\ state'.wm_attempt = state.wm_attempt
        /\ state'.wm_branch = id
    BY <1>6, <1>8 DEF StateFields
  <2>3. /\ state.wm_branch <= state'.wm_branch /\ state.wm_trial <= state'.wm_trial
        /\ state.wm_attempt <= state'.wm_attempt
    BY SMTT(60), <1>t, <1>1, <2>2 DEF StateType
  <2> QED BY ZenonT(60), <1>4, <2>1, <2>2, <2>3, AsideStep
<1>9. CASE state' = forked
  <2>1. StateType(state')
    BY ZenonT(60), <1>t, <1>1, <1>5, <1>7, <1>9 DEF StateType, StateFields
  <2>2. /\ state'.wm_branch = id
        /\ DOMAIN state'.branches = DOMAIN state.branches \cup {id}
        /\ \A c \in DOMAIN state.branches : state'.branches[c] = state.branches[c]
        /\ \A f \in StateFields \ {"branches", "wm_branch"} : state'[f] = state[f]
    BY ZenonT(60), <1>5, <1>7, <1>9
  <2>3. StateInv(state') /\ Keeps(state, state') /\ SameOwners(state, state')
    BY ZenonT(60), <1>t, <1>1, <2>1, <2>2, ForkedInv
  <2> QED BY <1>4, <2>3, HandlerStep
<1> QED BY <1>3, <1>8, <1>9

\* revise_hypothesis, retire_branch, cancel_trial, cancel_experiment
LEMMA ClosingSteps ==
  ASSUME AuthorityInvariant,
         \/ ReviseHypothesis \/ CancelExperiment
         \/ \E b \in 1 .. MaxBranches : RetireBranch(b)
         \/ \E t \in 1 .. MaxTrialId : CancelTrial(t)
  PROVE  AuthorityInvariant' /\ Keeps(disk, disk')
<1>t. StateInv(state)
  BY ZenonT(60) DEF AuthorityInvariant
<1>1. CASE ReviseHypothesis
  <2>1. StateInv(state') /\ Keeps(state, state') /\ SameOwners(state, state')
    BY ZenonT(120), <1>t, <1>1, ReviseInv DEF ReviseHypothesis
  <2>2. (disk' = state' \/ disk' = disk) /\ faults' \in Nat /\ UNCHANGED Volatile /\ phase = "up"
    BY ZenonT(60), <1>1, Persisted DEF ReviseHypothesis
  <2> QED BY ZenonT(60), <2>1, <2>2, HandlerStep
<1>2. CASE CancelExperiment
  <2>1. StateInv(state') /\ Keeps(state, state') /\ SameOwners(state, state')
    BY ZenonT(120), <1>t, <1>2, CancelExperimentInv DEF CancelExperiment
  <2>2. (disk' = state' \/ disk' = disk) /\ faults' \in Nat /\ UNCHANGED Volatile /\ phase = "up"
    BY ZenonT(60), <1>2, Persisted DEF CancelExperiment
  <2> QED BY <2>1, <2>2, HandlerStep
<1>3. ASSUME NEW b \in 1 .. MaxBranches, RetireBranch(b) PROVE AuthorityInvariant' /\ Keeps(disk, disk')
  <2>1. b \in DOMAIN state.branches
    BY ZenonT(120), <1>3 DEF RetireBranch
  <2>2. StateInv(state') /\ Keeps(state, state') /\ SameOwners(state, state')
    BY ZenonT(120), <1>t, <1>3, <2>1, RetireInv DEF RetireBranch
  <2>3. (disk' = state' \/ disk' = disk) /\ faults' \in Nat /\ UNCHANGED Volatile /\ phase = "up"
    BY ZenonT(120), <1>3, Persisted DEF RetireBranch
  <2> QED BY ZenonT(60), <2>2, <2>3, HandlerStep
<1>4. ASSUME NEW t \in 1 .. MaxTrialId, CancelTrial(t) PROVE AuthorityInvariant' /\ Keeps(disk, disk')
  <2>1. t \in OpenTrials(state)
    BY ZenonT(120), <1>4 DEF CancelTrial
  <2>2. StateInv(state') /\ Keeps(state, state') /\ SameOwners(state, state')
    BY ZenonT(120), <1>t, <1>4, <2>1, CancelTrialInv DEF CancelTrial
  <2>3. (disk' = state' \/ disk' = disk) /\ faults' \in Nat /\ UNCHANGED Volatile /\ phase = "up"
    BY ZenonT(120), <1>4, Persisted DEF CancelTrial
  <2> QED BY ZenonT(60), <2>2, <2>3, HandlerStep
<1> QED BY ZenonT(60), <1>1, <1>2, <1>3, <1>4

\* finalize_experiment
LEMMA FinalizeStep ==
  ASSUME AuthorityInvariant, NEW c \in Nat, NEW outcome \in DecisionOutcomes,
         FinalizeExperiment(c, outcome)
  PROVE  AuthorityInvariant' /\ Keeps(disk, disk')
<1> DEFINE d == Append(state.decisions, [candidate |-> c, outcome |-> outcome])
           x == StateAfter(outcome, state.exp)
           p == IF outcome \in {"ACCEPT", "REJECT", "INVALID"}
                THEN Append(state.rollback_points,
                            [generation |-> state.generation, authority |-> Snapshots(state)])
                ELSE state.rollback_points
<1>t. StateType(state)
  BY ZenonT(60) DEF AuthorityInvariant, TypeOK
<1>1. d \in Seq(DecisionRecord)
  <2>1. [candidate |-> c, outcome |-> outcome] \in DecisionRecord
    BY DEF DecisionRecord
  <2> QED BY <1>t, <2>1 DEF StateType
<1>2. x \in ExperimentStates
  <2>1. state.exp \in ExperimentStates
    BY <1>t DEF StateType
  <2>2. CASE outcome \in {"ACCEPT", "REJECT", "INVALID"}
    BY <2>2 DEF StateAfter, ExperimentStates
  <2>3. CASE outcome = "CANCELLED"
    BY <2>3 DEF StateAfter, ExperimentStates
  <2>4. CASE outcome = "SUPERSEDED"
    BY <2>4 DEF StateAfter, ExperimentStates
  <2>5. CASE outcome \in {"INCONCLUSIVE", "INSUFFICIENT_EVIDENCE"}
    BY ZenonT(60), <2>1, <2>5 DEF StateAfter
  <2> QED BY ZenonT(60), <2>2, <2>3, <2>4, <2>5 DEF DecisionOutcomes
<1>3. p \in Seq(RollbackPoint)
  <2>1. \A b \in DOMAIN state.branches : state.branches[b] \in BranchRecord /\ b \in Nat
    BY ZenonT(60), <1>t DEF StateType, IsMap
  <2>2. Snapshots(state) \subseteq BranchSnapshot
    BY SMTT(60), <2>1 DEF Snapshots, BranchSnapshot, BranchRecord
  <2>3. [generation |-> state.generation, authority |-> Snapshots(state)] \in RollbackPoint
    BY <1>t, <2>2 DEF RollbackPoint, StateType
  <2> QED BY SMTT(60), <1>t, <2>3 DEF StateType
<1>4. state' = [state EXCEPT !.decisions = d, !.exp = x, !.rollback_points = p]
  BY DEF FinalizeExperiment
<1> HIDE DEF d, x, p
<1>5. /\ DOMAIN state' = StateFields /\ state'.decisions = d /\ state'.exp = x
      /\ state'.rollback_points = p
      /\ \A f \in StateFields \ {"decisions", "exp", "rollback_points"} : state'[f] = state[f]
  BY ZenonT(120), <1>t, <1>4 DEF StateType, StateFields
<1>6. StateType(state')
  BY ZenonT(60), <1>t, <1>1, <1>2, <1>3, <1>5 DEF StateType, StateFields
<1>7. /\ state'.branches = state.branches /\ state'.trials = state.trials
      /\ state'.attempts = state.attempts /\ state'.generation = state.generation
      /\ state'.hypothesis_revision = state.hypothesis_revision
      /\ state'.observations = state.observations
      /\ state'.wm_branch = state.wm_branch /\ state'.wm_trial = state.wm_trial
      /\ state'.wm_attempt = state.wm_attempt
  BY ZenonT(60), <1>5 DEF StateFields
<1>8. /\ state.wm_branch <= state'.wm_branch /\ state.wm_trial <= state'.wm_trial
      /\ state.wm_attempt <= state'.wm_attempt
  BY ZenonT(60), <1>t, <1>7, SameWatermarks
<1>9. (disk' = state' \/ disk' = disk) /\ faults' \in Nat /\ UNCHANGED Volatile /\ phase = "up"
  BY Persisted DEF FinalizeExperiment
<1> QED BY ZenonT(60), <1>6, <1>7, <1>8, <1>9, AsideStep

\* rollback
LEMMA RollbackStep ==
  ASSUME AuthorityInvariant, NEW g, Rollback(g)
  PROVE  AuthorityInvariant' /\ Keeps(disk, disk')
<1>t. StateType(state) /\ StateInv(state)
  BY ZenonT(60) DEF AuthorityInvariant, TypeOK
<1>1. PICK n \in DOMAIN state.rollback_points :
        state' = RolledBack(state, state.rollback_points[n])
  BY DEF Rollback
<1>2. state.rollback_points[n] \in RollbackPoint
  <2>1. state.rollback_points \in Seq(RollbackPoint)
    BY ZenonT(60), <1>t DEF StateType
  <2> QED BY SMTT(60), <2>1
<1>3. StateInv(state') /\ Keeps(state, state') /\ SameOwners(state, state')
  BY ZenonT(60), <1>t, <1>1, <1>2, RollbackInv
<1>4. (disk' = state' \/ disk' = disk) /\ faults' \in Nat /\ UNCHANGED Volatile /\ phase = "up"
  <2>1. faults \in Nat
    BY ZenonT(60) DEF AuthorityInvariant, TypeOK
  <2> QED BY ZenonT(60), <2>1, Persisted DEF Rollback
<1> QED BY ZenonT(60), <1>3, <1>4, HandlerStep

\* The control plane: nothing durable changes but the image.
LEMMA ServerStep ==
  ASSUME AuthorityInvariant, StartServer \/ RequestShutdown \/ StopServer
  PROVE  AuthorityInvariant' /\ Keeps(disk, disk')
<1>t. TypeOK /\ StateInv(state) /\ Keeps(disk, state)
  BY DEF AuthorityInvariant
<1>1. /\ phase = "up" /\ phase' = "up" /\ state' = state /\ epoch' = epoch /\ live' = live
      /\ issued' = issued /\ acked' = acked /\ crashes' = crashes
      /\ admitting' \in BOOLEAN /\ server' \in BOOLEAN
  BY ZenonT(120), <1>t DEF StartServer, RequestShutdown, StopServer, TypeOK
<1>2. (disk' = state' \/ disk' = disk) /\ faults' \in Nat
  <2>1. CASE StopServer
    BY ZenonT(60), <2>1, Persisted DEF StopServer
  <2>2. CASE StartServer \/ RequestShutdown
    BY ZenonT(60), <2>2, <1>t DEF StartServer, RequestShutdown, TypeOK
  <2> QED BY ZenonT(60), <2>1, <2>2
<1>3. LiveAttemptHasLiveOwner'
  BY ZenonT(120), <1>1 DEF AuthorityInvariant, LiveAttemptHasLiveOwner
<1> QED BY ZenonT(60), <1>t, <1>1, <1>2, <1>3, ServingStep DEF TypeOK

\* A step that ends with the process down, or up and recovering, with a consistent
\* memory that keeps what the image has settled.
LEMMA DownStep ==
  ASSUME AuthorityInvariant, phase' \in {"down", "reconciling"},
         StateInv(state'), Keeps(disk, state'), disk' = state' \/ disk' = disk,
         phase' = "reconciling" =>
           \A t \in OpenTrials(state') : state'.trials[t].state = "REVALIDATION_REQUIRED",
         epoch' \in Nat \ {0},
         DOMAIN live' \subseteq Incarnation, live' \in [DOMAIN live' -> LiveWorker],
         admitting' \in BOOLEAN, server' \in BOOLEAN,
         issued' = issued, acked' = acked, crashes' \in Nat, faults' \in Nat
  PROVE  AuthorityInvariant' /\ Keeps(disk, disk')
<1>1. StateInv(disk') /\ StateType(disk') /\ StateType(state')
  BY ZenonT(60) DEF AuthorityInvariant, StateInv
<1>2. TypeOK'
  BY ZenonT(60), <1>1 DEF TypeOK, AuthorityInvariant
<1>3. Keeps(disk, disk') /\ Keeps(disk', state')
  BY ZenonT(60), KeepsReflexive
<1>4. AckedCommitIsDurable'
  <2> SUFFICES ASSUME NEW x \in acked
               PROVE  /\ x[1] \in DOMAIN disk'.trials /\ x[2] \in DOMAIN disk'.attempts
                      /\ disk'.trials[x[1]].state = "COMPLETED"
                      /\ disk'.trials[x[1]].authoritative_attempt = x[2]
                      /\ disk'.attempts[x[2]].committed
    BY ZenonT(60) DEF AckedCommitIsDurable
  <2>1. /\ x[1] \in DOMAIN disk.trials /\ x[2] \in DOMAIN disk.attempts
        /\ disk.trials[x[1]].state = "COMPLETED"
        /\ disk.trials[x[1]].authoritative_attempt = x[2]
        /\ disk.attempts[x[2]].committed
    BY ZenonT(60) DEF AuthorityInvariant, AckedCommitIsDurable
  <2>2. x[1] \in DOMAIN disk'.trials /\ disk'.trials[x[1]] = disk.trials[x[1]]
    BY ZenonT(60), <1>3, <2>1 DEF Keeps, is_terminal
  <2>3. x[2] \in DOMAIN disk'.attempts /\ disk'.attempts[x[2]] = disk.attempts[x[2]]
    BY ZenonT(60), <1>3, <2>1 DEF Keeps
  <2> QED BY ZenonT(60), <2>1, <2>2, <2>3
<1>5. LiveAttemptHasLiveOwner'
  BY DEF LiveAttemptHasLiveOwner
<1> QED BY ZenonT(60), <1>1, <1>2, <1>3, <1>4, <1>5 DEF AuthorityInvariant

\* A crash goes back to the image.
LEMMA CrashStep ==
  ASSUME AuthorityInvariant, Crash
  PROVE  AuthorityInvariant' /\ Keeps(disk, disk')
<1>1. /\ phase' = "down" /\ state' = disk /\ disk' = disk /\ epoch' = epoch
      /\ admitting' = TRUE /\ server' = FALSE /\ issued' = issued /\ acked' = acked
      /\ faults' = faults /\ crashes' = crashes + 1 /\ live' = [i \in {} |-> NoId]
  BY ZenonT(60) DEF Crash
<1>2. crashes' \in Nat
  BY <1>1 DEF AuthorityInvariant, TypeOK
<1>3. DOMAIN live' \subseteq Incarnation /\ live' \in [DOMAIN live' -> LiveWorker]
  BY ZenonT(60), <1>1
<1>4. StateInv(state') /\ Keeps(disk, state')
  BY ZenonT(60), <1>1, KeepsReflexive DEF AuthorityInvariant
<1> QED BY ZenonT(120), <1>1, <1>2, <1>3, <1>4, DownStep DEF AuthorityInvariant, TypeOK

\* The epoch of a restart is a proper one.
LEMMA NextEpochType ==
  ASSUME NEW l \in Nat
  PROVE  NextEpoch(l) \in Nat \ {0}
BY BoundsAssumption DEF NextEpoch

\* Coordinator::create and the first pass of recovery
LEMMA CreateStep ==
  ASSUME AuthorityInvariant, Create
  PROVE  AuthorityInvariant' /\ Keeps(disk, disk')
<1> DEFINE e == NextEpoch(disk.last_epoch)
           loaded == [disk EXCEPT !.last_epoch = e]
           r == Demoted(loaded)
<1>t. TypeOK /\ StateInv(disk) /\ StateInv(state) /\ Keeps(disk, state) /\ StateType(disk)
  BY DEF AuthorityInvariant, TypeOK
<1>1. e \in Nat \ {0}
  BY ZenonT(120), <1>t, NextEpochType DEF StateType
<1> HIDE DEF e
<1>2. loaded.last_epoch = e /\ loaded.attempts = disk.attempts
  BY <1>t DEF StateType, StateFields
<1>3. /\ StateInv(r) /\ Keeps(disk, r) /\ SameOwners(disk, r)
      /\ \A t \in OpenTrials(r) : r.trials[t].state = "REVALIDATION_REQUIRED"
  BY ZenonT(60), <1>t, <1>1, DemotedInv
<1>4. /\ phase = "down" /\ live' = live /\ admitting' = admitting /\ server' = server
      /\ issued' = issued /\ acked' = acked /\ crashes' = crashes
  BY ZenonT(60) DEF Create
<1> HIDE DEF r
<1>5. CASE ~RecoveryTouches(loaded)
  <2>1. phase' = "up" /\ epoch' = e /\ state' = r /\ disk' = disk /\ faults' = faults
    BY ZenonT(120), <1>2, <1>5 DEF Create, e, r
  <2>2. LiveAttempts(state') = {}
    <3>1. LiveAttempts(loaded) = {}
      BY <1>5 DEF RecoveryTouches
    <3>2. LiveAttempts(disk) = {}
      BY ZenonT(60), <1>2, <3>1 DEF LiveAttempts
    <3> QED BY ZenonT(60), <1>3, <2>1, <3>2 DEF SameOwners
  <2>3. LiveAttemptHasLiveOwner'
    BY ZenonT(60), <2>2 DEF LiveAttemptHasLiveOwner
  <2> QED BY ZenonT(60), <1>t, <1>1, <1>3, <1>4, <2>1, <2>3, ServingStep DEF TypeOK
<1>6. CASE RecoveryTouches(loaded)
  <2>1. PICK ok \in BOOLEAN :
          /\ epoch' = e /\ phase' = IF ok THEN "reconciling" ELSE "down"
          /\ IF ok THEN state' = r /\ persist_locked(TRUE) ELSE state' = state /\ persist_locked(FALSE)
    BY ZenonT(120), <1>2, <1>6 DEF Create, e, r
  <2>2. (disk' = state' \/ disk' = disk) /\ faults' \in Nat
    BY ZenonT(120), <2>1, Persisted
  <2>3. CASE ok
    BY ZenonT(60), <1>t, <1>1, <1>3, <1>4, <2>1, <2>2, <2>3, DownStep DEF TypeOK
  <2>4. CASE ~ok
    BY ZenonT(60), <1>t, <1>1, <1>4, <2>1, <2>2, <2>4, DownStep DEF TypeOK
  <2> QED BY <2>3, <2>4
<1> QED BY ZenonT(60), <1>5, <1>6

\* The second pass of recovery
LEMMA ReconcileStep ==
  ASSUME AuthorityInvariant, Reconcile
  PROVE  AuthorityInvariant' /\ Keeps(disk, disk')
<1> DEFINE r == Resolved(state)
<1>t. TypeOK /\ StateInv(disk) /\ StateInv(state) /\ Keeps(disk, state)
  BY DEF AuthorityInvariant
<1>1. /\ phase = "reconciling" /\ epoch' = epoch /\ live' = live /\ admitting' = admitting
      /\ server' = server /\ issued' = issued /\ acked' = acked /\ crashes' = crashes
  BY ZenonT(60) DEF Reconcile
<1>2. \A t \in OpenTrials(state) : state.trials[t].state = "REVALIDATION_REQUIRED"
  BY ZenonT(60), <1>1 DEF AuthorityInvariant
<1>3. StateInv(r) /\ Keeps(state, r) /\ LiveAttempts(r) = {}
  BY ZenonT(60), <1>t, <1>2, ResolvedInv
<1> HIDE DEF r
<1>4. PICK ok \in BOOLEAN :
        /\ phase' = IF ok THEN "up" ELSE "down"
        /\ IF ok THEN state' = r /\ persist_locked(TRUE) ELSE state' = disk /\ persist_locked(FALSE)
  BY ZenonT(120) DEF Reconcile, r
<1>5. (disk' = state' \/ disk' = disk) /\ faults' \in Nat
  BY ZenonT(120), <1>4, Persisted
<1>6. CASE ok
  <2>1. state' = r /\ phase' = "up"
    BY <1>4, <1>6
  <2>2. LiveAttemptHasLiveOwner'
    BY ZenonT(120), <1>3, <2>1 DEF LiveAttemptHasLiveOwner
  <2>3. Keeps(disk, state')
    BY ZenonT(60), <1>t, <1>3, <2>1, KeepsTransitive
  <2> QED BY ZenonT(60), <1>t, <1>1, <1>3, <1>5, <2>1, <2>2, <2>3, ServingStep DEF TypeOK
<1>7. CASE ~ok
  <2>1. state' = disk /\ phase' = "down"
    BY <1>4, <1>7
  <2> QED BY ZenonT(60), <1>t, <1>1, <1>5, <2>1, KeepsReflexive, DownStep DEF TypeOK
<1> QED BY <1>6, <1>7
=============================================================================
