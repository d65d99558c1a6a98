----------------------- MODULE StateInvariantsProofs -----------------------
(***************************************************************************)
(* Lemmas about coordinator states.                                        *)
(*                                                                         *)
(* A handler turns the state s in memory into a state r.  The first part   *)
(* is about the handlers that close work, the ones that move it on (an     *)
(* observation, the first pass of recovery, a commit) and the ones that    *)
(* add branches, trials and attempts: r satisfies StateInv when s does, r  *)
(* keeps what s has settled, and the live attempts of r have the owners    *)
(* they have in s.                                                         *)
(*                                                                         *)
(* The second part is about the books: the head-room of a worker, the      *)
(* numbers of the attempts, the counts that validate makes of an image     *)
(* before it is loaded, and the steps an attempt may take.  When work only *)
(* moves on (no trial, attempt, branch or artifact comes or goes) the      *)
(* books of s are those of r; a claim keeps them; and the counters agree   *)
(* with what is counted again.                                             *)
(***************************************************************************)
EXTENDS StateInvariants, FiniteSetTheorems, TLAPS

-----------------------------------------------------------------------------
(***************************************************************************)
(* Facts about states.                                                     *)
(***************************************************************************)

\* The live attempts of r are live in s, with the owner they have there.
SameOwners(s, r) ==
  \A a \in LiveAttempts(r) :
    /\ a \in LiveAttempts(s)
    /\ r.attempts[a].inc = s.attempts[a].inc
    /\ r.attempts[a].epoch = s.attempts[a].epoch
    /\ r.attempts[a].producer = s.attempts[a].producer

\* The states an open trial and a live attempt are closed with.
TrialClosings == {"FAILED", "CANCELLED", "SUPERSEDED"}
AttemptClosings == {"FAILED", "CANCELLED", "ABANDONED"}

\* r is s after the open trials T have been requeued or closed and the live
\* attempts A, all of those of T included, have been closed.
Closes(s, r, T, A) ==
  /\ T \subseteq OpenTrials(s) /\ A \subseteq LiveAttempts(s)
  /\ DOMAIN r.trials = DOMAIN s.trials /\ DOMAIN r.attempts = DOMAIN s.attempts
  /\ r.trials = [t \in DOMAIN s.trials |-> r.trials[t]]
  /\ r.attempts = [a \in DOMAIN s.attempts |-> r.attempts[a]]
  /\ \A t \in DOMAIN s.trials : t \notin T => r.trials[t] = s.trials[t]
  /\ \A t \in T : \/ r.trials[t] = Requeued(s.trials[t])
                  \/ \E st \in TrialClosings : r.trials[t] = [s.trials[t] EXCEPT !.state = st]
  /\ \A a \in DOMAIN s.attempts : a \notin A => r.attempts[a] = s.attempts[a]
  /\ \A a \in A : \E st \in AttemptClosings : r.attempts[a] = [s.attempts[a] EXCEPT !.state = st]
  /\ \A a \in LiveAttempts(s) : s.attempts[a].trial \in T => a \in A

\* The fields of a trial and of an attempt after it was requeued or closed.
LEMMA ClosedFields ==
  ASSUME NEW s, StateType(s), NEW r, NEW T, NEW A, Closes(s, r, T, A)
  PROVE  /\ \A t \in T :
              /\ r.trials[t].state \in TrialClosings \cup {"READY"}
              /\ r.trials[t].state = "READY" => r.trials[t].authoritative_attempt = NoId
              /\ \/ r.trials[t].authoritative_attempt = s.trials[t].authoritative_attempt
                 \/ r.trials[t].authoritative_attempt = NoId
              /\ r.trials[t].committed_attempts = s.trials[t].committed_attempts
              /\ r.trials[t].generation = s.trials[t].generation
              /\ r.trials[t].branch = s.trials[t].branch
              /\ r.trials[t].branch_generation = s.trials[t].branch_generation
              /\ r.trials[t].hypothesis_revision = s.trials[t].hypothesis_revision
         /\ \A a \in A :
              /\ r.attempts[a].state \in AttemptClosings
              /\ r.attempts[a].trial = s.attempts[a].trial
              /\ r.attempts[a].committed = s.attempts[a].committed
<1>1. ASSUME NEW t \in T
      PROVE  /\ r.trials[t].state \in TrialClosings \cup {"READY"}
             /\ r.trials[t].state = "READY" => r.trials[t].authoritative_attempt = NoId
             /\ \/ r.trials[t].authoritative_attempt = s.trials[t].authoritative_attempt
                \/ r.trials[t].authoritative_attempt = NoId
             /\ r.trials[t].committed_attempts = s.trials[t].committed_attempts
             /\ r.trials[t].generation = s.trials[t].generation
             /\ r.trials[t].branch = s.trials[t].branch
             /\ r.trials[t].branch_generation = s.trials[t].branch_generation
             /\ r.trials[t].hypothesis_revision = s.trials[t].hypothesis_revision
  <2>1. s.trials[t] \in TrialRecord
    BY DEF Closes, OpenTrials, StateType, IsMap
  <2>2. CASE r.trials[t] = Requeued(s.trials[t])
    BY <2>1, <2>2 DEF Requeued, TrialRecord
  <2>3. CASE \E st \in TrialClosings : r.trials[t] = [s.trials[t] EXCEPT !.state = st]
    BY <2>1, <2>3 DEF TrialClosings, TrialRecord
  <2> QED BY ZenonT(120), <2>2, <2>3 DEF Closes
<1>2. ASSUME NEW a \in A
      PROVE  /\ r.attempts[a].state \in AttemptClosings
             /\ r.attempts[a].trial = s.attempts[a].trial
             /\ r.attempts[a].committed = s.attempts[a].committed
  <2>1. s.attempts[a] \in AttemptRecord
    BY DEF Closes, LiveAttempts, StateType, IsMap
  <2> QED BY ZenonT(120), <2>1 DEF Closes, AttemptRecord
<1> QED BY <1>1, <1>2

\* The records that result are records of trials and attempts.
LEMMA ClosedType ==
  ASSUME NEW s, StateType(s), NEW r, NEW T, NEW A, Closes(s, r, T, A)
  PROVE  IsMap(r.trials, TrialRecord) /\ IsMap(r.attempts, AttemptRecord)
<1>1. ASSUME NEW t \in DOMAIN s.trials PROVE r.trials[t] \in TrialRecord
  <2>1. s.trials[t] \in TrialRecord
    BY DEF StateType, IsMap
  <2>2. CASE r.trials[t] = Requeued(s.trials[t])
    <3>1. s.trials[t].attempt_count + 1 \in Nat /\ NoId \in Nat
      BY <2>1 DEF TrialRecord, NoId
    <3>2. "READY" \in TrialStates
      BY DEF TrialStates
    <3> HIDE DEF NoId
    <3> QED BY ZenonT(120), <2>1, <2>2, <3>1, <3>2 DEF Requeued, TrialRecord
  <2>3. CASE \E st \in TrialClosings : r.trials[t] = [s.trials[t] EXCEPT !.state = st]
    BY <2>1, <2>3 DEF TrialClosings, TrialRecord, TrialStates
  <2> QED BY ZenonT(120), <2>1, <2>2, <2>3 DEF Closes
<1>2. ASSUME NEW a \in DOMAIN s.attempts PROVE r.attempts[a] \in AttemptRecord
  <2>1. s.attempts[a] \in AttemptRecord
    BY DEF StateType, IsMap
  <2>2. CASE \E st \in AttemptClosings : r.attempts[a] = [s.attempts[a] EXCEPT !.state = st]
    BY <2>1, <2>2 DEF AttemptClosings, AttemptRecord, AttemptStates
  <2> QED BY ZenonT(120), <2>1, <2>2 DEF Closes
<1> QED BY ZenonT(120), <1>1, <1>2 DEF Closes, StateType, IsMap

\* Closing trials and attempts keeps the authority invariants of the state, and
\* whatever the state had settled.
LEMMA ClosedAuthority ==
  ASSUME NEW s, StateInv(s), NEW r, NEW T, NEW A, Closes(s, r, T, A)
  PROVE  /\ AuthorityIsOwn(r) /\ LiveOnItsBranch(r)
         /\ LiveIsAuthoritative(r) /\ CommitIsUnique(r) /\ Keeps(s, r)
<1> USE DEF StateInv
<1>f. /\ \A t \in T :
           /\ r.trials[t].state \in TrialClosings \cup {"READY"}
           /\ r.trials[t].state = "READY" => r.trials[t].authoritative_attempt = NoId
           /\ \/ r.trials[t].authoritative_attempt = s.trials[t].authoritative_attempt
              \/ r.trials[t].authoritative_attempt = NoId
           /\ r.trials[t].committed_attempts = s.trials[t].committed_attempts
           /\ r.trials[t].branch = s.trials[t].branch
      /\ \A a \in A :
           /\ r.attempts[a].state \in AttemptClosings
           /\ r.attempts[a].trial = s.attempts[a].trial
           /\ r.attempts[a].committed = s.attempts[a].committed
  BY ClosedFields
<1>d. /\ T \subseteq OpenTrials(s) /\ A \subseteq LiveAttempts(s)
      /\ DOMAIN r.trials = DOMAIN s.trials /\ DOMAIN r.attempts = DOMAIN s.attempts
      /\ \A t \in DOMAIN s.trials : t \notin T => r.trials[t] = s.trials[t]
      /\ \A a \in DOMAIN s.attempts : a \notin A => r.attempts[a] = s.attempts[a]
      /\ \A a \in LiveAttempts(s) : s.attempts[a].trial \in T => a \in A
  BY ZenonT(120) DEF Closes
<1>l. LiveAttempts(r) = LiveAttempts(s) \ A
  BY <1>f, <1>d DEF LiveAttempts, is_attempt_terminal, AttemptClosings
<1>o. \A t \in OpenTrials(s) : t \notin T => t \in OpenTrials(r)
  BY <1>d DEF OpenTrials
<1>t. \A a \in DOMAIN s.attempts : r.attempts[a].trial = s.attempts[a].trial
  BY ZenonT(60), <1>f, <1>d
<1>1. AuthorityIsOwn(r)
  BY <1>f, <1>d, <1>t DEF AuthorityIsOwn
<1>2. LiveIsAuthoritative(r)
  BY <1>d, <1>l, <1>o DEF LiveIsAuthoritative, LiveAttempts, OpenTrials
<1>3. LiveOnItsBranch(r)
  BY <1>d, <1>l DEF LiveIsAuthoritative, LiveOnItsBranch, LiveAttempts, OpenTrials
<1>4. \A a \in DOMAIN s.attempts : s.attempts[a].committed => a \notin A
  BY <1>d DEF CommitIsUnique, LiveAttempts, is_attempt_terminal
<1>5. \A t \in DOMAIN s.trials : is_terminal(s.trials[t].state) => t \notin T
  BY <1>d DEF OpenTrials
<1>6. Keeps(s, r)
  BY ZenonT(60), <1>d, <1>4, <1>5 DEF Keeps
<1>7. \A t \in T : s.trials[t].committed_attempts # 1 /\ r.trials[t].state # "COMPLETED"
  BY <1>f, <1>d, <1>5 DEF CommitIsUnique, is_terminal, TrialClosings, OpenTrials
<1>8. \A a \in DOMAIN s.attempts : r.attempts[a].committed = s.attempts[a].committed
  BY ZenonT(60), <1>f, <1>d
<1>9. CommitIsUnique(r)
  <2>1. ASSUME NEW a \in DOMAIN r.attempts, r.attempts[a].committed
        PROVE  /\ r.attempts[a].state = "COMPLETED"
               /\ r.attempts[a].trial \in DOMAIN r.trials
               /\ r.trials[r.attempts[a].trial].state = "COMPLETED"
               /\ r.trials[r.attempts[a].trial].authoritative_attempt = a
    <3>1. s.attempts[a].committed /\ a \in DOMAIN s.attempts /\ a \notin A
      BY ZenonT(60), <2>1, <1>8, <1>d, <1>4
    <3>2. s.attempts[a].trial \notin T
      BY <3>1, <1>5 DEF CommitIsUnique, is_terminal
    <3> QED BY <3>1, <3>2, <1>d DEF CommitIsUnique
  <2>2. ASSUME NEW t \in DOMAIN r.trials
        PROVE  /\ r.trials[t].committed_attempts = 1 <=> r.trials[t].state = "COMPLETED"
               /\ r.trials[t].state = "COMPLETED" =>
                    \E a \in DOMAIN r.attempts : r.attempts[a].trial = t /\ r.attempts[a].committed
    <3>1. CASE t \in T
      BY ZenonT(60), <3>1, <1>7, <1>f
    <3>2. CASE t \notin T
      BY <3>2, <1>d, <1>t, <1>8 DEF CommitIsUnique
    <3> QED BY <3>1, <3>2
  <2> QED BY ZenonT(60), <2>1, <2>2 DEF CommitIsUnique
<1> QED BY ZenonT(60), <1>1, <1>2, <1>3, <1>6, <1>9

\* A state that only differs by closings, and whose open trials are current.
LEMMA ClosedInv ==
  ASSUME NEW s, StateInv(s), NEW r, NEW T, NEW A, Closes(s, r, T, A),
         StateType(r), OpenIsCurrent(r), r.observations = s.observations,
         r.wm_trial = s.wm_trial, r.wm_attempt = s.wm_attempt,
         r.wm_branch = s.wm_branch, DOMAIN r.branches = DOMAIN s.branches
  PROVE  StateInv(r) /\ Keeps(s, r) /\ SameOwners(s, r)
<1>1. /\ AuthorityIsOwn(r) /\ LiveOnItsBranch(r)
      /\ LiveIsAuthoritative(r) /\ CommitIsUnique(r) /\ Keeps(s, r)
  BY ClosedAuthority
<1>2. ValidWatermarks(r)
  BY DEF StateInv, ValidWatermarks, Closes
<1>3. RestsOnEvidence(r)
  <2>1. ASSUME NEW t \in DOMAIN r.trials, r.trials[t].state = "COMPLETED"
        PROVE  r.trials[t] = s.trials[t] /\ t \in DOMAIN s.trials
    <3>1. \A u \in T : r.trials[u].state \in TrialClosings \cup {"READY"}
      BY ClosedFields DEF StateInv
    <3> QED BY ZenonT(120), <2>1, <3>1 DEF Closes, TrialClosings
  <2> QED BY <2>1 DEF StateInv, RestsOnEvidence, ObservationsOf
<1>4. SameOwners(s, r)
  <2>1. \A a \in A : r.attempts[a].state \in AttemptClosings
    BY ClosedFields DEF StateInv
  <2>2. \A a \in LiveAttempts(r) : a \in DOMAIN s.attempts /\ r.attempts[a] = s.attempts[a]
    BY ZenonT(120), <2>1 DEF Closes, LiveAttempts, AttemptClosings, is_attempt_terminal
  <2> QED BY ZenonT(60), <2>2 DEF SameOwners, LiveAttempts
<1> QED BY <1>1, <1>2, <1>3, <1>4 DEF StateInv

\* With the same generations in force, closing leaves the open trials current.
LEMMA ClosedCurrent ==
  ASSUME NEW s, StateInv(s), NEW r, NEW T, NEW A, Closes(s, r, T, A),
         r.generation = s.generation, r.hypothesis_revision = s.hypothesis_revision,
         DOMAIN r.branches = DOMAIN s.branches,
         \A b \in DOMAIN s.branches : r.branches[b].generation = s.branches[b].generation
  PROVE  OpenIsCurrent(r)
<1> SUFFICES ASSUME NEW t \in OpenTrials(r)
             PROVE  /\ r.trials[t].generation = r.generation
                    /\ r.trials[t].hypothesis_revision = r.hypothesis_revision
                    /\ r.trials[t].branch \in DOMAIN r.branches
                    /\ r.trials[t].branch_generation = r.branches[r.trials[t].branch].generation
  BY DEF OpenIsCurrent
<1>1. t \in OpenTrials(s)
  BY ZenonT(120) DEF Closes, OpenTrials
<1>2. /\ r.trials[t].generation = s.trials[t].generation
      /\ r.trials[t].branch = s.trials[t].branch
      /\ r.trials[t].branch_generation = s.trials[t].branch_generation
      /\ r.trials[t].hypothesis_revision = s.trials[t].hypothesis_revision
  <2>1. CASE t \in T
    BY <2>1, ClosedFields DEF StateInv
  <2>2. CASE t \notin T
    BY ZenonT(120), <2>2, <1>1 DEF Closes, OpenTrials
  <2> QED BY ZenonT(60), <2>1, <2>2
<1> QED BY ZenonT(60), <1>1, <1>2 DEF StateInv, OpenIsCurrent

\* When every open trial is closed for good, no open trial is left to be stale.
LEMMA AllClosedCurrent ==
  ASSUME NEW s, StateInv(s), NEW r,
         DOMAIN r.trials = DOMAIN s.trials,
         \A t \in DOMAIN s.trials : t \notin OpenTrials(s) => r.trials[t] = s.trials[t],
         \A t \in OpenTrials(s) : is_terminal(r.trials[t].state)
  PROVE  OpenIsCurrent(r)
BY ZenonT(60) DEF OpenIsCurrent, OpenTrials

-----------------------------------------------------------------------------
(***************************************************************************)
(* The handlers that close trials and attempts.                            *)
(***************************************************************************)

\* SetTrials and SetAttempts, with a closing state, are a closing.
LEMMA SetCloses ==
  ASSUME NEW s, StateType(s), NEW r, NEW T, NEW A,
         T \subseteq OpenTrials(s), A \subseteq LiveAttempts(s),
         NEW st \in TrialClosings, NEW sa \in AttemptClosings,
         r.trials = SetTrials(s, T, st), r.attempts = SetAttempts(s, A, sa),
         \A a \in LiveAttempts(s) : s.attempts[a].trial \in T => a \in A
  PROVE  Closes(s, r, T, A)
BY DEF Closes, SetTrials, SetAttempts, OpenTrials, LiveAttempts

\* Losing the producers I: register_worker and revoke_worker.
LEMMA LoseProducersInv ==
  ASSUME NEW s, StateInv(s), NEW I
  PROVE  LET r == LoseProducers(s, I)
         IN  /\ StateInv(r) /\ Keeps(s, r) /\ SameOwners(s, r)
             /\ \A a \in LiveAttempts(r) : r.attempts[a].inc \notin I
<1> DEFINE r == LoseProducers(s, I)
           gone == {a \in LiveAttempts(s) : s.attempts[a].inc \in I}
           hit(t) == t \in OpenTrials(s) /\ \E a \in gone : /\ s.attempts[a].trial = t
                                                           /\ s.trials[t].authoritative_attempt = a
           T == {t \in DOMAIN s.trials : hit(t)}
           W == {IF w.inc \in I THEN [w EXCEPT !.revoked = TRUE] ELSE w : w \in s.workers}
           X == [t \in DOMAIN s.trials |->
                   IF hit(t) THEN Requeue(s.trials[t], RetryRemains(s.trials[t])) ELSE s.trials[t]]
<1>t. StateType(s)
  BY DEF StateInv
<1>w. W \subseteq WorkerIncarnation
  BY ZenonT(120), <1>t DEF StateType, WorkerIncarnation
<1>r. /\ r = [s EXCEPT !.attempts = SetAttempts(s, gone, "ABANDONED"), !.trials = X, !.workers = W]
  BY DEF LoseProducers
<1> HIDE DEF r, W, X
<1>1. /\ r.trials = X /\ r.attempts = SetAttempts(s, gone, "ABANDONED") /\ r.workers = W
      /\ DOMAIN r = StateFields
      /\ \A f \in StateFields \ {"trials", "attempts", "workers"} : r[f] = s[f]
  BY ZenonT(120), <1>t, <1>r DEF StateType, StateFields
<1>2. Closes(s, r, T, gone)
  <2>1. gone \subseteq LiveAttempts(s) /\ T \subseteq OpenTrials(s)
    OBVIOUS
  <2>2. \A a \in LiveAttempts(s) : s.attempts[a].trial \in T => a \in gone
    BY DEF StateInv, LiveIsAuthoritative
  <2>3. \A t \in DOMAIN s.trials : t \in T => \/ X[t] = Requeued(s.trials[t])
                                              \/ X[t] = [s.trials[t] EXCEPT !.state = "FAILED"]
    BY DEF X, Requeue
  <2>4. \A t \in DOMAIN s.trials : t \notin T => X[t] = s.trials[t]
    BY DEF X
  <2>5. DOMAIN X = DOMAIN s.trials /\ X = [t \in DOMAIN s.trials |-> X[t]]
    BY DEF X
  <2>6. "FAILED" \in TrialClosings /\ "ABANDONED" \in AttemptClosings
    BY ZenonT(60) DEF TrialClosings, AttemptClosings
  <2>7. /\ DOMAIN r.attempts = DOMAIN s.attempts
        /\ r.attempts = [a \in DOMAIN s.attempts |-> r.attempts[a]]
        /\ \A a \in DOMAIN s.attempts : a \notin gone => r.attempts[a] = s.attempts[a]
        /\ \A a \in gone : r.attempts[a] = [s.attempts[a] EXCEPT !.state = "ABANDONED"]
    BY <1>1, <2>1 DEF SetAttempts, LiveAttempts
  <2> HIDE DEF T, gone
  <2> QED BY ZenonT(120), <1>1, <2>1, <2>2, <2>3, <2>4, <2>5, <2>6, <2>7 DEF Closes, OpenTrials
<1>3. StateType(r)
  <2>1. IsMap(r.trials, TrialRecord) /\ IsMap(r.attempts, AttemptRecord)
    BY <1>2, <1>t, ClosedType
  <2> QED BY ZenonT(60), <1>1, <1>t, <1>w, <2>1 DEF StateType, StateFields
<1>4. /\ r.generation = s.generation /\ r.hypothesis_revision = s.hypothesis_revision
      /\ r.branches = s.branches /\ r.observations = s.observations
      /\ r.wm_trial = s.wm_trial /\ r.wm_attempt = s.wm_attempt /\ r.wm_branch = s.wm_branch
  BY <1>1 DEF StateFields
<1>5. OpenIsCurrent(r)
  BY ZenonT(60), <1>2, <1>4, ClosedCurrent
<1>6. StateInv(r) /\ Keeps(s, r) /\ SameOwners(s, r)
  BY <1>2, <1>3, <1>4, <1>5, ClosedInv
<1>7. \A a \in LiveAttempts(r) : r.attempts[a].inc \notin I
  <2>1. \A a \in gone : r.attempts[a].state \in AttemptClosings
    BY <1>2, <1>t, ClosedFields
  <2>2. \A a \in LiveAttempts(r) : a \notin gone /\ a \in DOMAIN s.attempts /\ r.attempts[a] = s.attempts[a]
    BY ZenonT(120), <2>1, <1>2 DEF Closes, LiveAttempts, AttemptClosings, is_attempt_terminal
  <2> QED BY ZenonT(60), <2>2 DEF LiveAttempts
<1> QED BY <1>6, <1>7 DEF r

\* Every open trial and every live attempt is closed, and the generation, the
\* revision and the branches may change with it: revise_hypothesis, rollback,
\* cancel_experiment.
LEMMA CloseAllInv ==
  ASSUME NEW s, StateInv(s), NEW r, NEW st \in TrialClosings, NEW sa \in AttemptClosings,
         DOMAIN r = StateFields,
         r.trials = SetTrials(s, OpenTrials(s), st),
         r.attempts = SetAttempts(s, LiveAttempts(s), sa),
         r.exp \in ExperimentStates,
         r.generation \in Nat \ {0}, r.hypothesis_revision \in Nat \ {0},
         IsMap(r.branches, BranchRecord), DOMAIN r.branches = DOMAIN s.branches,
         r.rollback_points \in Seq(RollbackPoint),
         \A f \in {"observations", "artifacts", "rejected", "decisions", "workers", "last_epoch",
                   "next_worker_registration_sequence", "wm_branch", "wm_trial", "wm_attempt"} :
            r[f] = s[f]
  PROVE  StateInv(r) /\ Keeps(s, r) /\ SameOwners(s, r)
<1>t. StateType(s)
  BY DEF StateInv
<1>1. Closes(s, r, OpenTrials(s), LiveAttempts(s))
  BY <1>t, SetCloses
<1>2. IsMap(r.trials, TrialRecord) /\ IsMap(r.attempts, AttemptRecord)
  BY ZenonT(60), <1>1, <1>t, ClosedType
<1>3. /\ r.observations = s.observations /\ r.artifacts = s.artifacts /\ r.rejected = s.rejected
      /\ r.decisions = s.decisions /\ r.workers = s.workers /\ r.last_epoch = s.last_epoch
      /\ r.next_worker_registration_sequence = s.next_worker_registration_sequence
      /\ r.wm_branch = s.wm_branch /\ r.wm_trial = s.wm_trial /\ r.wm_attempt = s.wm_attempt
  OBVIOUS
<1>4. StateType(r)
  BY ZenonT(60), <1>t, <1>2, <1>3 DEF StateType
<1>5. OpenIsCurrent(r)
  <2>1. \A t \in OpenTrials(s) : is_terminal(r.trials[t].state)
    <3>1. \A t \in OpenTrials(s) : r.trials[t] = [s.trials[t] EXCEPT !.state = st] /\ s.trials[t] \in TrialRecord
      BY <1>t DEF SetTrials, OpenTrials, StateType, IsMap
    <3> QED BY ZenonT(120), <3>1 DEF TrialRecord, is_terminal, TrialClosings
  <2> QED BY ZenonT(120), <2>1, AllClosedCurrent DEF SetTrials
<1> QED BY ZenonT(60), <1>1, <1>3, <1>4, <1>5, ClosedInv

\* revise_hypothesis preserves the invariant of a state.
LEMMA ReviseInv ==
  ASSUME NEW s, StateInv(s)
  PROVE  LET r == [abandon_stale_live_work(s) EXCEPT !.hypothesis_revision = @ + 1,
                                                     !.generation = @ + 1]
         IN  StateInv(r) /\ Keeps(s, r) /\ SameOwners(s, r)
<1> DEFINE r == [abandon_stale_live_work(s) EXCEPT !.hypothesis_revision = @ + 1,
                                                   !.generation = @ + 1]
<1>t. StateType(s)
  BY DEF StateInv
<1>1. /\ DOMAIN r = StateFields
      /\ r.trials = SetTrials(s, OpenTrials(s), "SUPERSEDED")
      /\ r.attempts = SetAttempts(s, LiveAttempts(s), "ABANDONED")
      /\ r.exp = s.exp /\ r.generation = s.generation + 1
      /\ r.hypothesis_revision = s.hypothesis_revision + 1
      /\ r.branches = s.branches /\ r.rollback_points = s.rollback_points
      /\ \A f \in {"observations", "artifacts", "rejected", "decisions", "workers", "last_epoch",
                   "next_worker_registration_sequence", "wm_branch", "wm_trial", "wm_attempt"} :
            r[f] = s[f]
  BY <1>t DEF abandon_stale_live_work, StateType, StateFields
<1> HIDE DEF r
<1>2. "SUPERSEDED" \in TrialClosings /\ "ABANDONED" \in AttemptClosings
  BY DEF TrialClosings, AttemptClosings
<1>3. /\ r.exp \in ExperimentStates /\ IsMap(r.branches, BranchRecord)
      /\ r.rollback_points \in Seq(RollbackPoint)
  BY <1>1, <1>t DEF StateType
<1>5. r.generation \in Nat \ {0} /\ r.hypothesis_revision \in Nat \ {0}
  <2>1. s.generation \in Nat /\ s.hypothesis_revision \in Nat
    BY ZenonT(60), <1>t DEF StateType
  <2> QED BY <1>1, <2>1
<1>4. StateInv(r) /\ Keeps(s, r) /\ SameOwners(s, r)
  BY <1>1, <1>2, <1>3, <1>5, CloseAllInv
<1> QED BY <1>4 DEF r

\* cancel_experiment does.
LEMMA CancelExperimentInv ==
  ASSUME NEW s, StateInv(s)
  PROVE  LET r == [s EXCEPT !.exp = "CANCELLED",
                            !.trials = SetTrials(s, OpenTrials(s), "CANCELLED"),
                            !.attempts = SetAttempts(s, LiveAttempts(s), "CANCELLED")]
         IN  StateInv(r) /\ Keeps(s, r) /\ SameOwners(s, r)
<1> DEFINE r == [s EXCEPT !.exp = "CANCELLED",
                          !.trials = SetTrials(s, OpenTrials(s), "CANCELLED"),
                          !.attempts = SetAttempts(s, LiveAttempts(s), "CANCELLED")]
<1>t. StateType(s)
  BY DEF StateInv
<1>1. /\ DOMAIN r = StateFields
      /\ r.trials = SetTrials(s, OpenTrials(s), "CANCELLED")
      /\ r.attempts = SetAttempts(s, LiveAttempts(s), "CANCELLED")
      /\ r.exp = "CANCELLED" /\ r.generation = s.generation
      /\ r.hypothesis_revision = s.hypothesis_revision
      /\ r.branches = s.branches /\ r.rollback_points = s.rollback_points
      /\ \A f \in {"observations", "artifacts", "rejected", "decisions", "workers", "last_epoch",
                   "next_worker_registration_sequence", "wm_branch", "wm_trial", "wm_attempt"} :
            r[f] = s[f]
  BY <1>t DEF StateType, StateFields
<1> HIDE DEF r
<1>2. "CANCELLED" \in TrialClosings /\ "CANCELLED" \in AttemptClosings
  BY DEF TrialClosings, AttemptClosings
<1>3. /\ r.exp \in ExperimentStates /\ r.generation \in Nat \ {0}
      /\ r.hypothesis_revision \in Nat \ {0} /\ IsMap(r.branches, BranchRecord)
      /\ r.rollback_points \in Seq(RollbackPoint)
  BY <1>1, <1>t DEF StateType, ExperimentStates
<1>4. StateInv(r) /\ Keeps(s, r) /\ SameOwners(s, r)
  BY ZenonT(120), <1>1, <1>2, <1>3, CloseAllInv
<1> QED BY <1>4 DEF r

\* rollback does, to whatever rollback point.
LEMMA RollbackInv ==
  ASSUME NEW s, StateInv(s), NEW point \in RollbackPoint
  PROVE  LET r == RolledBack(s, point)
         IN  StateInv(r) /\ Keeps(s, r) /\ SameOwners(s, r)
<1> DEFINE r == RolledBack(s, point)
           B == RestoredBranches(s, point.authority)
<1>t. StateType(s)
  BY DEF StateInv
<1>1. /\ DOMAIN r = StateFields
      /\ r.trials = SetTrials(s, OpenTrials(s), "SUPERSEDED")
      /\ r.attempts = SetAttempts(s, LiveAttempts(s), "ABANDONED")
      /\ r.exp = (IF s.exp \in {"FINALIZED", "SUPERSEDED"} THEN "OPEN" ELSE s.exp)
      /\ r.generation = point.generation
      /\ r.hypothesis_revision = s.hypothesis_revision
      /\ r.branches = B /\ r.rollback_points = Append(s.rollback_points, point)
      /\ \A f \in {"observations", "artifacts", "rejected", "decisions", "workers", "last_epoch",
                   "next_worker_registration_sequence", "wm_branch", "wm_trial", "wm_attempt"} :
            r[f] = s[f]
  <2> HIDE DEF B
  <2>1. RolledBack(s, point) =
          [abandon_stale_live_work(s) EXCEPT
             !.generation = point.generation, !.branches = B,
             !.rollback_points = Append(@, point),
             !.exp = IF @ \in {"FINALIZED", "SUPERSEDED"} THEN "OPEN" ELSE @]
    BY DEF RolledBack, B
  <2> QED BY <1>t, <2>1 DEF abandon_stale_live_work, StateType, StateFields
<1> HIDE DEF r
<1>2. "SUPERSEDED" \in TrialClosings /\ "ABANDONED" \in AttemptClosings
  BY DEF TrialClosings, AttemptClosings
<1>3. IsMap(B, BranchRecord) /\ DOMAIN B = DOMAIN s.branches
  <2>1. \A p \in point.authority : p \in BranchSnapshot
    BY DEF RollbackPoint
  <2>2. ASSUME NEW b \in DOMAIN s.branches PROVE B[b] \in BranchRecord
    <3>1. s.branches[b] \in BranchRecord
      BY <1>t DEF StateType, IsMap
    <3>2. CASE \E p \in point.authority : p.branch = b
      <4> DEFINE q == CHOOSE p \in point.authority : p.branch = b
      <4>1. q \in point.authority
        BY <3>2
      <4>2. B[b] = [state |-> q.state, generation |-> q.generation]
        BY <3>2 DEF RestoredBranches
      <4> HIDE DEF q
      <4> QED BY <4>1, <4>2, <2>1 DEF BranchSnapshot, BranchRecord
    <3>3. CASE ~ \E p \in point.authority : p.branch = b
      <4>1. B[b] = [s.branches[b] EXCEPT !.state = IF @ = "ACTIVE" THEN "RETIRED" ELSE "SUPERSEDED"]
        BY ZenonT(60), <3>3 DEF RestoredBranches
      <4> QED BY <4>1, <3>1 DEF BranchRecord, BranchStates
    <3> QED BY ZenonT(60), <3>2, <3>3
  <2> QED BY ZenonT(120), <2>2, <1>t DEF RestoredBranches, StateType, IsMap
<1> HIDE DEF B
<1>4. r.exp \in ExperimentStates
  BY <1>1, <1>t DEF StateType, ExperimentStates
<1>5. r.generation \in Nat \ {0}
  BY ZenonT(60), <1>1 DEF RollbackPoint
<1>6. r.hypothesis_revision \in Nat \ {0} /\ r.rollback_points \in Seq(RollbackPoint)
  BY <1>1, <1>t DEF StateType
<1>7. StateInv(r) /\ Keeps(s, r) /\ SameOwners(s, r)
  BY ZenonT(120), <1>1, <1>2, <1>3, <1>4, <1>5, <1>6, CloseAllInv
<1> QED BY <1>7 DEF r

\* retire_branch closes the trials and attempts of one branch, whose generation is
\* the only one that changes.
LEMMA RetireInv ==
  ASSUME NEW s, StateInv(s), NEW b \in DOMAIN s.branches
  PROVE  LET r == [s EXCEPT
                    !.branches[b] = [state |-> "RETIRED", generation |-> @.generation + 1],
                    !.trials = SetTrials(s, OpenTrials(s) \cap TrialsOf(s, b), "SUPERSEDED"),
                    !.attempts = SetAttempts(s, {a \in LiveAttempts(s) : s.attempts[a].branch = b},
                                             "ABANDONED")]
         IN  StateInv(r) /\ Keeps(s, r) /\ SameOwners(s, r)
<1> DEFINE T == OpenTrials(s) \cap TrialsOf(s, b)
           A == {a \in LiveAttempts(s) : s.attempts[a].branch = b}
           B == [s.branches EXCEPT ![b] = [state |-> "RETIRED", generation |-> @.generation + 1]]
           r == [s EXCEPT !.branches = B, !.trials = SetTrials(s, T, "SUPERSEDED"),
                          !.attempts = SetAttempts(s, A, "ABANDONED")]
<1>t. StateType(s)
  BY DEF StateInv
<1>1. /\ DOMAIN r = StateFields /\ r.branches = B
      /\ r.trials = SetTrials(s, T, "SUPERSEDED") /\ r.attempts = SetAttempts(s, A, "ABANDONED")
      /\ \A f \in StateFields \ {"branches", "trials", "attempts"} : r[f] = s[f]
  BY ZenonT(120), <1>t DEF StateType, StateFields
<1> HIDE DEF r
<1>2. Closes(s, r, T, A)
  <2>1. \A a \in LiveAttempts(s) : s.attempts[a].trial \in T => a \in A
    BY DEF StateInv, LiveOnItsBranch, TrialsOf
  <2>2. "SUPERSEDED" \in TrialClosings /\ "ABANDONED" \in AttemptClosings
    BY DEF TrialClosings, AttemptClosings
  <2>3. T \subseteq OpenTrials(s) /\ A \subseteq LiveAttempts(s)
    OBVIOUS
  <2> HIDE DEF T, A, r
  <2> QED BY ZenonT(60), <1>1, <1>t, <2>1, <2>2, <2>3, SetCloses
<1>3. IsMap(B, BranchRecord) /\ DOMAIN B = DOMAIN s.branches
  <2>0. IsMap(s.branches, BranchRecord)
    BY <1>t DEF StateType
  <2>1. s.branches[b].generation + 1 \in Nat
    BY <2>0 DEF IsMap, BranchRecord
  <2>2. [state |-> "RETIRED", generation |-> s.branches[b].generation + 1] \in BranchRecord
    BY ZenonT(60), <2>1 DEF BranchRecord, BranchStates
  <2> QED BY <2>0, <2>2 DEF IsMap
<1>4. OpenIsCurrent(r)
  <2> SUFFICES ASSUME NEW t \in OpenTrials(r)
               PROVE  /\ r.trials[t].generation = r.generation
                      /\ r.trials[t].hypothesis_revision = r.hypothesis_revision
                      /\ r.trials[t].branch \in DOMAIN r.branches
                      /\ r.trials[t].branch_generation = r.branches[r.trials[t].branch].generation
    BY DEF OpenIsCurrent
  <2>1. t \in DOMAIN s.trials /\ s.trials[t] \in TrialRecord
    BY ZenonT(60), <1>1, <1>t DEF OpenTrials, SetTrials, StateType, IsMap
  <2>2. t \notin T
    <3>1. t \in T => r.trials[t].state = "SUPERSEDED"
      BY ZenonT(60), <1>1, <2>1 DEF SetTrials, TrialRecord
    <3> QED BY <3>1 DEF OpenTrials, is_terminal
  <2>3. r.trials[t] = s.trials[t] /\ t \in OpenTrials(s)
    BY ZenonT(60), <1>1, <2>1, <2>2 DEF SetTrials, OpenTrials
  <2>4. s.trials[t].branch # b
    BY <2>2, <2>3 DEF TrialsOf, OpenTrials
  <2>5. r.generation = s.generation /\ r.hypothesis_revision = s.hypothesis_revision
    BY ZenonT(60), <1>1 DEF StateFields
  <2>6. /\ s.trials[t].generation = s.generation
        /\ s.trials[t].hypothesis_revision = s.hypothesis_revision
        /\ s.trials[t].branch \in DOMAIN s.branches
        /\ s.trials[t].branch_generation = s.branches[s.trials[t].branch].generation
    BY <2>3 DEF StateInv, OpenIsCurrent
  <2> QED BY ZenonT(60), <1>1, <2>3, <2>4, <2>5, <2>6
<1> HIDE DEF T, A, B, r
<1>5. IsMap(r.trials, TrialRecord) /\ IsMap(r.attempts, AttemptRecord)
  BY ZenonT(60), <1>2, <1>t, ClosedType
<1>6. StateType(r)
  BY ZenonT(60), <1>1, <1>t, <1>3, <1>5 DEF StateType, StateFields
<1>7. /\ r.observations = s.observations
      /\ r.wm_trial = s.wm_trial /\ r.wm_attempt = s.wm_attempt /\ r.wm_branch = s.wm_branch
  BY <1>1 DEF StateFields
<1>8. StateInv(r) /\ Keeps(s, r) /\ SameOwners(s, r)
  BY ZenonT(60), <1>1, <1>2, <1>3, <1>4, <1>6, <1>7, ClosedInv
<1> QED BY <1>8 DEF r, B, T, A

\* What a closing leaves to show when nothing else changes than the states of
\* branches: fail_trial, cancel_trial and the second pass of recovery.
LEMMA CloseSomeInv ==
  ASSUME NEW s, StateInv(s), NEW r, NEW T, NEW A, Closes(s, r, T, A),
         DOMAIN r = StateFields,
         IsMap(r.branches, BranchRecord), DOMAIN r.branches = DOMAIN s.branches,
         \A b \in DOMAIN s.branches : r.branches[b].generation = s.branches[b].generation,
         \A f \in StateFields \ {"branches", "trials", "attempts"} : r[f] = s[f]
  PROVE  StateInv(r) /\ Keeps(s, r) /\ SameOwners(s, r)
<1>t. StateType(s)
  BY DEF StateInv
<1>1. /\ r.observations = s.observations /\ r.generation = s.generation
      /\ r.hypothesis_revision = s.hypothesis_revision
      /\ r.wm_trial = s.wm_trial /\ r.wm_attempt = s.wm_attempt /\ r.wm_branch = s.wm_branch
  BY ZenonT(60) DEF StateFields
<1>2. OpenIsCurrent(r)
  BY ZenonT(60), <1>1, ClosedCurrent
<1>3. IsMap(r.trials, TrialRecord) /\ IsMap(r.attempts, AttemptRecord)
  BY ZenonT(60), <1>t, ClosedType
<1>4. StateType(r)
  BY ZenonT(60), <1>t, <1>3 DEF StateType, StateFields
<1> QED BY ZenonT(60), <1>1, <1>2, <1>4, ClosedInv

\* cancel_trial closes one trial and the live attempts of it.
LEMMA CancelTrialInv ==
  ASSUME NEW s, StateInv(s), NEW t \in OpenTrials(s)
  PROVE  LET r == [s EXCEPT
                    !.trials = SetTrials(s, {t}, "CANCELLED"),
                    !.attempts = SetAttempts(s, {a \in LiveAttempts(s) : s.attempts[a].trial = t},
                                             "CANCELLED")]
         IN  StateInv(r) /\ Keeps(s, r) /\ SameOwners(s, r)
<1> DEFINE A == {a \in LiveAttempts(s) : s.attempts[a].trial = t}
           r == [s EXCEPT !.trials = SetTrials(s, {t}, "CANCELLED"),
                          !.attempts = SetAttempts(s, A, "CANCELLED")]
<1>t. StateType(s)
  BY DEF StateInv
<1>1. /\ DOMAIN r = StateFields
      /\ r.trials = SetTrials(s, {t}, "CANCELLED") /\ r.attempts = SetAttempts(s, A, "CANCELLED")
      /\ \A f \in StateFields \ {"trials", "attempts"} : r[f] = s[f]
  BY ZenonT(120), <1>t DEF StateType, StateFields
<1>2. Closes(s, r, {t}, A)
  <2>1. "CANCELLED" \in TrialClosings /\ "CANCELLED" \in AttemptClosings
    BY DEF TrialClosings, AttemptClosings
  <2>2. A \subseteq LiveAttempts(s) /\ \A a \in LiveAttempts(s) : s.attempts[a].trial \in {t} => a \in A
    OBVIOUS
  <2> HIDE DEF A, r
  <2> QED BY <1>1, <1>t, <2>1, <2>2, SetCloses
<1> HIDE DEF A, r
<1>3. r.branches = s.branches /\ IsMap(s.branches, BranchRecord)
  BY <1>1, <1>t DEF StateType, StateFields
<1>4. StateInv(r) /\ Keeps(s, r) /\ SameOwners(s, r)
  BY <1>1, <1>2, <1>3, CloseSomeInv
<1> QED BY <1>4 DEF r, A

\* fail_trial: t is the trial and a the attempt that the envelope has authority for.
LEMMA FailInv ==
  ASSUME NEW s, StateInv(s), NEW t \in OpenTrials(s), NEW a \in LiveAttempts(s),
         s.trials[t].authoritative_attempt = a, s.attempts[a].trial = t,
         NEW retry \in BOOLEAN, NEW b \in DOMAIN s.branches, NEW st \in BranchStates
  PROVE  LET r == [s EXCEPT !.attempts[a].state = "FAILED",
                            !.trials[t] = Requeue(s.trials[t], retry),
                            !.branches[b].state = st]
         IN  StateInv(r) /\ Keeps(s, r) /\ SameOwners(s, r)
<1> DEFINE X == [s.trials EXCEPT ![t] = Requeue(s.trials[t], retry)]
           Y == [s.attempts EXCEPT ![a] = [@ EXCEPT !.state = "FAILED"]]
           B == [s.branches EXCEPT ![b] = [@ EXCEPT !.state = st]]
           r == [s EXCEPT !.attempts = Y, !.trials = X, !.branches = B]
<1>t. StateType(s)
  BY DEF StateInv
<1>1. /\ DOMAIN r = StateFields
      /\ r.trials = X /\ r.attempts = Y /\ r.branches = B
      /\ \A f \in StateFields \ {"branches", "trials", "attempts"} : r[f] = s[f]
  <2> HIDE DEF X, Y, B
  <2> QED BY ZenonT(120), <1>t DEF StateType, StateFields
<1>m. /\ t \in DOMAIN s.trials /\ a \in DOMAIN s.attempts
      /\ s.trials \in [DOMAIN s.trials -> TrialRecord]
      /\ s.attempts \in [DOMAIN s.attempts -> AttemptRecord]
      /\ s.branches \in [DOMAIN s.branches -> BranchRecord]
  BY ZenonT(60), <1>t DEF StateType, IsMap, OpenTrials, LiveAttempts
<1> HIDE DEF r
<1>2. Closes(s, r, {t}, {a})
  <2>1. "FAILED" \in TrialClosings /\ "FAILED" \in AttemptClosings
    BY DEF TrialClosings, AttemptClosings
  <2>2. \A c \in LiveAttempts(s) : s.attempts[c].trial \in {t} => c \in {a}
    BY DEF StateInv, LiveIsAuthoritative
  <2>3. /\ DOMAIN X = DOMAIN s.trials /\ X = [u \in DOMAIN s.trials |-> X[u]]
        /\ \A u \in DOMAIN s.trials : u # t => X[u] = s.trials[u]
        /\ \/ X[t] = Requeued(s.trials[t])
           \/ X[t] = [s.trials[t] EXCEPT !.state = "FAILED"]
    BY <1>m DEF Requeue
  <2>4. /\ DOMAIN Y = DOMAIN s.attempts /\ Y = [c \in DOMAIN s.attempts |-> Y[c]]
        /\ \A c \in DOMAIN s.attempts : c # a => Y[c] = s.attempts[c]
        /\ Y[a] = [s.attempts[a] EXCEPT !.state = "FAILED"]
    BY <1>m
  <2> HIDE DEF X, Y
  <2> QED BY ZenonT(120), <1>1, <2>1, <2>2, <2>3, <2>4 DEF Closes
<1>3. /\ IsMap(B, BranchRecord) /\ DOMAIN B = DOMAIN s.branches
      /\ \A c \in DOMAIN s.branches : B[c].generation = s.branches[c].generation
  BY ZenonT(120), <1>t, <1>m DEF StateType, IsMap, BranchRecord
<1>4. StateInv(r) /\ Keeps(s, r) /\ SameOwners(s, r)
  <2> HIDE DEF X, Y, B
  <2> QED BY ZenonT(60), <1>1, <1>2, <1>3, CloseSomeInv
<1> QED BY <1>4 DEF r

\* The second pass of recovery.
LEMMA ResolvedInv ==
  ASSUME NEW s, StateInv(s)
  PROVE  LET r == Resolved(s)
         IN  /\ StateInv(r) /\ Keeps(s, r) /\ SameOwners(s, r)
             /\ (\A t \in OpenTrials(s) : s.trials[t].state = "REVALIDATION_REQUIRED")
                  => LiveAttempts(r) = {}
<1> DEFINE T == {t \in DOMAIN s.trials : s.trials[t].state = "REVALIDATION_REQUIRED"}
           A == {a \in LiveAttempts(s) : s.attempts[a].trial \in T}
           X == [t \in DOMAIN s.trials |->
                   IF t \in T THEN Requeue(s.trials[t], Recoverable(s, s.trials[t]))
                              ELSE s.trials[t]]
           r == Resolved(s)
<1>t. StateType(s)
  BY DEF StateInv
<1>r. r = [s EXCEPT !.trials = X, !.attempts = SetAttempts(s, A, "ABANDONED")]
  BY DEF Resolved
<1>1. /\ DOMAIN r = StateFields /\ r.trials = X /\ r.attempts = SetAttempts(s, A, "ABANDONED")
      /\ \A f \in StateFields \ {"trials", "attempts"} : r[f] = s[f]
  <2> HIDE DEF X, r, A
  <2> QED BY ZenonT(120), <1>t, <1>r DEF StateType, StateFields
<1> HIDE DEF r
<1>2. Closes(s, r, T, A)
  <2>1. T \subseteq OpenTrials(s) /\ A \subseteq LiveAttempts(s)
    BY ZenonT(60) DEF OpenTrials, is_terminal
  <2>2. \A a \in LiveAttempts(s) : s.attempts[a].trial \in T => a \in A
    OBVIOUS
  <2>3. /\ DOMAIN X = DOMAIN s.trials /\ X = [t \in DOMAIN s.trials |-> X[t]]
        /\ \A t \in DOMAIN s.trials : t \notin T => X[t] = s.trials[t]
    OBVIOUS
  <2>4. \A t \in DOMAIN s.trials : t \in T => \/ X[t] = Requeued(s.trials[t])
                                              \/ X[t] = [s.trials[t] EXCEPT !.state = "FAILED"]
    BY DEF Requeue
  <2>5. "FAILED" \in TrialClosings /\ "ABANDONED" \in AttemptClosings
    BY DEF TrialClosings, AttemptClosings
  <2>6. /\ DOMAIN r.attempts = DOMAIN s.attempts
        /\ r.attempts = [a \in DOMAIN s.attempts |-> r.attempts[a]]
        /\ \A a \in DOMAIN s.attempts : a \notin A => r.attempts[a] = s.attempts[a]
        /\ \A a \in A : r.attempts[a] = [s.attempts[a] EXCEPT !.state = "ABANDONED"]
    BY ZenonT(120), <1>1, <2>1 DEF SetAttempts, LiveAttempts
  <2> HIDE DEF X, T, A
  <2> QED BY ZenonT(120), <1>1, <2>1, <2>2, <2>3, <2>4, <2>5, <2>6 DEF Closes, OpenTrials
<1>3. r.branches = s.branches /\ IsMap(s.branches, BranchRecord)
  BY ZenonT(60), <1>1, <1>t DEF StateType, StateFields
<1>4. StateInv(r) /\ Keeps(s, r) /\ SameOwners(s, r)
  <2> HIDE DEF X, T, A
  <2> QED BY <1>1, <1>2, <1>3, CloseSomeInv
<1>5. ASSUME \A t \in OpenTrials(s) : s.trials[t].state = "REVALIDATION_REQUIRED"
      PROVE  LiveAttempts(r) = {}
  <2>1. \A a \in LiveAttempts(s) : a \in A
    BY ZenonT(60), <1>5 DEF StateInv, LiveIsAuthoritative, OpenTrials
  <2>2. \A a \in A : r.attempts[a].state \in AttemptClosings
    <3> HIDE DEF T, A
    <3> QED BY <1>2, <1>t, ClosedFields
  <2>3. \A a \in LiveAttempts(r) : a \in LiveAttempts(s)
    BY <1>4 DEF SameOwners
  <2> HIDE DEF A
  <2> QED BY ZenonT(60), <2>1, <2>2, <2>3 DEF LiveAttempts, AttemptClosings, is_attempt_terminal
<1> QED BY <1>4, <1>5 DEF r

-----------------------------------------------------------------------------
(***************************************************************************)
(* The handlers that move trials and attempts without closing them.        *)
(***************************************************************************)

\* r is s with other states of open trials and live attempts, all of them still
\* open and live and none of them READY: the first observation of an attempt and
\* the first pass of recovery.
Restates(s, r) ==
  /\ DOMAIN r = StateFields
  /\ \A f \in StateFields \ {"trials", "attempts", "observations", "last_epoch"} : r[f] = s[f]
  /\ DOMAIN r.trials = DOMAIN s.trials /\ DOMAIN r.attempts = DOMAIN s.attempts
  /\ r.trials = [t \in DOMAIN s.trials |-> r.trials[t]]
  /\ r.attempts = [a \in DOMAIN s.attempts |-> r.attempts[a]]
  /\ \A t \in DOMAIN s.trials :
       \/ r.trials[t] = s.trials[t]
       \/ /\ t \in OpenTrials(s)
          /\ \E st \in {"OBSERVING", "REVALIDATION_REQUIRED"} :
               r.trials[t] = [s.trials[t] EXCEPT !.state = st]
  /\ \A a \in DOMAIN s.attempts :
       \/ r.attempts[a] = s.attempts[a]
       \/ /\ a \in LiveAttempts(s)
          /\ \E st \in {"RUNNING", "REVALIDATION_REQUIRED"} :
               r.attempts[a] = [s.attempts[a] EXCEPT !.state = st]

\* Such a change preserves the invariant, also when observations are added.
LEMMA RestatesInv ==
  ASSUME NEW s, StateInv(s), NEW r, Restates(s, r),
         r.observations \in Seq(Observation), r.last_epoch \in Nat,
         \A n \in DOMAIN s.observations :
            n \in DOMAIN r.observations /\ r.observations[n] = s.observations[n]
  PROVE  StateInv(r) /\ Keeps(s, r) /\ SameOwners(s, r)
<1>t. StateType(s)
  BY ZenonT(60) DEF StateInv
<1>m. /\ \A t \in DOMAIN s.trials : s.trials[t] \in TrialRecord
      /\ \A a \in DOMAIN s.attempts : s.attempts[a] \in AttemptRecord
  BY ZenonT(60), <1>t DEF StateType, IsMap
<1>d. /\ DOMAIN r.trials = DOMAIN s.trials /\ DOMAIN r.attempts = DOMAIN s.attempts
      /\ r.branches = s.branches /\ r.generation = s.generation
      /\ r.hypothesis_revision = s.hypothesis_revision
      /\ r.wm_branch = s.wm_branch /\ r.wm_trial = s.wm_trial /\ r.wm_attempt = s.wm_attempt
  BY ZenonT(60) DEF Restates, StateFields
<1>1. ASSUME NEW t \in DOMAIN s.trials
      PROVE  /\ r.trials[t] \in TrialRecord
             /\ r.trials[t].branch = s.trials[t].branch
             /\ r.trials[t].generation = s.trials[t].generation
             /\ r.trials[t].branch_generation = s.trials[t].branch_generation
             /\ r.trials[t].hypothesis_revision = s.trials[t].hypothesis_revision
             /\ r.trials[t].authoritative_attempt = s.trials[t].authoritative_attempt
             /\ r.trials[t].committed_attempts = s.trials[t].committed_attempts
             /\ t \notin OpenTrials(s) => r.trials[t] = s.trials[t]
             /\ t \in OpenTrials(s) => ~is_terminal(r.trials[t].state)
             /\ r.trials[t].state = "READY" => s.trials[t].state = "READY"
  <2>1. CASE r.trials[t] = s.trials[t]
    BY <2>1, <1>m DEF OpenTrials
  <2>2. ASSUME t \in OpenTrials(s), NEW st \in {"OBSERVING", "REVALIDATION_REQUIRED"},
               r.trials[t] = [s.trials[t] EXCEPT !.state = st]
        PROVE  r.trials[t] \in TrialRecord /\ r.trials[t].state = st
    BY ZenonT(120), <2>2, <1>m DEF TrialRecord, TrialStates
  <2>3. ASSUME t \in OpenTrials(s), NEW st \in {"OBSERVING", "REVALIDATION_REQUIRED"},
               r.trials[t] = [s.trials[t] EXCEPT !.state = st]
        PROVE  /\ r.trials[t].branch = s.trials[t].branch
               /\ r.trials[t].generation = s.trials[t].generation
               /\ r.trials[t].branch_generation = s.trials[t].branch_generation
               /\ r.trials[t].hypothesis_revision = s.trials[t].hypothesis_revision
               /\ r.trials[t].authoritative_attempt = s.trials[t].authoritative_attempt
               /\ r.trials[t].committed_attempts = s.trials[t].committed_attempts
    BY <2>3, <1>m DEF TrialRecord
  <2> QED BY ZenonT(120), <2>1, <2>2, <2>3 DEF Restates, is_terminal
<1>2. ASSUME NEW a \in DOMAIN s.attempts
      PROVE  /\ r.attempts[a] \in AttemptRecord
             /\ r.attempts[a].trial = s.attempts[a].trial
             /\ r.attempts[a].branch = s.attempts[a].branch
             /\ r.attempts[a].committed = s.attempts[a].committed
             /\ r.attempts[a].inc = s.attempts[a].inc
             /\ r.attempts[a].epoch = s.attempts[a].epoch
             /\ r.attempts[a].producer = s.attempts[a].producer
             /\ a \notin LiveAttempts(s) => r.attempts[a] = s.attempts[a]
             /\ a \in LiveAttempts(s) => ~is_attempt_terminal(r.attempts[a].state)
  <2>1. CASE r.attempts[a] = s.attempts[a]
    BY <2>1, <1>m DEF LiveAttempts
  <2>2. ASSUME a \in LiveAttempts(s), NEW st \in {"RUNNING", "REVALIDATION_REQUIRED"},
               r.attempts[a] = [s.attempts[a] EXCEPT !.state = st]
        PROVE  /\ r.attempts[a] \in AttemptRecord /\ r.attempts[a].state = st
               /\ r.attempts[a].trial = s.attempts[a].trial
               /\ r.attempts[a].branch = s.attempts[a].branch
               /\ r.attempts[a].committed = s.attempts[a].committed
               /\ r.attempts[a].inc = s.attempts[a].inc
               /\ r.attempts[a].epoch = s.attempts[a].epoch
               /\ r.attempts[a].producer = s.attempts[a].producer
    BY ZenonT(120), <2>2, <1>m DEF AttemptRecord, AttemptStates
  <2> QED BY ZenonT(120), <2>1, <2>2 DEF Restates, is_attempt_terminal
<1>3. OpenTrials(r) = OpenTrials(s) /\ LiveAttempts(r) = LiveAttempts(s)
  <2>1. OpenTrials(r) = OpenTrials(s)
    BY ZenonT(60), <1>1, <1>d DEF OpenTrials
  <2>2. LiveAttempts(r) = LiveAttempts(s)
    BY <1>2, <1>d DEF LiveAttempts
  <2> QED BY ZenonT(60), <2>1, <2>2
<1>4. StateType(r)
  <2>1. IsMap(r.trials, TrialRecord)
    BY ZenonT(120), <1>1, <1>t DEF IsMap, StateType, Restates
  <2>2. IsMap(r.attempts, AttemptRecord)
    BY ZenonT(120), <1>2, <1>t DEF IsMap, StateType, Restates
  <2> QED BY ZenonT(120), <1>t, <2>1, <2>2 DEF StateType, Restates, StateFields
<1>5. ValidWatermarks(r)
  BY ZenonT(60), <1>d DEF StateInv, ValidWatermarks
<1>6. AuthorityIsOwn(r)
  BY SMTT(60), <1>1, <1>2, <1>d DEF StateInv, AuthorityIsOwn
<1>l. \A a \in LiveAttempts(s) :
        /\ a \in DOMAIN s.attempts /\ s.attempts[a].trial \in DOMAIN s.trials
        /\ r.attempts[a].trial = s.attempts[a].trial
        /\ r.attempts[a].branch = s.attempts[a].branch
  BY ZenonT(60), <1>2 DEF StateInv, LiveIsAuthoritative, LiveAttempts, OpenTrials
<1>o. \A t \in DOMAIN s.trials :
        /\ r.trials[t].authoritative_attempt = s.trials[t].authoritative_attempt
        /\ r.trials[t].branch = s.trials[t].branch
  BY ZenonT(60), <1>1
<1>7. LiveIsAuthoritative(r)
  BY SMTT(60), <1>l, <1>o, <1>3 DEF StateInv, LiveIsAuthoritative
<1>8. LiveOnItsBranch(r)
  BY <1>l, <1>o, <1>3 DEF StateInv, LiveOnItsBranch
<1>9. OpenIsCurrent(r)
  BY ZenonT(120), <1>1, <1>3, <1>d DEF StateInv, OpenIsCurrent, OpenTrials
<1>10. \A t \in DOMAIN s.trials : r.trials[t].state = "COMPLETED" <=> s.trials[t].state = "COMPLETED"
  BY <1>1 DEF OpenTrials, is_terminal
<1>11. \A a \in DOMAIN s.attempts : s.attempts[a].committed => r.attempts[a] = s.attempts[a]
  BY ZenonT(120), <1>2 DEF StateInv, CommitIsUnique, LiveAttempts, is_attempt_terminal
<1>12. CommitIsUnique(r)
  <2>1. CommitIsUnique(s)
    BY ZenonT(60) DEF StateInv
  <2>2. \A a \in DOMAIN s.attempts : /\ r.attempts[a].trial = s.attempts[a].trial
                                      /\ r.attempts[a].committed = s.attempts[a].committed
    BY ZenonT(60), <1>2
  <2>3. \A t \in DOMAIN s.trials :
          /\ r.trials[t].committed_attempts = s.trials[t].committed_attempts
          /\ r.trials[t].authoritative_attempt = s.trials[t].authoritative_attempt
    BY ZenonT(60), <1>1
  <2> QED BY SMTT(60), <2>1, <2>2, <2>3, <1>10, <1>11, <1>d DEF CommitIsUnique
<1>13. Keeps(s, r)
  BY ZenonT(60), <1>1, <1>11, <1>d DEF Keeps, OpenTrials
<1>14. RestsOnEvidence(r)
  BY SMTT(60), <1>1, <1>10, <1>d DEF StateInv, RestsOnEvidence, ObservationsOf
<1>15. SameOwners(s, r)
  BY <1>2, <1>3 DEF SameOwners, LiveAttempts
<1> QED BY ZenonT(60), <1>4, <1>5, <1>6, <1>7, <1>8, <1>9, <1>12, <1>13, <1>14, <1>15 DEF StateInv

\* publish_observation: the states move on, and the observation may be added.
LEMMA ObservedInv ==
  ASSUME NEW s, StateInv(s), NEW t \in OpenTrials(s), NEW a \in LiveAttempts(s),
         NEW obs \in Seq(Observation),
         \A n \in DOMAIN s.observations : n \in DOMAIN obs /\ obs[n] = s.observations[n]
  PROVE  LET r == [UnderObservation(s, t, a) EXCEPT !.observations = obs]
         IN  StateInv(r) /\ Keeps(s, r) /\ SameOwners(s, r)
<1> DEFINE st == IF s.trials[t].state \in {"ASSIGNED", "RUNNING"} THEN "OBSERVING" ELSE s.trials[t].state
           sa == IF s.attempts[a].state = "ISSUED" THEN "RUNNING" ELSE s.attempts[a].state
           X == [s.trials EXCEPT ![t] = [s.trials[t] EXCEPT !.state = st]]
           Y == [s.attempts EXCEPT ![a] = [s.attempts[a] EXCEPT !.state = sa]]
           r == [[s EXCEPT !.trials = X, !.attempts = Y] EXCEPT !.observations = obs]
<1>t. StateType(s)
  BY DEF StateInv
<1>r. r = [UnderObservation(s, t, a) EXCEPT !.observations = obs]
  BY DEF UnderObservation
<1>1. /\ DOMAIN r = StateFields
      /\ r.trials = X /\ r.attempts = Y /\ r.observations = obs
      /\ \A f \in StateFields \ {"trials", "attempts", "observations"} : r[f] = s[f]
  <2> HIDE DEF X, Y
  <2> QED BY ZenonT(120), <1>t DEF StateType, StateFields
<1>m. /\ t \in DOMAIN s.trials /\ a \in DOMAIN s.attempts
      /\ s.trials \in [DOMAIN s.trials -> TrialRecord]
      /\ s.attempts \in [DOMAIN s.attempts -> AttemptRecord]
  BY ZenonT(60), <1>t DEF StateType, IsMap, OpenTrials, LiveAttempts
<1> HIDE DEF r
<1>2. Restates(s, r)
  <2>1. /\ DOMAIN X = DOMAIN s.trials /\ X = [u \in DOMAIN s.trials |-> X[u]]
        /\ \A u \in DOMAIN s.trials : u # t => X[u] = s.trials[u]
        /\ X[t] = s.trials[t] \/ X[t] = [s.trials[t] EXCEPT !.state = "OBSERVING"]
    <3>1. s.trials[t] \in TrialRecord
      BY <1>m
    <3>2. [s.trials[t] EXCEPT !.state = s.trials[t].state] = s.trials[t]
      BY ZenonT(60), <3>1 DEF TrialRecord
    <3>3. X[t] = [s.trials[t] EXCEPT !.state = st]
      BY ZenonT(60), <1>m
    <3>4. st = "OBSERVING" \/ st = s.trials[t].state
      OBVIOUS
    <3> HIDE DEF st
    <3>5. X[t] = s.trials[t] \/ X[t] = [s.trials[t] EXCEPT !.state = "OBSERVING"]
      BY <3>2, <3>3, <3>4
    <3> QED BY ZenonT(60), <1>m, <3>5
  <2>2. /\ DOMAIN Y = DOMAIN s.attempts /\ Y = [c \in DOMAIN s.attempts |-> Y[c]]
        /\ \A c \in DOMAIN s.attempts : c # a => Y[c] = s.attempts[c]
        /\ Y[a] = s.attempts[a] \/ Y[a] = [s.attempts[a] EXCEPT !.state = "RUNNING"]
    <3>1. s.attempts[a] \in AttemptRecord
      BY <1>m
    <3>2. [s.attempts[a] EXCEPT !.state = s.attempts[a].state] = s.attempts[a]
      BY ZenonT(60), <3>1 DEF AttemptRecord
    <3>3. Y[a] = [s.attempts[a] EXCEPT !.state = sa]
      BY <1>m
    <3>4. sa = "RUNNING" \/ sa = s.attempts[a].state
      OBVIOUS
    <3> HIDE DEF sa
    <3>5. Y[a] = s.attempts[a] \/ Y[a] = [s.attempts[a] EXCEPT !.state = "RUNNING"]
      BY <3>2, <3>3, <3>4
    <3> QED BY ZenonT(60), <1>m, <3>5
  <2>3. \A f \in StateFields \ {"trials", "attempts", "observations", "last_epoch"} : r[f] = s[f]
    BY <1>1
  <2> HIDE DEF X, Y
  <2> QED BY ZenonT(120), <1>1, <2>1, <2>2, <2>3 DEF Restates
<1>3. r.last_epoch \in Nat /\ r.observations = obs
  BY ZenonT(120), <1>1, <1>t DEF StateType, StateFields
<1>4. StateInv(r) /\ Keeps(s, r) /\ SameOwners(s, r)
  BY <1>2, <1>3, RestatesInv
<1> QED BY ZenonT(60), <1>r, <1>4

\* The first pass of recovery, in a new epoch: every open trial is staged.
LEMMA DemotedInv ==
  ASSUME NEW s, StateInv(s), NEW e \in Nat
  PROVE  LET r == Demoted([s EXCEPT !.last_epoch = e])
         IN  /\ StateInv(r) /\ Keeps(s, r) /\ SameOwners(s, r)
             /\ \A t \in OpenTrials(r) : r.trials[t].state = "REVALIDATION_REQUIRED"
<1> DEFINE p == [s EXCEPT !.last_epoch = e]
           r == Demoted(p)
<1>t. StateType(s)
  BY DEF StateInv
<1>p. /\ DOMAIN p = StateFields /\ p.last_epoch = e
      /\ p.trials = s.trials /\ p.attempts = s.attempts
      /\ \A f \in StateFields \ {"last_epoch"} : p[f] = s[f]
  BY ZenonT(60), <1>t DEF StateType, StateFields
<1> HIDE DEF p
<1>q. OpenTrials(p) = OpenTrials(s) /\ LiveAttempts(p) = LiveAttempts(s)
  BY <1>p DEF OpenTrials, LiveAttempts
<1>1. /\ DOMAIN r = StateFields
      /\ r.trials = SetTrials(p, OpenTrials(p), "REVALIDATION_REQUIRED")
      /\ r.attempts = SetAttempts(p, LiveAttempts(p), "REVALIDATION_REQUIRED")
      /\ r.last_epoch = e /\ r.observations = s.observations
      /\ \A f \in StateFields \ {"trials", "attempts", "observations", "last_epoch"} : r[f] = s[f]
  BY ZenonT(120), <1>p DEF Demoted, StateFields
<1> HIDE DEF r
<1>2. /\ DOMAIN r.trials = DOMAIN s.trials /\ r.trials = [t \in DOMAIN s.trials |-> r.trials[t]]
      /\ \A t \in DOMAIN s.trials :
           IF t \in OpenTrials(s) THEN r.trials[t] = [s.trials[t] EXCEPT !.state = "REVALIDATION_REQUIRED"]
                                  ELSE r.trials[t] = s.trials[t]
  BY <1>1, <1>p, <1>q DEF SetTrials
<1>3. /\ DOMAIN r.attempts = DOMAIN s.attempts /\ r.attempts = [a \in DOMAIN s.attempts |-> r.attempts[a]]
      /\ \A a \in DOMAIN s.attempts :
           IF a \in LiveAttempts(s) THEN r.attempts[a] = [s.attempts[a] EXCEPT !.state = "REVALIDATION_REQUIRED"]
                                    ELSE r.attempts[a] = s.attempts[a]
  BY <1>1, <1>p, <1>q DEF SetAttempts
<1>4. Restates(s, r)
  BY <1>1, <1>2, <1>3 DEF Restates
<1>5. StateInv(r) /\ Keeps(s, r) /\ SameOwners(s, r)
  <2>1. r.observations \in Seq(Observation)
    BY <1>1, <1>t DEF StateType
  <2> QED BY ZenonT(60), <1>1, <1>4, <2>1, RestatesInv
<1>6. ASSUME NEW t \in OpenTrials(r)
      PROVE  r.trials[t].state = "REVALIDATION_REQUIRED"
  <2>1. t \in OpenTrials(s) /\ s.trials[t] \in TrialRecord
    BY ZenonT(120), <1>2, <1>t DEF OpenTrials, StateType, IsMap
  <2> QED BY ZenonT(120), <1>2, <2>1 DEF TrialRecord, OpenTrials
<1> QED BY <1>5, <1>6 DEF r, p

\* A watermark that stays is not lowered.
LEMMA SameWatermarks ==
  ASSUME NEW s, StateType(s)
  PROVE  s.wm_branch <= s.wm_branch /\ s.wm_trial <= s.wm_trial /\ s.wm_attempt <= s.wm_attempt
<1>1. s.wm_branch \in Nat /\ s.wm_trial \in Nat /\ s.wm_attempt \in Nat
  BY ZenonT(60) DEF StateType
<1> QED BY <1>1

\* A step that leaves branches, trials, attempts and the generations alone, drops no
\* observation and lowers no watermark.
LEMMA AsideInv ==
  ASSUME NEW s, StateInv(s), NEW r, StateType(r),
         r.branches = s.branches, r.trials = s.trials, r.attempts = s.attempts,
         r.generation = s.generation, r.hypothesis_revision = s.hypothesis_revision,
         \A n \in DOMAIN s.observations :
            n \in DOMAIN r.observations /\ r.observations[n] = s.observations[n],
         s.wm_branch <= r.wm_branch, s.wm_trial <= r.wm_trial, s.wm_attempt <= r.wm_attempt
  PROVE  StateInv(r) /\ Keeps(s, r) /\ SameOwners(s, r)
<1>1. OpenTrials(r) = OpenTrials(s) /\ LiveAttempts(r) = LiveAttempts(s)
  BY ZenonT(60) DEF OpenTrials, LiveAttempts
<1>2. ValidWatermarks(r)
  <2>1. /\ s.wm_branch \in Nat /\ s.wm_trial \in Nat /\ s.wm_attempt \in Nat
        /\ r.wm_branch \in Nat /\ r.wm_trial \in Nat /\ r.wm_attempt \in Nat
        /\ DOMAIN s.branches \subseteq Nat /\ DOMAIN s.trials \subseteq Nat
        /\ DOMAIN s.attempts \subseteq Nat
    BY ZenonT(120) DEF StateInv, StateType, IsMap
  <2>2. /\ \A b \in DOMAIN s.branches : b <= s.wm_branch
        /\ \A t \in DOMAIN s.trials : t <= s.wm_trial
        /\ \A a \in DOMAIN s.attempts : a <= s.wm_attempt
    BY ZenonT(60) DEF StateInv, ValidWatermarks
  <2> QED BY <2>1, <2>2 DEF ValidWatermarks
<1>3. AuthorityIsOwn(r) /\ LiveOnItsBranch(r) /\ LiveIsAuthoritative(r) /\ OpenIsCurrent(r)
  <2>1. AuthorityIsOwn(r)
    BY ZenonT(60) DEF StateInv, AuthorityIsOwn
  <2>2. LiveOnItsBranch(r) /\ LiveIsAuthoritative(r)
    BY ZenonT(60), <1>1 DEF StateInv, LiveOnItsBranch, LiveIsAuthoritative
  <2>3. OpenIsCurrent(r)
    BY ZenonT(60), <1>1 DEF StateInv, OpenIsCurrent
  <2> QED BY ZenonT(60), <2>1, <2>2, <2>3
<1>4. CommitIsUnique(r)
  BY SMTT(60) DEF StateInv, CommitIsUnique
<1>5. RestsOnEvidence(r)
  BY DEF StateInv, RestsOnEvidence, ObservationsOf
<1>6. Keeps(s, r) /\ SameOwners(s, r)
  BY <1>1 DEF Keeps, SameOwners
<1> QED BY ZenonT(60), <1>2, <1>3, <1>4, <1>5, <1>6 DEF StateInv

\* An attempt that commits is still the record of an attempt.
LEMMA CommittedRecord ==
  ASSUME NEW x \in AttemptRecord
  PROVE  [x EXCEPT !.state = "COMPLETED", !.committed = TRUE] \in AttemptRecord
<1>1. ASSUME NEW c \in BOOLEAN
      PROVE  [x EXCEPT !.state = "COMPLETED", !.committed = c] \in AttemptRecord
  BY ZenonT(120) DEF AttemptRecord, AttemptStates
<1>2. TRUE \in BOOLEAN
  OBVIOUS
<1> QED BY ZenonT(120), <1>1, <1>2

\* The committing attempt is the authoritative one of an open trial and has evidence.
LEMMA CommittedInv ==
  ASSUME NEW s, StateInv(s), NEW t \in OpenTrials(s), NEW a \in LiveAttempts(s),
         s.trials[t].authoritative_attempt = a, s.attempts[a].trial = t,
         ObservationsOf(s, t, a) # {},
         NEW r, r = Committed(s, t, a)
  PROVE  /\ StateInv(r) /\ Keeps(s, r) /\ SameOwners(s, r)
         /\ t \in DOMAIN r.trials /\ a \in DOMAIN r.attempts
         /\ r.trials[t].state = "COMPLETED" /\ r.trials[t].authoritative_attempt = a
         /\ r.attempts[a].committed
<1> DEFINE X == [s.trials EXCEPT ![t] = [@ EXCEPT !.state = "COMPLETED", !.committed_attempts = 1]]
           Y == [s.attempts EXCEPT ![a] = [@ EXCEPT !.state = "COMPLETED", !.committed = TRUE]]
<1>t. StateType(s)
  BY ZenonT(60) DEF StateInv
<1>1. /\ DOMAIN r = StateFields /\ r.trials = X /\ r.attempts = Y
      /\ \A f \in StateFields \ {"trials", "attempts"} : r[f] = s[f]
  <2>1. r = [s EXCEPT !.attempts = Y, !.trials = X]
    BY SMTT(60) DEF Committed
  <2> HIDE DEF X, Y
  <2> QED BY ZenonT(120), <1>t, <2>1 DEF StateType, StateFields
<1>m. /\ t \in DOMAIN s.trials /\ a \in DOMAIN s.attempts
      /\ s.trials \in [DOMAIN s.trials -> TrialRecord]
      /\ s.attempts \in [DOMAIN s.attempts -> AttemptRecord]
  BY ZenonT(60), <1>t DEF StateType, IsMap, OpenTrials, LiveAttempts
<1>2. /\ X \in [DOMAIN s.trials -> TrialRecord]
      /\ \A u \in DOMAIN s.trials : u # t => X[u] = s.trials[u]
      /\ X[t].state = "COMPLETED" /\ X[t].committed_attempts = 1
      /\ X[t].authoritative_attempt = a /\ X[t].branch = s.trials[t].branch
  BY ZenonT(120), <1>m DEF TrialRecord, TrialStates
<1>3. /\ Y \in [DOMAIN s.attempts -> AttemptRecord]
      /\ \A c \in DOMAIN s.attempts : c # a => Y[c] = s.attempts[c]
      /\ Y[a].state = "COMPLETED" /\ Y[a].committed /\ Y[a].trial = t
  <2>1. Y[a] = [s.attempts[a] EXCEPT !.state = "COMPLETED", !.committed = TRUE]
    BY <1>m
  <2>2. Y[a] \in AttemptRecord
    BY ZenonT(120), <1>m, <2>1, CommittedRecord
  <2>3. Y[a].state = "COMPLETED" /\ Y[a].committed = TRUE /\ Y[a].trial = t
    BY <1>m, <2>1 DEF AttemptRecord
  <2> QED BY <1>m, <2>2, <2>3
<1> HIDE DEF X, Y
<1>4. /\ r.branches = s.branches /\ r.observations = s.observations
      /\ r.generation = s.generation /\ r.hypothesis_revision = s.hypothesis_revision
      /\ r.wm_branch = s.wm_branch /\ r.wm_trial = s.wm_trial /\ r.wm_attempt = s.wm_attempt
  BY <1>1 DEF StateFields
<1>5. StateType(r)
  <2>1. DOMAIN s.trials \subseteq Nat \ {0} /\ DOMAIN s.attempts \subseteq Nat \ {0}
    BY ZenonT(60), <1>t DEF StateType, IsMap
  <2>2. IsMap(X, TrialRecord) /\ IsMap(Y, AttemptRecord)
    <3>1. DOMAIN X = DOMAIN s.trials /\ DOMAIN Y = DOMAIN s.attempts
      BY ZenonT(60), <1>2, <1>3
    <3> QED BY ZenonT(60), <1>2, <1>3, <2>1, <3>1 DEF IsMap
  <2>3. IsMap(r.trials, TrialRecord) /\ IsMap(r.attempts, AttemptRecord)
    BY ZenonT(60), <1>1, <2>2
  <2>4. \A f \in StateFields \ {"trials", "attempts"} : r[f] = s[f]
    BY ZenonT(60), <1>1
  <2> QED BY ZenonT(120), <1>1, <2>3, <2>4, <1>t DEF StateType, StateFields
<1>6. OpenTrials(r) = OpenTrials(s) \ {t} /\ LiveAttempts(r) = LiveAttempts(s) \ {a}
  BY <1>1, <1>2, <1>3 DEF OpenTrials, LiveAttempts, is_terminal, is_attempt_terminal
<1>7. \A c \in LiveAttempts(s) : c # a => s.attempts[c].trial # t
  BY ZenonT(120) DEF StateInv, LiveIsAuthoritative
<1>8. ValidWatermarks(r)
  BY ZenonT(60), <1>1, <1>2, <1>3, <1>4 DEF StateInv, ValidWatermarks
<1>9. AuthorityIsOwn(r)
  BY SMTT(60), <1>1, <1>2, <1>3, <1>m DEF StateInv, AuthorityIsOwn
<1>10. LiveIsAuthoritative(r) /\ LiveOnItsBranch(r)
  <2>1. \A c \in LiveAttempts(r) : /\ c \in LiveAttempts(s) /\ r.attempts[c] = s.attempts[c]
                                   /\ s.attempts[c].trial # t
    BY ZenonT(60), <1>1, <1>3, <1>6, <1>7 DEF LiveAttempts
  <2>2. \A u \in DOMAIN s.trials : u # t => r.trials[u] = s.trials[u]
    BY ZenonT(60), <1>1, <1>2
  <2>3. \A c \in LiveAttempts(s) :
          /\ s.attempts[c].trial \in OpenTrials(s) /\ s.attempts[c].trial \in DOMAIN s.trials
          /\ s.trials[s.attempts[c].trial].authoritative_attempt = c
    BY ZenonT(60) DEF StateInv, LiveIsAuthoritative, OpenTrials
  <2>4. LiveIsAuthoritative(r)
    <3>1. ASSUME NEW c \in LiveAttempts(r)
          PROVE  /\ r.attempts[c].trial \in OpenTrials(r)
                 /\ r.trials[r.attempts[c].trial].authoritative_attempt = c
      <4>1. /\ c \in LiveAttempts(s) /\ r.attempts[c] = s.attempts[c] /\ s.attempts[c].trial # t
        BY ZenonT(60), <3>1, <2>1
      <4>2. /\ r.trials[s.attempts[c].trial] = s.trials[s.attempts[c].trial]
            /\ s.attempts[c].trial \in OpenTrials(s)
            /\ s.trials[s.attempts[c].trial].authoritative_attempt = c
        BY ZenonT(60), <4>1, <2>2, <2>3
      <4> QED BY ZenonT(60), <1>6, <4>1, <4>2
    <3> QED BY ZenonT(60), <3>1 DEF LiveIsAuthoritative
  <2>5. LiveOnItsBranch(r)
    <3>1. ASSUME NEW c \in LiveAttempts(r)
          PROVE  r.attempts[c].branch = r.trials[r.attempts[c].trial].branch
      <4>1. /\ c \in LiveAttempts(s) /\ r.attempts[c] = s.attempts[c] /\ s.attempts[c].trial # t
        BY ZenonT(60), <3>1, <2>1
      <4>2. s.attempts[c].branch = s.trials[s.attempts[c].trial].branch
        BY ZenonT(60), <4>1 DEF StateInv, LiveOnItsBranch
      <4>3. r.trials[s.attempts[c].trial] = s.trials[s.attempts[c].trial]
        BY ZenonT(60), <4>1, <2>2, <2>3
      <4> QED BY ZenonT(60), <4>1, <4>2, <4>3
    <3> QED BY ZenonT(60), <3>1 DEF LiveOnItsBranch
  <2> QED BY ZenonT(60), <2>4, <2>5
<1>11. OpenIsCurrent(r)
  <2>1. ASSUME NEW u \in OpenTrials(r)
        PROVE  u \in OpenTrials(s) /\ r.trials[u] = s.trials[u]
    <3>1. u \in OpenTrials(s) /\ u # t
      BY ZenonT(60), <2>1, <1>6
    <3>2. u \in DOMAIN s.trials
      BY ZenonT(60), <3>1 DEF OpenTrials
    <3> QED BY ZenonT(60), <3>1, <3>2, <1>1, <1>2
  <2> QED BY ZenonT(60), <1>4, <2>1 DEF StateInv, OpenIsCurrent
<1>12. \A c \in DOMAIN s.attempts : s.attempts[c].committed => s.attempts[c].trial # t /\ c # a
  BY SMTT(60) DEF StateInv, CommitIsUnique, OpenTrials, LiveAttempts, is_terminal, is_attempt_terminal
<1>13. CommitIsUnique(r)
  <2>a. \A c \in DOMAIN s.attempts : c # a => r.attempts[c] = s.attempts[c]
    BY ZenonT(60), <1>1, <1>3
  <2>b. \A u \in DOMAIN s.trials : u # t => r.trials[u] = s.trials[u]
    BY <1>1, <1>2
  <2>c. DOMAIN r.trials = DOMAIN s.trials /\ DOMAIN r.attempts = DOMAIN s.attempts
    BY SMTT(60), <1>1, <1>2, <1>3
  <2>1. ASSUME NEW c \in DOMAIN r.attempts, r.attempts[c].committed
        PROVE  /\ r.attempts[c].state = "COMPLETED"
               /\ r.attempts[c].trial \in DOMAIN r.trials
               /\ r.trials[r.attempts[c].trial].state = "COMPLETED"
               /\ r.trials[r.attempts[c].trial].authoritative_attempt = c
    <3>1. CASE c = a
      BY ZenonT(60), <3>1, <1>1, <1>2, <1>3, <1>m
    <3>2. CASE c # a
      <4>1. c \in DOMAIN s.attempts /\ r.attempts[c] = s.attempts[c] /\ s.attempts[c].committed
        BY ZenonT(60), <2>1, <3>2, <2>a, <2>c
      <4>2. /\ s.attempts[c].state = "COMPLETED" /\ s.attempts[c].trial \in DOMAIN s.trials
            /\ s.trials[s.attempts[c].trial].state = "COMPLETED"
            /\ s.trials[s.attempts[c].trial].authoritative_attempt = c
        BY ZenonT(60), <4>1 DEF StateInv, CommitIsUnique
      <4>3. s.attempts[c].trial # t
        BY ZenonT(60), <4>1, <1>12
      <4>4. r.trials[s.attempts[c].trial] = s.trials[s.attempts[c].trial]
        BY ZenonT(60), <4>2, <4>3, <2>b
      <4> QED BY ZenonT(60), <4>1, <4>2, <4>4, <2>c
    <3> QED BY ZenonT(60), <3>1, <3>2
  <2>2. ASSUME NEW u \in DOMAIN r.trials
        PROVE  /\ r.trials[u].committed_attempts = 1 <=> r.trials[u].state = "COMPLETED"
               /\ r.trials[u].state = "COMPLETED" =>
                    \E c \in DOMAIN r.attempts : r.attempts[c].trial = u /\ r.attempts[c].committed
    <3>1. CASE u = t
      <4>1. r.trials[t].committed_attempts = 1 /\ r.trials[t].state = "COMPLETED"
        BY ZenonT(60), <1>1, <1>2
      <4>2. a \in DOMAIN r.attempts /\ r.attempts[a].trial = t /\ r.attempts[a].committed
        BY ZenonT(60), <1>1, <1>3, <1>m, <2>c
      <4> QED BY ZenonT(60), <3>1, <4>1, <4>2
    <3>2. CASE u # t
      <4>1. u \in DOMAIN s.trials /\ r.trials[u] = s.trials[u]
        BY ZenonT(60), <2>2, <3>2, <2>b, <2>c
      <4>2. /\ s.trials[u].committed_attempts = 1 <=> s.trials[u].state = "COMPLETED"
            /\ s.trials[u].state = "COMPLETED" =>
                 \E c \in DOMAIN s.attempts : s.attempts[c].trial = u /\ s.attempts[c].committed
        BY ZenonT(60), <4>1 DEF StateInv, CommitIsUnique
      <4>3. \A c \in DOMAIN s.attempts : s.attempts[c].committed => r.attempts[c] = s.attempts[c]
        BY ZenonT(60), <1>12, <2>a
      <4> QED BY ZenonT(60), <4>1, <4>2, <4>3, <2>c
    <3> QED BY ZenonT(60), <3>1, <3>2
  <2> QED BY ZenonT(60), <2>1, <2>2 DEF CommitIsUnique
<1>14. RestsOnEvidence(r)
  BY SMTT(60), <1>1, <1>2, <1>4 DEF StateInv, RestsOnEvidence, ObservationsOf
<1>15. Keeps(s, r)
  BY ZenonT(60), <1>1, <1>2, <1>3, <1>12 DEF Keeps, OpenTrials
<1>16. SameOwners(s, r)
  BY ZenonT(60), <1>1, <1>3, <1>6 DEF SameOwners, LiveAttempts
<1>17. /\ t \in DOMAIN r.trials /\ a \in DOMAIN r.attempts
       /\ r.trials[t].state = "COMPLETED" /\ r.trials[t].authoritative_attempt = a
       /\ r.attempts[a].committed
  BY ZenonT(60), <1>1, <1>2, <1>3, <1>m
<1> QED BY ZenonT(120), <1>5, <1>8, <1>9, <1>10, <1>11, <1>13, <1>14, <1>15, <1>16, <1>17 DEF StateInv

-----------------------------------------------------------------------------
(***************************************************************************)
(* Fork, creation and claim.                                               *)
(***************************************************************************)

\* What is said of commits and their evidence depends on the trials, the attempts and
\* the observations only.
LEMMA SameCommits ==
  ASSUME NEW s, NEW r, CommitIsUnique(s), RestsOnEvidence(s), r.trials = s.trials,
         r.attempts = s.attempts, r.observations = s.observations
  PROVE  CommitIsUnique(r) /\ RestsOnEvidence(r)
<1>1. CommitIsUnique(r)
  BY DEF CommitIsUnique
<1>2. \A t, a : ObservationsOf(r, t, a) = ObservationsOf(s, t, a)
  BY ZenonT(60) DEF ObservationsOf
<1>3. RestsOnEvidence(r)
  BY ZenonT(60), <1>2 DEF RestsOnEvidence
<1> QED BY ZenonT(60), <1>1, <1>3

\* Adding a branch or a trial under a fresh identity: fork_branch and create_trial.
LEMMA ForkedInv ==
  ASSUME NEW s, StateInv(s), NEW r, StateType(r), NEW id, id \notin DOMAIN s.branches,
         r.wm_branch = id, id \in Nat, s.wm_branch <= id,
         DOMAIN r.branches = DOMAIN s.branches \cup {id},
         \A b \in DOMAIN s.branches : r.branches[b] = s.branches[b],
         \A f \in StateFields \ {"branches", "wm_branch"} : r[f] = s[f]
  PROVE  StateInv(r) /\ Keeps(s, r) /\ SameOwners(s, r)
<1>1. /\ r.trials = s.trials /\ r.attempts = s.attempts /\ r.observations = s.observations
      /\ r.generation = s.generation /\ r.hypothesis_revision = s.hypothesis_revision
      /\ r.wm_trial = s.wm_trial /\ r.wm_attempt = s.wm_attempt
  BY SMTT(60) DEF StateFields
<1>2. OpenTrials(r) = OpenTrials(s) /\ LiveAttempts(r) = LiveAttempts(s)
  BY ZenonT(60), <1>1 DEF OpenTrials, LiveAttempts
<1>3. ValidWatermarks(r)
  <2>1. s.wm_branch \in Nat /\ DOMAIN s.branches \subseteq Nat
    BY ZenonT(120) DEF StateInv, StateType, IsMap
  <2>2. \A b \in DOMAIN s.branches : b <= s.wm_branch
    BY ZenonT(120) DEF StateInv, ValidWatermarks
  <2>3. \A b \in DOMAIN r.branches : b <= r.wm_branch
    BY <2>1, <2>2
  <2> QED BY ZenonT(60), <1>1, <2>3 DEF StateInv, ValidWatermarks
<1>4. AuthorityIsOwn(r) /\ LiveOnItsBranch(r) /\ LiveIsAuthoritative(r)
  BY ZenonT(120), <1>1, <1>2 DEF StateInv, AuthorityIsOwn, LiveOnItsBranch, LiveIsAuthoritative
<1>5. CommitIsUnique(r) /\ RestsOnEvidence(r)
  BY ZenonT(60), <1>1, SameCommits DEF StateInv
<1>6. OpenIsCurrent(r)
  BY SMTT(60), <1>1, <1>2 DEF StateInv, OpenIsCurrent
<1>7. Keeps(s, r) /\ SameOwners(s, r)
  BY <1>1, <1>2 DEF Keeps, SameOwners
<1> QED BY ZenonT(120), <1>3, <1>4, <1>5, <1>6, <1>7 DEF StateInv

\* A fresh trial has committed nothing: the commits of the others stay unique.
LEMMA NewTrialUncommitted ==
  ASSUME NEW s, NEW r, CommitIsUnique(s), r.attempts = s.attempts,
         DOMAIN s.trials \subseteq DOMAIN r.trials,
         \A t \in DOMAIN s.trials : r.trials[t] = s.trials[t],
         \A t \in DOMAIN r.trials \ DOMAIN s.trials :
           r.trials[t].committed_attempts = 0 /\ r.trials[t].state = "READY"
  PROVE  CommitIsUnique(r)
BY DEF CommitIsUnique

\* create_trial: the new trial is READY, current and has no attempt.
LEMMA CreatedInv ==
  ASSUME NEW s, StateInv(s), NEW r, StateType(r), NEW id, id \notin DOMAIN s.trials,
         r.wm_trial = id, id \in Nat, s.wm_trial <= id,
         DOMAIN r.trials = DOMAIN s.trials \cup {id},
         \A t \in DOMAIN s.trials : r.trials[t] = s.trials[t],
         r.trials[id].state = "READY", r.trials[id].authoritative_attempt = NoId,
         r.trials[id].committed_attempts = 0,
         r.trials[id].generation = s.generation,
         r.trials[id].hypothesis_revision = s.hypothesis_revision,
         r.trials[id].branch \in DOMAIN s.branches,
         r.trials[id].branch_generation = s.branches[r.trials[id].branch].generation,
         \A f \in StateFields \ {"trials", "wm_trial"} : r[f] = s[f]
  PROVE  StateInv(r) /\ Keeps(s, r) /\ SameOwners(s, r)
<1>1. /\ r.branches = s.branches /\ r.attempts = s.attempts /\ r.observations = s.observations
      /\ r.generation = s.generation /\ r.hypothesis_revision = s.hypothesis_revision
      /\ r.wm_branch = s.wm_branch /\ r.wm_attempt = s.wm_attempt
  BY ZenonT(60) DEF StateFields
<1>2. OpenTrials(r) = OpenTrials(s) \cup {id} /\ LiveAttempts(r) = LiveAttempts(s)
  BY ZenonT(60), <1>1 DEF OpenTrials, LiveAttempts, is_terminal
<1>3. ValidWatermarks(r)
  <2>1. s.wm_trial \in Nat /\ DOMAIN s.trials \subseteq Nat
    BY ZenonT(120) DEF StateInv, StateType, IsMap
  <2>2. \A t \in DOMAIN s.trials : t <= s.wm_trial
    BY ZenonT(60) DEF StateInv, ValidWatermarks
  <2>3. \A t \in DOMAIN r.trials : t <= r.wm_trial
    BY SMTT(60), <2>1, <2>2
  <2> QED BY ZenonT(60), <1>1, <2>3 DEF StateInv, ValidWatermarks
<1>4. AuthorityIsOwn(r)
  BY ZenonT(60), <1>1 DEF StateInv, AuthorityIsOwn
<1>5. LiveOnItsBranch(r) /\ LiveIsAuthoritative(r)
  <2> SUFFICES ASSUME NEW a \in LiveAttempts(r)
               PROVE  /\ r.attempts[a].branch = r.trials[r.attempts[a].trial].branch
                      /\ r.attempts[a].trial \in OpenTrials(r)
                      /\ r.trials[r.attempts[a].trial].authoritative_attempt = a
    BY ZenonT(120) DEF LiveOnItsBranch, LiveIsAuthoritative
  <2>1. a \in LiveAttempts(s) /\ r.attempts[a] = s.attempts[a]
    BY <1>1, <1>2
  <2>2. /\ s.attempts[a].branch = s.trials[s.attempts[a].trial].branch
        /\ s.attempts[a].trial \in OpenTrials(s)
        /\ s.trials[s.attempts[a].trial].authoritative_attempt = a
    BY ZenonT(120), <2>1 DEF StateInv, LiveOnItsBranch, LiveIsAuthoritative
  <2>3. r.trials[s.attempts[a].trial] = s.trials[s.attempts[a].trial]
    BY ZenonT(120), <2>2 DEF OpenTrials
  <2> QED BY ZenonT(120), <1>2, <2>1, <2>2, <2>3
<1>6. CommitIsUnique(r)
  <2>1. CommitIsUnique(s)
    BY ZenonT(60) DEF StateInv
  <2>2. \A t \in DOMAIN r.trials \ DOMAIN s.trials :
          r.trials[t].committed_attempts = 0 /\ r.trials[t].state = "READY"
    BY ZenonT(60)
  <2>3. DOMAIN s.trials \subseteq DOMAIN r.trials
    BY ZenonT(60)
  <2> QED BY ZenonT(60), <1>1, <2>1, <2>2, <2>3, NewTrialUncommitted
<1>7. RestsOnEvidence(r)
  BY SMTT(60), <1>1 DEF StateInv, RestsOnEvidence, ObservationsOf
<1>8. OpenIsCurrent(r)
  BY ZenonT(120), <1>1, <1>2 DEF StateInv, OpenIsCurrent, OpenTrials
<1>9. Keeps(s, r) /\ SameOwners(s, r)
  BY ZenonT(60), <1>1, <1>2 DEF Keeps, SameOwners
<1> QED BY ZenonT(120), <1>3, <1>4, <1>5, <1>6, <1>7, <1>8, <1>9 DEF StateInv

\* claim_trials: every trial of T, all of them READY, gets one of the fresh attempts
\* N as its authoritative one, and no two of them the same.
Claims(s, r, T, N) ==
  /\ T \subseteq DOMAIN s.trials /\ \A t \in T : s.trials[t].state = "READY"
  /\ N \cap DOMAIN s.attempts = {} /\ NoId \notin N
  /\ DOMAIN r.trials = DOMAIN s.trials /\ DOMAIN r.attempts = DOMAIN s.attempts \cup N
  /\ \A t \in DOMAIN s.trials : t \notin T => r.trials[t] = s.trials[t]
  /\ \A a \in DOMAIN s.attempts : r.attempts[a] = s.attempts[a]
  /\ \A t \in T : /\ r.trials[t].state = "ASSIGNED"
                  /\ r.trials[t].authoritative_attempt \in N
                  /\ r.attempts[r.trials[t].authoritative_attempt].trial = t
                  /\ r.trials[t].committed_attempts = s.trials[t].committed_attempts
                  /\ r.trials[t].branch = s.trials[t].branch
                  /\ r.trials[t].generation = s.trials[t].generation
                  /\ r.trials[t].branch_generation = s.trials[t].branch_generation
                  /\ r.trials[t].hypothesis_revision = s.trials[t].hypothesis_revision
  /\ \A a \in N : /\ r.attempts[a].trial \in T
                  /\ r.trials[r.attempts[a].trial].authoritative_attempt = a
                  /\ r.attempts[a].branch = s.trials[r.attempts[a].trial].branch
                  /\ r.attempts[a].state = "ISSUED" /\ r.attempts[a].committed = FALSE
  /\ \A a \in N : a <= r.wm_attempt
  /\ s.wm_attempt <= r.wm_attempt
  /\ \A f \in StateFields \ {"trials", "attempts", "wm_attempt"} : r[f] = s[f]

\* Such a claim preserves the invariant, and adds exactly N to the live attempts.
LEMMA ClaimedInv ==
  ASSUME NEW s, StateInv(s), NEW r, StateType(r), NEW T, NEW N, Claims(s, r, T, N)
  PROVE  /\ StateInv(r) /\ Keeps(s, r)
         /\ LiveAttempts(r) = LiveAttempts(s) \cup N
<1>a. /\ T \subseteq DOMAIN s.trials /\ \A t \in T : s.trials[t].state = "READY"
      /\ N \cap DOMAIN s.attempts = {} /\ NoId \notin N
      /\ DOMAIN r.trials = DOMAIN s.trials /\ DOMAIN r.attempts = DOMAIN s.attempts \cup N
  BY SMTT(60) DEF Claims
<1>b. /\ \A t \in DOMAIN s.trials : t \notin T => r.trials[t] = s.trials[t]
      /\ \A a \in DOMAIN s.attempts : r.attempts[a] = s.attempts[a]
  BY ZenonT(60) DEF Claims
<1>c. \A t \in T : /\ r.trials[t].state = "ASSIGNED"
                   /\ r.trials[t].authoritative_attempt \in N
                   /\ r.attempts[r.trials[t].authoritative_attempt].trial = t
                   /\ r.trials[t].committed_attempts = s.trials[t].committed_attempts
  BY ZenonT(60) DEF Claims
<1>d. \A t \in T : /\ r.trials[t].branch = s.trials[t].branch
                   /\ r.trials[t].generation = s.trials[t].generation
                   /\ r.trials[t].branch_generation = s.trials[t].branch_generation
                   /\ r.trials[t].hypothesis_revision = s.trials[t].hypothesis_revision
  BY SMTT(60) DEF Claims
<1>e. \A a \in N : /\ r.attempts[a].trial \in T
                   /\ r.trials[r.attempts[a].trial].authoritative_attempt = a
                   /\ r.attempts[a].branch = s.trials[r.attempts[a].trial].branch
                   /\ r.attempts[a].state = "ISSUED" /\ r.attempts[a].committed = FALSE
  BY ZenonT(60) DEF Claims
<1>1. /\ r.branches = s.branches /\ r.observations = s.observations
      /\ r.generation = s.generation /\ r.hypothesis_revision = s.hypothesis_revision
      /\ r.wm_branch = s.wm_branch /\ r.wm_trial = s.wm_trial
  BY ZenonT(60) DEF Claims, StateFields
<1>2. T \subseteq OpenTrials(s) /\ OpenTrials(r) = OpenTrials(s)
  BY ZenonT(60), <1>a, <1>b, <1>c DEF OpenTrials, is_terminal
<1>3. LiveAttempts(r) = LiveAttempts(s) \cup N
  BY ZenonT(60), <1>a, <1>b, <1>e DEF LiveAttempts, is_attempt_terminal
<1>4. \A a \in LiveAttempts(s) :
        /\ a \in DOMAIN s.attempts
        /\ s.attempts[a].trial \in OpenTrials(s) /\ s.attempts[a].trial \in DOMAIN s.trials
        /\ s.trials[s.attempts[a].trial].authoritative_attempt = a
        /\ s.attempts[a].trial \notin T
  <2>1. NoId \notin DOMAIN s.attempts
    BY ZenonT(120) DEF StateInv, StateType, IsMap, NoId
  <2>2. \A t \in T : s.trials[t].authoritative_attempt = NoId
    BY ZenonT(60), <1>a DEF StateInv, AuthorityIsOwn
  <2>3. \A a \in LiveAttempts(s) :
          /\ a \in DOMAIN s.attempts
          /\ s.attempts[a].trial \in OpenTrials(s) /\ s.attempts[a].trial \in DOMAIN s.trials
          /\ s.trials[s.attempts[a].trial].authoritative_attempt = a
    BY ZenonT(60) DEF StateInv, LiveIsAuthoritative, LiveAttempts, OpenTrials
  <2> QED BY ZenonT(60), <2>1, <2>2, <2>3
<1>5. ValidWatermarks(r)
  <2>1. s.wm_attempt \in Nat /\ r.wm_attempt \in Nat /\ DOMAIN s.attempts \subseteq Nat
    BY ZenonT(120) DEF StateInv, StateType, IsMap
  <2>2. \A a \in DOMAIN s.attempts : a <= s.wm_attempt
    BY ZenonT(120) DEF StateInv, ValidWatermarks
  <2>3. (\A a \in N : a <= r.wm_attempt) /\ s.wm_attempt <= r.wm_attempt
    BY ZenonT(60) DEF Claims
  <2>4. \A a \in DOMAIN r.attempts : a <= r.wm_attempt
    BY SMTT(60), <1>a, <2>1, <2>2, <2>3
  <2> QED BY ZenonT(60), <1>1, <1>a, <2>4 DEF StateInv, ValidWatermarks
<1>6. AuthorityIsOwn(r)
  <2> SUFFICES ASSUME NEW t \in DOMAIN s.trials
               PROVE  LET a == r.trials[t].authoritative_attempt
                      IN  /\ a # NoId => a \in DOMAIN r.attempts /\ r.attempts[a].trial = t
                          /\ r.trials[t].state = "READY" => a = NoId
    BY ZenonT(60), <1>a DEF AuthorityIsOwn
  <2>1. CASE t \in T
    BY ZenonT(60), <2>1, <1>a, <1>c
  <2>2. CASE t \notin T
    BY SMTT(60), <2>2, <1>a, <1>b DEF StateInv, AuthorityIsOwn
  <2> QED BY ZenonT(60), <2>1, <2>2
<1>7. LiveIsAuthoritative(r)
  <2> SUFFICES ASSUME NEW a \in LiveAttempts(r)
               PROVE  /\ r.attempts[a].trial \in OpenTrials(r)
                      /\ r.trials[r.attempts[a].trial].authoritative_attempt = a
    BY ZenonT(60) DEF LiveIsAuthoritative
  <2>1. CASE a \in N
    BY ZenonT(60), <2>1, <1>2, <1>e
  <2>2. CASE a \in LiveAttempts(s)
    BY ZenonT(60), <2>2, <1>2, <1>4, <1>b
  <2> QED BY ZenonT(60), <1>3, <2>1, <2>2
<1>8. LiveOnItsBranch(r)
  <2>1. \A a \in LiveAttempts(s) : r.attempts[a].branch = r.trials[r.attempts[a].trial].branch
    BY ZenonT(60), <1>4, <1>b DEF StateInv, LiveOnItsBranch
  <2>2. \A a \in N : r.attempts[a].branch = r.trials[r.attempts[a].trial].branch
    BY <1>d, <1>e
  <2> QED BY ZenonT(60), <1>3, <2>1, <2>2 DEF LiveOnItsBranch
<1>9. OpenIsCurrent(r)
  <2>1. \A t \in OpenTrials(s) :
          /\ r.trials[t].branch = s.trials[t].branch
          /\ r.trials[t].generation = s.trials[t].generation
          /\ r.trials[t].branch_generation = s.trials[t].branch_generation
          /\ r.trials[t].hypothesis_revision = s.trials[t].hypothesis_revision
    BY ZenonT(60), <1>b, <1>d DEF OpenTrials
  <2> QED BY ZenonT(60), <1>1, <1>2, <2>1 DEF StateInv, OpenIsCurrent
<1>10. \A t \in T : s.trials[t].committed_attempts # 1
  BY ZenonT(60), <1>a DEF StateInv, CommitIsUnique
<1>11. CommitIsUnique(r)
  <2>1. ASSUME NEW c \in DOMAIN r.attempts, r.attempts[c].committed
        PROVE  /\ r.attempts[c].state = "COMPLETED"
               /\ r.attempts[c].trial \in DOMAIN r.trials
               /\ r.trials[r.attempts[c].trial].state = "COMPLETED"
               /\ r.trials[r.attempts[c].trial].authoritative_attempt = c
    <3>1. c \in DOMAIN s.attempts /\ r.attempts[c] = s.attempts[c]
      BY ZenonT(60), <2>1, <1>a, <1>b, <1>e
    <3>2. /\ s.attempts[c].state = "COMPLETED"
          /\ s.attempts[c].trial \in DOMAIN s.trials
          /\ s.trials[s.attempts[c].trial].state = "COMPLETED"
          /\ s.trials[s.attempts[c].trial].authoritative_attempt = c
      BY ZenonT(60), <2>1, <3>1 DEF StateInv, CommitIsUnique
    <3> QED BY ZenonT(60), <3>1, <3>2, <1>a, <1>b
  <2>2. ASSUME NEW u \in DOMAIN r.trials
        PROVE  /\ r.trials[u].committed_attempts = 1 <=> r.trials[u].state = "COMPLETED"
               /\ r.trials[u].state = "COMPLETED" =>
                    \E c \in DOMAIN r.attempts : r.attempts[c].trial = u /\ r.attempts[c].committed
    <3>1. CASE u \in T
      BY ZenonT(60), <3>1, <1>10, <1>c
    <3>2. CASE u \notin T
      <4>1. CommitIsUnique(s)
        BY ZenonT(60) DEF StateInv
      <4>2. u \in DOMAIN s.trials /\ r.trials[u] = s.trials[u]
        BY ZenonT(60), <3>2, <1>a, <1>b
      <4> QED BY SMTT(60), <3>2, <4>1, <4>2, <1>a, <1>b DEF CommitIsUnique
    <3> QED BY ZenonT(60), <3>1, <3>2
  <2> QED BY ZenonT(60), <2>1, <2>2 DEF CommitIsUnique
<1>12. RestsOnEvidence(r)
  <2>1. \A t \in DOMAIN s.trials : r.trials[t].state = "COMPLETED" => r.trials[t] = s.trials[t]
    BY ZenonT(60), <1>b, <1>c
  <2> QED BY SMTT(60), <1>1, <1>a, <2>1 DEF StateInv, RestsOnEvidence, ObservationsOf
<1>13. Keeps(s, r)
  BY ZenonT(60), <1>2, <1>a, <1>b DEF Keeps, OpenTrials
<1> QED BY SMTT(60), <1>3, <1>5, <1>6, <1>7, <1>8, <1>9, <1>11, <1>12, <1>13 DEF StateInv

-----------------------------------------------------------------------------
(***************************************************************************)
(* The books.                                                              *)
(***************************************************************************)

\* The attempt x has become y by a step of the attempt table, or stayed what it was.
AttemptMoves(x, y) ==
  /\ y.number = x.number /\ y.trial = x.trial /\ y.inc = x.inc
  /\ y.state = x.state \/ y.state \in AttemptSuccessors(x.state)

\* The trial x has become y, and has the attempts it had.
TrialMoves(x, y) ==
  /\ y.branch = x.branch /\ y.generation = x.generation /\ y.attempt_count = x.attempt_count
  /\ y.next_attempt_number \in {x.next_attempt_number, x.attempt_count + 1}

\* Between s and r work has only moved on.
Moves(s, r) ==
  /\ DOMAIN r.attempts = DOMAIN s.attempts
  /\ \A a \in DOMAIN s.attempts : AttemptMoves(s.attempts[a], r.attempts[a])
  /\ DOMAIN r.trials = DOMAIN s.trials
  /\ \A t \in DOMAIN s.trials : TrialMoves(s.trials[t], r.trials[t])
  /\ DOMAIN r.branches = DOMAIN s.branches

\* Between s and r no worker has come, and at most some were revoked.
WorkersKept(s, r) ==
  \E I : r.workers = {IF w.inc \in I THEN [w EXCEPT !.revoked = TRUE] ELSE w : w \in s.workers}

-----------------------------------------------------------------------------
(***************************************************************************)
(* The states of an attempt.                                               *)
(***************************************************************************)

\* An attempt that has ended has no successor in the table.
LEMMA TerminalStays ==
  ASSUME NEW st \in AttemptStates, is_attempt_terminal(st)
  PROVE  AttemptSuccessors(st) = {}
BY ZenonT(60) DEF AttemptStates, is_attempt_terminal, AttemptSuccessors

\* A live attempt may end in any of the three ways a handler ends it, and recovery may
\* demote it or find it demoted.
LEMMA LiveMayEnd ==
  ASSUME NEW st \in AttemptStates, ~is_attempt_terminal(st)
  PROVE  /\ AttemptExits \subseteq AttemptSuccessors(st)
         /\ st = "REVALIDATION_REQUIRED" \/ "REVALIDATION_REQUIRED" \in AttemptSuccessors(st)
<1>1. st \in {"ISSUED", "RUNNING", "PUBLISHED", "REVALIDATION_REQUIRED"}
  BY DEF AttemptStates, is_attempt_terminal
<1>2. CASE st = "ISSUED"
  BY <1>2 DEF AttemptSuccessors
<1>3. CASE st = "RUNNING"
  BY <1>3 DEF AttemptSuccessors
<1>4. CASE st = "PUBLISHED"
  BY <1>4 DEF AttemptSuccessors
<1>5. CASE st = "REVALIDATION_REQUIRED"
  BY <1>5 DEF AttemptSuccessors
<1> QED BY ZenonT(60), <1>1, <1>2, <1>3, <1>4, <1>5

\* An attempt that moves and is live has been live before.
LEMMA MovesKeepEnded ==
  ASSUME NEW x \in AttemptRecord, NEW y \in AttemptRecord, AttemptMoves(x, y),
         ~is_attempt_terminal(y.state)
  PROVE  ~is_attempt_terminal(x.state)
<1> SUFFICES ASSUME is_attempt_terminal(x.state) PROVE FALSE
  OBVIOUS
<1>1. x.state \in AttemptStates
  BY DEF AttemptRecord
<1>2. AttemptSuccessors(x.state) = {}
  BY ZenonT(60), <1>1, TerminalStays
<1> QED BY <1>2 DEF AttemptMoves

-----------------------------------------------------------------------------
(***************************************************************************)
(* When work only moves on, the books stay in order.                       *)
(***************************************************************************)

\* The maps of a state are finite: their keys lie below the watermarks.
LEMMA FiniteMaps ==
  ASSUME NEW s, StateType(s), ValidWatermarks(s)
  PROVE  /\ IsFiniteSet(DOMAIN s.branches) /\ IsFiniteSet(DOMAIN s.trials)
         /\ IsFiniteSet(DOMAIN s.attempts)
<1>1. /\ s.wm_branch \in Nat /\ s.wm_trial \in Nat /\ s.wm_attempt \in Nat
      /\ DOMAIN s.branches \subseteq Nat \ {0} /\ DOMAIN s.trials \subseteq Nat \ {0}
      /\ DOMAIN s.attempts \subseteq Nat \ {0}
  BY ZenonT(60) DEF StateType, IsMap
<1>2. /\ DOMAIN s.branches \subseteq 1 .. s.wm_branch
      /\ DOMAIN s.trials \subseteq 1 .. s.wm_trial
      /\ DOMAIN s.attempts \subseteq 1 .. s.wm_attempt
  BY <1>1 DEF ValidWatermarks
<1>3. \A n \in Nat : IsFiniteSet(1 .. n)
  BY FS_Interval
<1> QED BY ZenonT(60), <1>1, <1>2, <1>3, FS_Subset

\* The live attempts of an incarnation are finitely many.
LEMMA FiniteActive ==
  ASSUME NEW s, StateType(s), ValidWatermarks(s), NEW i
  PROVE  IsFiniteSet(ActiveOf(s, i)) /\ Cardinality(ActiveOf(s, i)) \in Nat
<1>1. ActiveOf(s, i) \subseteq DOMAIN s.attempts
  BY ZenonT(60) DEF ActiveOf, LiveAttempts
<1> QED BY ZenonT(60), <1>1, FiniteMaps, FS_Subset, FS_CardinalityType

\* Head-room is only given back.
LEMMA HeadRoomKept ==
  ASSUME NEW s, NEW r, StateType(s), StateType(r), ValidWatermarks(s), HeadRoom(s), Moves(s, r)
  PROVE  HeadRoom(r)
<1> SUFFICES ASSUME NEW i \in Incarnation
             PROVE  Cardinality(ActiveOf(r, i)) <= MaxConcurrent
  BY DEF HeadRoom
<1>1. ActiveOf(r, i) \subseteq ActiveOf(s, i)
  <2> SUFFICES ASSUME NEW a \in ActiveOf(r, i) PROVE a \in ActiveOf(s, i)
    OBVIOUS
  <2>1. /\ a \in DOMAIN s.attempts /\ a \in DOMAIN r.attempts
        /\ AttemptMoves(s.attempts[a], r.attempts[a])
        /\ ~is_attempt_terminal(r.attempts[a].state) /\ r.attempts[a].inc = i
    BY ZenonT(60) DEF ActiveOf, LiveAttempts, Moves
  <2>2. s.attempts[a] \in AttemptRecord /\ r.attempts[a] \in AttemptRecord
    BY ZenonT(60), <2>1 DEF StateType, IsMap
  <2>3. ~is_attempt_terminal(s.attempts[a].state)
    BY ZenonT(60), <2>1, <2>2, MovesKeepEnded
  <2> QED BY ZenonT(60), <2>1, <2>3 DEF ActiveOf, LiveAttempts, AttemptMoves
<1>2. Cardinality(ActiveOf(s, i)) <= MaxConcurrent /\ MaxConcurrent \in Nat
  BY ZenonT(60), DefinitionAssumption DEF HeadRoom
<1>3. /\ IsFiniteSet(ActiveOf(s, i)) /\ Cardinality(ActiveOf(s, i)) \in Nat
      /\ Cardinality(ActiveOf(r, i)) <= Cardinality(ActiveOf(s, i))
      /\ Cardinality(ActiveOf(r, i)) \in Nat
  BY ZenonT(60), <1>1, FiniteActive, FS_Subset, FS_CardinalityType
<1> QED BY <1>2, <1>3

\* The numbers of the attempts stay.
LEMMA AttemptsCountedKept ==
  ASSUME NEW s, NEW r, StateType(s), AttemptsCounted(s), Moves(s, r)
  PROVE  AttemptsCounted(r)
<1>1. /\ DOMAIN r.attempts = DOMAIN s.attempts /\ DOMAIN r.trials = DOMAIN s.trials
      /\ \A a \in DOMAIN s.attempts : /\ r.attempts[a].number = s.attempts[a].number
                                      /\ r.attempts[a].trial = s.attempts[a].trial
      /\ \A t \in DOMAIN s.trials : r.trials[t].attempt_count = s.trials[t].attempt_count
  BY ZenonT(60) DEF Moves, AttemptMoves, TrialMoves
<1>2. \A t \in DOMAIN s.trials : r.trials[t].next_attempt_number = r.trials[t].attempt_count + 1
  BY ZenonT(60) DEF Moves, TrialMoves, AttemptsCounted
<1>3. \A a \in DOMAIN r.attempts :
        /\ r.attempts[a].trial \in DOMAIN r.trials
        /\ r.attempts[a].number \in 1 .. r.trials[r.attempts[a].trial].attempt_count
  BY <1>1 DEF AttemptsCounted
<1>4. \A a, c \in DOMAIN r.attempts :
        r.attempts[a].trial = r.attempts[c].trial /\ r.attempts[a].number = r.attempts[c].number => a = c
  BY ZenonT(60), <1>1 DEF AttemptsCounted
<1>5. ASSUME NEW t \in DOMAIN r.trials
      PROVE  /\ r.trials[t].attempt_count <= MaxAttempts
             /\ RetryPolicy = "NO_RETRY" => r.trials[t].attempt_count <= 1
             /\ \A k \in 1 .. r.trials[t].attempt_count :
                  \E a \in DOMAIN r.attempts : r.attempts[a].trial = t /\ r.attempts[a].number = k
  BY <1>1 DEF AttemptsCounted
<1> QED BY ZenonT(60), <1>1, <1>2, <1>3, <1>4, <1>5 DEF AttemptsCounted

\* So do the counts of the trials.
LEMMA TrialsCountedKept ==
  ASSUME NEW s, NEW r, TrialsCounted(s), Moves(s, r)
  PROVE  TrialsCounted(r)
BY ZenonT(60) DEF TrialsCounted, Moves, TrialMoves

\* A revocation leaves one record of every incarnation.
LEMMA WorkersStayValid ==
  ASSUME NEW s, NEW r, StateType(s), StateType(r), ValidWorkers(s), WorkersKept(s, r),
         \A w \in s.workers : w.epoch <= s.last_epoch, s.last_epoch <= r.last_epoch
  PROVE  /\ ValidWorkers(r) /\ \A w \in r.workers : w.epoch <= r.last_epoch
         /\ \A w \in r.workers : \E v \in s.workers :
              v.inc = w.inc /\ v.epoch = w.epoch /\ (v.revoked => w.revoked)
<1>1. PICK I : r.workers = {IF w.inc \in I THEN [w EXCEPT !.revoked = TRUE] ELSE w : w \in s.workers}
  BY ZenonT(60) DEF WorkersKept
<1> DEFINE f(w) == IF w.inc \in I THEN [w EXCEPT !.revoked = TRUE] ELSE w
<1>2. \A w \in s.workers : /\ f(w).inc = w.inc /\ f(w).epoch = w.epoch /\ (w.revoked => f(w).revoked)
                           /\ w.epoch \in Nat
  BY DEF StateType, WorkerIncarnation
<1>3. r.workers = {f(w) : w \in s.workers}
  BY ZenonT(60), <1>1
<1> HIDE DEF f
<1>4. s.last_epoch \in Nat /\ r.last_epoch \in Nat
  BY ZenonT(60) DEF StateType
<1>5. ValidWorkers(r)
  <2> SUFFICES ASSUME NEW v \in s.workers, NEW w \in s.workers, f(v).inc = f(w).inc
               PROVE  f(v) = f(w)
    BY ZenonT(60), <1>3 DEF ValidWorkers
  <2>1. v = w
    BY ZenonT(60), <1>2 DEF ValidWorkers
  <2> QED BY ZenonT(60), <2>1
<1>6. \A w \in r.workers : w.epoch <= r.last_epoch
  BY <1>2, <1>3, <1>4
<1> QED BY ZenonT(60), <1>2, <1>3, <1>5, <1>6

-----------------------------------------------------------------------------
(***************************************************************************)
(* The mutations handlers share only move work on.                         *)
(***************************************************************************)

\* An attempt keeps its number, its trial and its worker when its state is set.
LEMMA StateSet ==
  ASSUME NEW x \in AttemptRecord, NEW st,
         st = x.state \/ st \in AttemptSuccessors(x.state)
  PROVE  AttemptMoves(x, [x EXCEPT !.state = st])
BY DEF AttemptRecord, AttemptMoves

\* An attempt that is left alone moves.
LEMMA AttemptStays == ASSUME NEW x PROVE AttemptMoves(x, x)
BY ZenonT(60) DEF AttemptMoves

\* Ending or demoting live attempts follows the table.
LEMMA SetAttemptsMoves ==
  ASSUME NEW s, StateType(s), NEW A, A \subseteq LiveAttempts(s),
         NEW st \in AttemptExits \cup {"REVALIDATION_REQUIRED"}
  PROVE  /\ DOMAIN SetAttempts(s, A, st) = DOMAIN s.attempts
         /\ \A a \in DOMAIN s.attempts : AttemptMoves(s.attempts[a], SetAttempts(s, A, st)[a])
<1> SUFFICES ASSUME NEW a \in DOMAIN s.attempts
             PROVE  AttemptMoves(s.attempts[a], SetAttempts(s, A, st)[a])
  BY ZenonT(60) DEF SetAttempts
<1>1. s.attempts[a] \in AttemptRecord
  BY DEF StateType, IsMap
<1>2. CASE a \in A
  <2>1. s.attempts[a].state \in AttemptStates /\ ~is_attempt_terminal(s.attempts[a].state)
    BY <1>1, <1>2 DEF AttemptRecord, LiveAttempts
  <2>2. st = s.attempts[a].state \/ st \in AttemptSuccessors(s.attempts[a].state)
    BY <2>1, LiveMayEnd
  <2>3. SetAttempts(s, A, st)[a] = [s.attempts[a] EXCEPT !.state = st]
    BY <1>2 DEF SetAttempts
  <2> QED BY ZenonT(60), <1>1, <2>2, <2>3, StateSet
<1>3. CASE a \notin A
  <2>1. SetAttempts(s, A, st)[a] = s.attempts[a]
    BY <1>3 DEF SetAttempts
  <2> QED BY <2>1, AttemptStays
<1> QED BY ZenonT(60), <1>2, <1>3

\* A trial keeps its attempts when its state is set, and when it is requeued.
LEMMA TrialStays ==
  ASSUME NEW x \in TrialRecord
  PROVE  /\ TrialMoves(x, x)
         /\ \A st : TrialMoves(x, [x EXCEPT !.state = st])
         /\ \A retry : TrialMoves(x, Requeue(x, retry))
<1>1. TrialMoves(x, x)
  BY DEF TrialMoves
<1>2. ASSUME NEW st PROVE TrialMoves(x, [x EXCEPT !.state = st])
  BY DEF TrialMoves, TrialRecord
<1>3. TrialMoves(x, Requeued(x))
  BY DEF TrialMoves, TrialRecord, Requeued
<1>4. ASSUME NEW retry PROVE TrialMoves(x, Requeue(x, retry))
  BY ZenonT(60), <1>2, <1>3 DEF Requeue
<1> QED BY <1>1, <1>2, <1>4

\* Setting the state of trials keeps their attempts.
LEMMA SetTrialsMoves ==
  ASSUME NEW s, StateType(s), NEW T, NEW st
  PROVE  /\ DOMAIN SetTrials(s, T, st) = DOMAIN s.trials
         /\ \A t \in DOMAIN s.trials : TrialMoves(s.trials[t], SetTrials(s, T, st)[t])
<1> SUFFICES ASSUME NEW t \in DOMAIN s.trials
             PROVE  TrialMoves(s.trials[t], SetTrials(s, T, st)[t])
  BY ZenonT(60) DEF SetTrials
<1>1. s.trials[t] \in TrialRecord
  BY DEF StateType, IsMap
<1>2. SetTrials(s, T, st)[t] \in {s.trials[t], [s.trials[t] EXCEPT !.state = st]}
  BY DEF SetTrials
<1> QED BY ZenonT(60), <1>1, <1>2, TrialStays

\* Requeuing trials, or leaving them alone, keeps their attempts.
LEMMA RequeuesMove ==
  ASSUME NEW s, StateType(s), NEW X, DOMAIN X = DOMAIN s.trials,
         \A t \in DOMAIN s.trials : X[t] = s.trials[t] \/ \E retry : X[t] = Requeue(s.trials[t], retry)
  PROVE  \A t \in DOMAIN s.trials : TrialMoves(s.trials[t], X[t])
<1>1. \A t \in DOMAIN s.trials : s.trials[t] \in TrialRecord
  BY DEF StateType, IsMap
<1> QED BY ZenonT(60), <1>1, TrialStays

\* What does not touch trials, attempts and branches moves nothing.
LEMMA NothingMoves ==
  ASSUME NEW s, NEW r, StateType(s),
         r.attempts = s.attempts, r.trials = s.trials, DOMAIN r.branches = DOMAIN s.branches
  PROVE  Moves(s, r)
<1>1. \A t \in DOMAIN s.trials : s.trials[t] \in TrialRecord
  BY DEF StateType, IsMap
<1> QED BY ZenonT(60), <1>1, AttemptStays, TrialStays DEF Moves

\* What does not touch the workers keeps them.
LEMMA WorkersSame ==
  ASSUME NEW s, NEW r, r.workers = s.workers
  PROVE  WorkersKept(s, r)
<1>1. PICK I : I = {}
  OBVIOUS
<1> DEFINE f(w) == IF w.inc \in I THEN [w EXCEPT !.revoked = TRUE] ELSE w
<1>2. \A w : f(w) = w
  BY <1>1
<1> HIDE DEF f
<1>3. r.workers = {f(w) : w \in s.workers}
  BY <1>2
<1> QED BY ZenonT(60), <1>3 DEF WorkersKept, f

\* A handler of this kind moves work on and touches neither artifacts nor epoch.
Tame(s, r) ==
  /\ Moves(s, r) /\ WorkersKept(s, r)
  /\ r.artifacts = s.artifacts /\ r.last_epoch = s.last_epoch

\* abandon_stale_live_work is of this kind.
LEMMA AbandonTame ==
  ASSUME NEW s, StateType(s)
  PROVE  Tame(s, abandon_stale_live_work(s))
<1> DEFINE r == abandon_stale_live_work(s)
           Y == SetAttempts(s, LiveAttempts(s), "ABANDONED")
           X == SetTrials(s, OpenTrials(s), "SUPERSEDED")
<1>1. /\ r.attempts = Y /\ r.trials = X /\ r.branches = s.branches
      /\ r.artifacts = s.artifacts /\ r.workers = s.workers /\ r.last_epoch = s.last_epoch
  <2>1. r = [s EXCEPT !.attempts = Y, !.trials = X]
    BY ZenonT(60) DEF abandon_stale_live_work
  <2> HIDE DEF r, X, Y
  <2> QED BY <2>1 DEF StateType, StateFields
<1>2. DOMAIN Y = DOMAIN s.attempts /\ \A a \in DOMAIN s.attempts : AttemptMoves(s.attempts[a], Y[a])
  BY ZenonT(60), SetAttemptsMoves DEF AttemptExits
<1>3. DOMAIN X = DOMAIN s.trials /\ \A t \in DOMAIN s.trials : TrialMoves(s.trials[t], X[t])
  BY ZenonT(60), SetTrialsMoves
<1> HIDE DEF r, X, Y
<1> QED BY <1>1, <1>2, <1>3, WorkersSame DEF Tame, Moves, r

\* The loss of producers is of this kind.
LEMMA LoseProducersTame ==
  ASSUME NEW s, StateType(s), NEW I
  PROVE  Tame(s, LoseProducers(s, I))
<1> DEFINE gone == {a \in LiveAttempts(s) : s.attempts[a].inc \in I}
           hit(t) == t \in OpenTrials(s) /\ \E a \in gone : /\ s.attempts[a].trial = t
                                                           /\ s.trials[t].authoritative_attempt = a
           Y == SetAttempts(s, gone, "ABANDONED")
           X == [t \in DOMAIN s.trials |->
                   IF hit(t) THEN Requeue(s.trials[t], RetryRemains(s.trials[t])) ELSE s.trials[t]]
           W == {IF w.inc \in I THEN [w EXCEPT !.revoked = TRUE] ELSE w : w \in s.workers}
           r == LoseProducers(s, I)
<1>1. /\ r.attempts = Y /\ r.trials = X /\ r.branches = s.branches
      /\ r.artifacts = s.artifacts /\ r.workers = W /\ r.last_epoch = s.last_epoch
  <2>1. r = [s EXCEPT !.attempts = Y, !.trials = X, !.workers = W]
    BY ZenonT(60) DEF LoseProducers
  <2> HIDE DEF r, X, Y, W
  <2> QED BY ZenonT(60), <2>1 DEF StateType, StateFields
<1>2. DOMAIN Y = DOMAIN s.attempts /\ \A a \in DOMAIN s.attempts : AttemptMoves(s.attempts[a], Y[a])
  BY SetAttemptsMoves DEF AttemptExits
<1>3. DOMAIN X = DOMAIN s.trials /\ \A t \in DOMAIN s.trials : TrialMoves(s.trials[t], X[t])
  <2>1. \A t \in DOMAIN s.trials : X[t] = s.trials[t] \/ \E retry : X[t] = Requeue(s.trials[t], retry)
    <3> HIDE DEF hit
    <3> QED OBVIOUS
  <2>2. DOMAIN X = DOMAIN s.trials
    OBVIOUS
  <2> HIDE DEF X
  <2> QED BY ZenonT(60), <2>1, <2>2, RequeuesMove
<1>4. WorkersKept(s, r)
  BY ZenonT(60), <1>1 DEF WorkersKept
<1> HIDE DEF r, X, Y, W
<1> QED BY ZenonT(60), <1>1, <1>2, <1>3, <1>4 DEF Tame, Moves, r

\* Live attempts ended or demoted, and trials set to some state.
LEMMA SetsMove ==
  ASSUME NEW s, NEW r, StateType(s), NEW A, A \subseteq LiveAttempts(s), NEW T, NEW tt,
         NEW st \in AttemptExits \cup {"REVALIDATION_REQUIRED"},
         r.attempts = SetAttempts(s, A, st), r.trials = SetTrials(s, T, tt),
         DOMAIN r.branches = DOMAIN s.branches
  PROVE  Moves(s, r)
<1>1. /\ DOMAIN r.attempts = DOMAIN s.attempts
      /\ \A a \in DOMAIN s.attempts : AttemptMoves(s.attempts[a], r.attempts[a])
  BY ZenonT(60), SetAttemptsMoves
<1>2. /\ DOMAIN r.trials = DOMAIN s.trials
      /\ \A t \in DOMAIN s.trials : TrialMoves(s.trials[t], r.trials[t])
  BY ZenonT(60), SetTrialsMoves
<1> QED BY ZenonT(60), <1>1, <1>2 DEF Moves

\* One trial and one attempt moved.
LEMMA PointMoves ==
  ASSUME NEW s, NEW r, StateType(s), NEW t \in DOMAIN s.trials, NEW a \in DOMAIN s.attempts,
         NEW x, TrialMoves(s.trials[t], x), NEW y, AttemptMoves(s.attempts[a], y),
         r.trials = [s.trials EXCEPT ![t] = x], r.attempts = [s.attempts EXCEPT ![a] = y],
         DOMAIN r.branches = DOMAIN s.branches
  PROVE  Moves(s, r)
<1>1. /\ DOMAIN r.attempts = DOMAIN s.attempts /\ r.attempts[a] = y
      /\ \A c \in DOMAIN s.attempts : c # a => r.attempts[c] = s.attempts[c]
  BY ZenonT(60) DEF StateType, IsMap
<1>2. /\ DOMAIN r.trials = DOMAIN s.trials /\ r.trials[t] = x
      /\ \A u \in DOMAIN s.trials : u # t => r.trials[u] = s.trials[u]
  BY ZenonT(60) DEF StateType, IsMap
<1>3. \A u \in DOMAIN s.trials : s.trials[u] \in TrialRecord
  BY ZenonT(60) DEF StateType, IsMap
<1>4. \A c \in DOMAIN s.attempts : AttemptMoves(s.attempts[c], r.attempts[c])
  BY ZenonT(60), <1>1, AttemptStays
<1>5. \A u \in DOMAIN s.trials : TrialMoves(s.trials[u], r.trials[u])
  BY ZenonT(60), <1>2, <1>3, TrialStays
<1> QED BY ZenonT(60), <1>1, <1>2, <1>4, <1>5 DEF Moves

\* The first pass of recovery is of this kind.
LEMMA DemotedTame ==
  ASSUME NEW s, StateType(s)
  PROVE  Tame(s, Demoted(s))
<1> DEFINE r == Demoted(s)
           Y == SetAttempts(s, LiveAttempts(s), "REVALIDATION_REQUIRED")
           X == SetTrials(s, OpenTrials(s), "REVALIDATION_REQUIRED")
<1>1. /\ r.attempts = Y /\ r.trials = X /\ r.branches = s.branches
      /\ r.artifacts = s.artifacts /\ r.workers = s.workers /\ r.last_epoch = s.last_epoch
  <2>1. r = [s EXCEPT !.attempts = Y, !.trials = X]
    BY DEF Demoted
  <2> HIDE DEF r, X, Y
  <2> QED BY <2>1 DEF StateType, StateFields
<1> HIDE DEF r
<1>2. Moves(s, r)
  BY ZenonT(60), <1>1, SetsMove
<1> QED BY ZenonT(60), <1>1, <1>2, WorkersSame DEF Tame, r

\* So is the second.
LEMMA ResolvedTame ==
  ASSUME NEW s, StateType(s)
  PROVE  Tame(s, Resolved(s))
<1> DEFINE r == Resolved(s)
           staged == {t \in DOMAIN s.trials : s.trials[t].state = "REVALIDATION_REQUIRED"}
           A == {a \in LiveAttempts(s) : s.attempts[a].trial \in staged}
           Y == SetAttempts(s, A, "ABANDONED")
           X == [t \in DOMAIN s.trials |->
                   IF t \in staged THEN Requeue(s.trials[t], Recoverable(s, s.trials[t]))
                                   ELSE s.trials[t]]
<1>1. /\ r.attempts = Y /\ r.trials = X /\ r.branches = s.branches
      /\ r.artifacts = s.artifacts /\ r.workers = s.workers /\ r.last_epoch = s.last_epoch
  <2>1. r = [s EXCEPT !.trials = X, !.attempts = Y]
    BY ZenonT(60) DEF Resolved
  <2> HIDE DEF r, X, Y
  <2> QED BY <2>1 DEF StateType, StateFields
<1>2. DOMAIN Y = DOMAIN s.attempts /\ \A a \in DOMAIN s.attempts : AttemptMoves(s.attempts[a], Y[a])
  BY ZenonT(60), SetAttemptsMoves DEF AttemptExits
<1>3. DOMAIN X = DOMAIN s.trials /\ \A t \in DOMAIN s.trials : TrialMoves(s.trials[t], X[t])
  <2>1. \A t \in DOMAIN s.trials : X[t] = s.trials[t] \/ \E retry : X[t] = Requeue(s.trials[t], retry)
    <3> HIDE DEF staged
    <3> QED OBVIOUS
  <2>2. DOMAIN X = DOMAIN s.trials
    OBVIOUS
  <2> HIDE DEF X
  <2> QED BY ZenonT(60), <2>1, <2>2, RequeuesMove
<1> HIDE DEF r, X, Y
<1> QED BY <1>1, <1>2, <1>3, WorkersSame DEF Tame, Moves, r

\* A step that touches none of trials, attempts, branches, artifacts, workers and epoch.
LEMMA AsideTame ==
  ASSUME NEW s, NEW r, StateType(s), r.attempts = s.attempts, r.trials = s.trials,
         r.branches = s.branches, r.artifacts = s.artifacts, r.workers = s.workers,
         r.last_epoch = s.last_epoch
  PROVE  Tame(s, r)
BY ZenonT(60), NothingMoves, WorkersSame DEF Tame

\* Artifacts refer to attempts that are still there.
LEMMA ArtifactsStayValid ==
  ASSUME NEW s, NEW r, IsFiniteSet(s.artifacts), ValidArtifacts(s),
         r.artifacts = s.artifacts, DOMAIN s.attempts \subseteq DOMAIN r.attempts
  PROVE  IsFiniteSet(r.artifacts) /\ ValidArtifacts(r)
BY DEF ValidArtifacts

\* The books of the new state are in order.
LEMMA TameBooks ==
  ASSUME NEW s, NEW r, StateType(s), StateType(r), ValidWatermarks(s), Books(s), Tame(s, r)
  PROVE  Books(r)
<1>1. HeadRoom(r) /\ AttemptsCounted(r) /\ TrialsCounted(r)
  BY ZenonT(60), HeadRoomKept, AttemptsCountedKept, TrialsCountedKept DEF Books, Tame
<1>2. IsFiniteSet(r.artifacts) /\ ValidArtifacts(r)
  BY ZenonT(60), ArtifactsStayValid DEF Books, Tame, Moves
<1>3. s.last_epoch <= r.last_epoch
  BY DEF Tame, StateType
<1>4. ValidWorkers(r) /\ \A w \in r.workers : w.epoch <= r.last_epoch
  BY ZenonT(60), <1>3, WorkersStayValid DEF Books, Tame
<1> QED BY ZenonT(60), <1>1, <1>2, <1>4 DEF Books

\* A trial that is requeued is a trial.
LEMMA RequeueTyped ==
  ASSUME NEW trial \in TrialRecord, NEW retry
  PROVE  Requeue(trial, retry) \in TrialRecord
<1>1. trial.attempt_count + 1 \in Nat /\ NoId \in Nat
  BY DEF TrialRecord, NoId
<1>2. "READY" \in TrialStates /\ "FAILED" \in TrialStates
  BY DEF TrialStates
<1>3. Requeued(trial) \in TrialRecord
  <2> HIDE DEF NoId
  <2> QED BY ZenonT(60), <1>1, <1>2 DEF Requeued, TrialRecord
<1>4. [trial EXCEPT !.state = "FAILED"] \in TrialRecord
  BY ZenonT(60), <1>2 DEF TrialRecord
<1> QED BY ZenonT(60), <1>3, <1>4 DEF Requeue

\* Setting the states of trials and attempts leaves maps of trials and attempts.
LEMMA SetsTyped ==
  ASSUME NEW s, StateType(s), NEW T, NEW st \in TrialStates, NEW A, NEW sa \in AttemptStates
  PROVE  IsMap(SetTrials(s, T, st), TrialRecord) /\ IsMap(SetAttempts(s, A, sa), AttemptRecord)
<1>1. IsMap(s.trials, TrialRecord) /\ IsMap(s.attempts, AttemptRecord)
  BY ZenonT(60) DEF StateType
<1>2. \A t \in DOMAIN s.trials : /\ s.trials[t] \in TrialRecord
                                /\ [s.trials[t] EXCEPT !.state = st] \in TrialRecord
  BY ZenonT(60), <1>1 DEF IsMap, TrialRecord
<1>3. \A a \in DOMAIN s.attempts : /\ s.attempts[a] \in AttemptRecord
                                  /\ [s.attempts[a] EXCEPT !.state = sa] \in AttemptRecord
  BY ZenonT(60), <1>1 DEF IsMap, AttemptRecord
<1> QED BY ZenonT(60), <1>1, <1>2, <1>3 DEF IsMap, SetTrials, SetAttempts

\* The loss of producers leaves a state.
LEMMA LostTyped ==
  ASSUME NEW s, StateType(s), NEW I
  PROVE  StateType(LoseProducers(s, I))
<1> DEFINE gone == {a \in LiveAttempts(s) : s.attempts[a].inc \in I}
           hit(t) == t \in OpenTrials(s) /\ \E a \in gone : /\ s.attempts[a].trial = t
                                                           /\ s.trials[t].authoritative_attempt = a
           Y == SetAttempts(s, gone, "ABANDONED")
           X == [t \in DOMAIN s.trials |->
                   IF hit(t) THEN Requeue(s.trials[t], RetryRemains(s.trials[t])) ELSE s.trials[t]]
           W == {IF w.inc \in I THEN [w EXCEPT !.revoked = TRUE] ELSE w : w \in s.workers}
           r == LoseProducers(s, I)
<1>1. r = [s EXCEPT !.attempts = Y, !.trials = X, !.workers = W]
  BY ZenonT(60) DEF LoseProducers
<1>2. IsMap(Y, AttemptRecord)
  <2>1. "ABANDONED" \in AttemptStates /\ "FAILED" \in TrialStates
    BY DEF AttemptStates, TrialStates
  <2> QED BY ZenonT(60), <2>1, SetsTyped
<1>3. IsMap(X, TrialRecord)
  <2> HIDE DEF hit
  <2>1. IsMap(s.trials, TrialRecord)
    BY ZenonT(60) DEF StateType
  <2>2. \A t \in DOMAIN s.trials : X[t] \in TrialRecord
    BY ZenonT(60), <2>1, RequeueTyped DEF IsMap
  <2> QED BY ZenonT(60), <2>1, <2>2 DEF IsMap
<1>4. W \subseteq WorkerIncarnation
  BY ZenonT(120) DEF StateType, WorkerIncarnation
<1> HIDE DEF r, X, Y, W
<1>5. /\ r.trials = X /\ r.attempts = Y /\ r.workers = W /\ DOMAIN r = StateFields
      /\ \A f \in StateFields \ {"trials", "attempts", "workers"} : r[f] = s[f]
  BY ZenonT(120), <1>1 DEF StateType, StateFields
<1>6. StateType(r)
  BY ZenonT(60), <1>2, <1>3, <1>4, <1>5 DEF StateType, StateFields
<1> QED BY ZenonT(60), <1>6 DEF r

\* The first pass of recovery leaves a state.
LEMMA DemotedTyped ==
  ASSUME NEW s, StateType(s)
  PROVE  StateType(Demoted(s))
<1> DEFINE Y == SetAttempts(s, LiveAttempts(s), "REVALIDATION_REQUIRED")
           X == SetTrials(s, OpenTrials(s), "REVALIDATION_REQUIRED")
           r == Demoted(s)
<1>1. r = [s EXCEPT !.attempts = Y, !.trials = X]
  BY ZenonT(60) DEF Demoted
<1>2. IsMap(Y, AttemptRecord) /\ IsMap(X, TrialRecord)
  <2>1. "REVALIDATION_REQUIRED" \in AttemptStates /\ "REVALIDATION_REQUIRED" \in TrialStates
    BY DEF AttemptStates, TrialStates
  <2> QED BY ZenonT(60), <2>1, SetsTyped
<1> HIDE DEF r, X, Y
<1>3. /\ r.trials = X /\ r.attempts = Y /\ DOMAIN r = StateFields
      /\ \A f \in StateFields \ {"trials", "attempts"} : r[f] = s[f]
  BY ZenonT(120), <1>1 DEF StateType, StateFields
<1>4. StateType(r)
  BY ZenonT(60), <1>2, <1>3 DEF StateType, StateFields
<1> QED BY ZenonT(60), <1>4 DEF r

\* The books are those of the trials, the attempts and the branches.
LEMMA SameBooks ==
  ASSUME NEW s, NEW r, r.attempts = s.attempts
  PROVE  /\ HeadRoom(s) => HeadRoom(r)
         /\ AttemptsCounted(s) /\ r.trials = s.trials => AttemptsCounted(r)
         /\ TrialsCounted(s) /\ r.trials = s.trials /\ r.branches = s.branches => TrialsCounted(r)
<1>1. HeadRoom(s) => HeadRoom(r)
  BY DEF HeadRoom, ActiveOf, LiveAttempts
<1>2. AttemptsCounted(s) /\ r.trials = s.trials => AttemptsCounted(r)
  BY DEF AttemptsCounted
<1>3. TrialsCounted(s) /\ r.trials = s.trials /\ r.branches = s.branches => TrialsCounted(r)
  BY ZenonT(60) DEF TrialsCounted
<1> QED BY ZenonT(60), <1>1, <1>2, <1>3

\* A new trial has no attempt, and its next one is the first.
LEMMA CreatedCounted ==
  ASSUME NEW s, NEW r, AttemptsCounted(s), r.attempts = s.attempts, NEW id,
         id \notin DOMAIN s.trials, DOMAIN r.trials = DOMAIN s.trials \cup {id},
         \A t \in DOMAIN s.trials : r.trials[t] = s.trials[t],
         r.trials[id].attempt_count = 0, r.trials[id].next_attempt_number = 1
  PROVE  AttemptsCounted(r)
<1>1. \A a \in DOMAIN r.attempts :
        /\ r.attempts[a].trial \in DOMAIN r.trials
        /\ r.attempts[a].number \in 1 .. r.trials[r.attempts[a].trial].attempt_count
  BY DEF AttemptsCounted
<1>2. \A a, c \in DOMAIN r.attempts :
        r.attempts[a].trial = r.attempts[c].trial
          /\ r.attempts[a].number = r.attempts[c].number => a = c
  BY ZenonT(60) DEF AttemptsCounted
<1>3. ASSUME NEW t \in DOMAIN r.trials
      PROVE  /\ r.trials[t].next_attempt_number = r.trials[t].attempt_count + 1
             /\ r.trials[t].attempt_count <= MaxAttempts
             /\ RetryPolicy = "NO_RETRY" => r.trials[t].attempt_count <= 1
             /\ \A k \in 1 .. r.trials[t].attempt_count :
                  \E a \in DOMAIN r.attempts :
                    r.attempts[a].trial = t /\ r.attempts[a].number = k
  <2>1. CASE t = id
    BY <2>1, DefinitionAssumption
  <2>2. CASE t # id
    <3>1. t \in DOMAIN s.trials /\ r.trials[t] = s.trials[t]
      BY ZenonT(60), <2>2
    <3> QED BY <3>1 DEF AttemptsCounted
  <2> QED BY ZenonT(60), <2>1, <2>2
<1> QED BY ZenonT(60), <1>1, <1>2, <1>3 DEF AttemptsCounted

\* Artifacts registered up to the limit of the experiment leave the books in order.
LEMMA RegisteredArtifacts ==
  ASSUME NEW s, NEW r, IsFiniteSet(s.artifacts), ValidArtifacts(s),
         NEW a \in DOMAIN s.attempts, NEW l \in Nat, NEW n \in 0 .. l,
         NEW arts \in [1 .. l -> Nat],
         n # 0 => Cardinality(s.artifacts) + n - 1 < MaxArtifacts,
         r.artifacts = s.artifacts \cup {<<a, arts[j]>> : j \in 1 .. n},
         DOMAIN r.attempts = DOMAIN s.attempts
  PROVE  IsFiniteSet(r.artifacts) /\ ValidArtifacts(r)
<1> DEFINE new == {<<a, arts[j]>> : j \in 1 .. n}
           f == [j \in 1 .. n |-> <<a, arts[j]>>]
<1>1. f \in Surjection(1 .. n, new)
  BY ZenonT(60) DEF Surjection
<1>2. IsFiniteSet(1 .. n) /\ Cardinality(1 .. n) = n
  <2>1. 1 \in Int /\ n \in Int /\ n - 1 + 1 = n /\ (1 > n => n = 0)
    OBVIOUS
  <2> QED BY ZenonT(60), <2>1, FS_Interval
<1>3. \A x \in new : x[1] = a
  OBVIOUS
<1> HIDE DEF new, f
<1>4. IsFiniteSet(new) /\ Cardinality(new) <= n /\ Cardinality(new) \in Nat
  BY <1>1, <1>2, FS_Surjection, FS_CardinalityType
<1>5. r.artifacts = s.artifacts \cup new
  BY ZenonT(60) DEF new
<1>6. Cardinality(s.artifacts) \in Nat /\ Cardinality(s.artifacts) <= MaxArtifacts /\ MaxArtifacts \in Nat
  BY ZenonT(60), FS_CardinalityType, LimitsAssumption DEF ValidArtifacts
<1>7. /\ IsFiniteSet(s.artifacts \cup new)
      /\ Cardinality(s.artifacts \cup new)
           = Cardinality(s.artifacts) + Cardinality(new) - Cardinality(s.artifacts \cap new)
  BY ZenonT(60), <1>4, FS_Union
<1>8. Cardinality(s.artifacts \cap new) \in Nat
  BY ZenonT(60), FS_Intersection, FS_CardinalityType
<1>9. Cardinality(s.artifacts \cup new) <= MaxArtifacts
  BY <1>4, <1>6, <1>7, <1>8
<1>10. \A x \in r.artifacts : x[1] \in DOMAIN r.attempts
  BY ZenonT(60), <1>3, <1>5 DEF ValidArtifacts
<1> QED BY ZenonT(60), <1>5, <1>7, <1>9, <1>10 DEF ValidArtifacts

-----------------------------------------------------------------------------
(***************************************************************************)
(* claim_trials: the attempts it issues fit in the head-room and are       *)
(* numbered from the counts of their trials.                               *)
(***************************************************************************)

\* r is s with the attempts w + 1 .. w + n issued to incarnation i for the trials picked.
IssuesTo(s, r, i, n, picked, w) ==
  /\ DOMAIN r.attempts = DOMAIN s.attempts \cup (w + 1 .. w + n)
  /\ \A a \in DOMAIN s.attempts : a <= w /\ r.attempts[a] = s.attempts[a]
  /\ \A a \in w + 1 .. w + n : /\ r.attempts[a].inc = i /\ r.attempts[a].trial = picked[a - w]
                               /\ r.attempts[a].number = s.trials[picked[a - w]].next_attempt_number
  /\ DOMAIN r.trials = DOMAIN s.trials
  /\ \A t \in DOMAIN s.trials :
       /\ r.trials[t].branch = s.trials[t].branch /\ r.trials[t].generation = s.trials[t].generation
       /\ IF \E k \in 1 .. n : picked[k] = t
          THEN /\ r.trials[t].attempt_count = s.trials[t].attempt_count + 1
               /\ r.trials[t].next_attempt_number = s.trials[t].next_attempt_number + 1
          ELSE /\ r.trials[t].attempt_count = s.trials[t].attempt_count
               /\ r.trials[t].next_attempt_number = s.trials[t].next_attempt_number
  /\ DOMAIN r.branches = DOMAIN s.branches

\* A claim stays within the head-room.
LEMMA ClaimedHeadRoom ==
  ASSUME NEW s, NEW r, StateType(s), StateType(r), ValidWatermarks(s), HeadRoom(s),
         NEW i \in Incarnation, NEW n \in Nat \ {0}, NEW picked, NEW w \in Nat,
         IssuesTo(s, r, i, n, picked, w),
         Cardinality(ActiveOf(s, i)) + n <= MaxConcurrent
  PROVE  HeadRoom(r)
<1> DEFINE new == w + 1 .. w + n
<1>m. MaxConcurrent \in Nat
  BY ZenonT(60), DefinitionAssumption
<1> SUFFICES ASSUME NEW j \in Incarnation
             PROVE  Cardinality(ActiveOf(r, j)) <= MaxConcurrent
  BY ZenonT(60) DEF HeadRoom
<1>1. /\ IsFiniteSet(ActiveOf(s, j)) /\ Cardinality(ActiveOf(s, j)) \in Nat
      /\ Cardinality(ActiveOf(s, j)) <= MaxConcurrent
  BY ZenonT(60), FiniteActive DEF HeadRoom
<1>2. IsFiniteSet(new) /\ Cardinality(new) = n
  <2>1. w + 1 \in Int /\ w + n \in Int /\ ~(w + 1 > w + n) /\ (w + n) - (w + 1) + 1 = n
    OBVIOUS
  <2> QED BY ZenonT(60), <2>1, FS_Interval
<1>3. \A a \in ActiveOf(r, j) : a \in new \/ a \in ActiveOf(s, j)
  BY ZenonT(60) DEF ActiveOf, LiveAttempts, IssuesTo
<1>4. CASE j = i
  <2>1. Cardinality(ActiveOf(s, j)) + n <= MaxConcurrent
    BY ZenonT(60), <1>4
  <2>2. ActiveOf(r, j) \subseteq ActiveOf(s, j) \cup new
    BY ZenonT(60), <1>3
  <2>3. /\ IsFiniteSet(ActiveOf(s, j) \cup new)
        /\ Cardinality(ActiveOf(s, j) \cup new) <= Cardinality(ActiveOf(s, j)) + n
        /\ Cardinality(ActiveOf(s, j) \cup new) \in Nat
    <3>1. Cardinality(ActiveOf(s, j) \cap new) \in Nat
      BY ZenonT(60), <1>1, FS_Intersection, FS_CardinalityType
    <3> HIDE DEF new
    <3>2. /\ IsFiniteSet(ActiveOf(s, j) \cup new)
          /\ Cardinality(ActiveOf(s, j) \cup new)
               = Cardinality(ActiveOf(s, j)) + Cardinality(new) - Cardinality(ActiveOf(s, j) \cap new)
      BY ZenonT(60), <1>1, <1>2, FS_Union
    <3>3. Cardinality(ActiveOf(s, j) \cup new) \in Nat
      BY ZenonT(60), <3>2, FS_CardinalityType
    <3> QED BY <1>1, <1>2, <3>1, <3>2, <3>3
  <2>4. /\ Cardinality(ActiveOf(r, j)) \in Nat
        /\ Cardinality(ActiveOf(r, j)) <= Cardinality(ActiveOf(s, j) \cup new)
    <3> HIDE DEF new
    <3> QED BY ZenonT(60), <2>2, <2>3, FS_Subset, FS_CardinalityType
  <2> HIDE DEF new
  <2> QED BY <1>m, <1>1, <2>1, <2>3, <2>4
<1>5. CASE j # i
  <2>1. ActiveOf(r, j) \subseteq ActiveOf(s, j)
    BY ZenonT(60), <1>3, <1>5 DEF ActiveOf, IssuesTo
  <2>2. /\ Cardinality(ActiveOf(r, j)) \in Nat
        /\ Cardinality(ActiveOf(r, j)) <= Cardinality(ActiveOf(s, j))
    BY ZenonT(60), <1>1, <2>1, FS_Subset, FS_CardinalityType
  <2> QED BY <1>m, <1>1, <2>2
<1> QED BY ZenonT(60), <1>4, <1>5

\* The attempts it issues are numbered in order.
LEMMA ClaimedCount ==
  ASSUME NEW s, NEW r, StateType(s), AttemptsCounted(s),
         NEW i, NEW n \in Nat \ {0}, NEW w \in Nat, NEW picked \in [1 .. n -> DOMAIN s.trials],
         IssuesTo(s, r, i, n, picked, w),
         \A j, k \in 1 .. n : picked[j] = picked[k] => j = k,
         \A k \in 1 .. n : /\ s.trials[picked[k]].attempt_count < MaxAttempts
                           /\ ~(RetryPolicy = "NO_RETRY" /\ s.trials[picked[k]].attempt_count > 0)
  PROVE  AttemptsCounted(r)
<1> DEFINE hit(t) == \E k \in 1 .. n : picked[k] = t
           old(a) == a \in DOMAIN s.attempts
           new(a) == a \in w + 1 .. w + n
           count(t) == s.trials[t].attempt_count
<1>t. /\ \A t \in DOMAIN s.trials : count(t) \in Nat /\ s.trials[t].next_attempt_number = count(t) + 1
      /\ \A a \in DOMAIN s.attempts : s.attempts[a].number \in Nat
      /\ MaxAttempts \in Nat
  BY ZenonT(60), DefinitionAssumption DEF StateType, IsMap, TrialRecord, AttemptRecord, AttemptsCounted
<1>1. \A a \in DOMAIN r.attempts : old(a) \/ new(a)
  BY ZenonT(60) DEF IssuesTo
<1>2. \A a : old(a) => a \in DOMAIN r.attempts /\ r.attempts[a] = s.attempts[a]
  BY DEF IssuesTo
<1>3. \A a : new(a) => /\ a \in DOMAIN r.attempts /\ a - w \in 1 .. n
                       /\ picked[a - w] \in DOMAIN s.trials /\ hit(picked[a - w])
                       /\ r.attempts[a].trial = picked[a - w]
                       /\ r.attempts[a].number = count(picked[a - w]) + 1
  <2> SUFFICES ASSUME NEW a \in w + 1 .. w + n
               PROVE  /\ a \in DOMAIN r.attempts /\ a - w \in 1 .. n
                      /\ picked[a - w] \in DOMAIN s.trials /\ hit(picked[a - w])
                      /\ r.attempts[a].trial = picked[a - w]
                      /\ r.attempts[a].number = count(picked[a - w]) + 1
    OBVIOUS
  <2>1. a - w \in 1 .. n
    OBVIOUS
  <2>2. picked[a - w] \in DOMAIN s.trials /\ hit(picked[a - w])
    BY ZenonT(60), <2>1
  <2> QED BY ZenonT(60), <1>t, <2>1, <2>2 DEF IssuesTo
<1>4. /\ DOMAIN r.trials = DOMAIN s.trials
      /\ \A t \in DOMAIN s.trials :
           IF hit(t) THEN /\ r.trials[t].attempt_count = count(t) + 1
                          /\ r.trials[t].next_attempt_number = count(t) + 2
                     ELSE /\ r.trials[t].attempt_count = count(t)
                          /\ r.trials[t].next_attempt_number = count(t) + 1
  <2>1. DOMAIN r.trials = DOMAIN s.trials
    BY ZenonT(60) DEF IssuesTo
  <2> SUFFICES ASSUME NEW t \in DOMAIN s.trials
               PROVE  IF hit(t) THEN /\ r.trials[t].attempt_count = count(t) + 1
                                     /\ r.trials[t].next_attempt_number = count(t) + 2
                                ELSE /\ r.trials[t].attempt_count = count(t)
                                     /\ r.trials[t].next_attempt_number = count(t) + 1
    BY ZenonT(60), <2>1
  <2>2. /\ hit(t) => /\ r.trials[t].attempt_count = count(t) + 1
                     /\ r.trials[t].next_attempt_number = s.trials[t].next_attempt_number + 1
        /\ ~hit(t) => /\ r.trials[t].attempt_count = count(t)
                      /\ r.trials[t].next_attempt_number = s.trials[t].next_attempt_number
    BY ZenonT(120) DEF IssuesTo
  <2>3. s.trials[t].next_attempt_number = count(t) + 1 /\ (count(t) + 1) + 1 = count(t) + 2
    BY <1>t
  <2> HIDE DEF hit, count
  <2> QED BY ZenonT(60), <2>2, <2>3
<1>5. \A a : old(a) => s.attempts[a].trial \in DOMAIN s.trials /\ s.attempts[a].number \in 1 .. count(s.attempts[a].trial)
  BY ZenonT(60) DEF AttemptsCounted
<1> HIDE DEF hit, old, new, count
<1>6. \A a \in DOMAIN r.attempts :
        /\ r.attempts[a].trial \in DOMAIN r.trials
        /\ r.attempts[a].number \in 1 .. r.trials[r.attempts[a].trial].attempt_count
  <2> SUFFICES ASSUME NEW a \in DOMAIN r.attempts
               PROVE  /\ r.attempts[a].trial \in DOMAIN r.trials
                      /\ r.attempts[a].number \in 1 .. r.trials[r.attempts[a].trial].attempt_count
    OBVIOUS
  <2>1. CASE old(a)
    <3> DEFINE t == s.attempts[a].trial
    <3>1. /\ r.attempts[a].trial = t /\ r.attempts[a].number = s.attempts[a].number
          /\ t \in DOMAIN s.trials /\ s.attempts[a].number \in 1 .. count(t)
      BY ZenonT(60), <2>1, <1>2, <1>5
    <3>2. t \in DOMAIN r.trials /\ count(t) \in Nat /\ r.trials[t].attempt_count \in {count(t), count(t) + 1}
      BY ZenonT(60), <3>1, <1>t, <1>4
    <3> HIDE DEF t
    <3> QED BY <3>1, <3>2
  <2>2. CASE new(a)
    BY <2>2, <1>t, <1>3, <1>4
  <2> QED BY ZenonT(60), <1>1, <2>1, <2>2
<1>7. \A a, c \in DOMAIN r.attempts :
        r.attempts[a].trial = r.attempts[c].trial /\ r.attempts[a].number = r.attempts[c].number => a = c
  <2> SUFFICES ASSUME NEW a \in DOMAIN r.attempts, NEW c \in DOMAIN r.attempts,
                      r.attempts[a].trial = r.attempts[c].trial,
                      r.attempts[a].number = r.attempts[c].number
               PROVE  a = c
    OBVIOUS
  <2>1. CASE old(a) /\ old(c)
    BY ZenonT(60), <2>1, <1>2 DEF AttemptsCounted, old
  <2>2. CASE new(a) /\ new(c)
    <3>1. a - w = c - w
      BY ZenonT(60), <2>2, <1>3
    <3> QED BY <2>2, <3>1 DEF new
  <2>3. ASSUME NEW x, NEW y, old(x), new(y), r.attempts[x].trial = r.attempts[y].trial,
               r.attempts[x].number = r.attempts[y].number
        PROVE  FALSE
    <3> DEFINE t == s.attempts[x].trial
    <3>1. /\ r.attempts[x].trial = t /\ r.attempts[x].number = s.attempts[x].number
          /\ t \in DOMAIN s.trials /\ s.attempts[x].number \in 1 .. count(t)
      BY ZenonT(60), <2>3, <1>2, <1>5
    <3> HIDE DEF t
    <3>2. /\ r.attempts[y].trial = picked[y - w]
          /\ r.attempts[y].number = count(picked[y - w]) + 1
      BY ZenonT(60), <2>3, <1>3
    <3>3. picked[y - w] = t
      BY ZenonT(60), <2>3, <3>1, <3>2
    <3>4. s.attempts[x].number = count(t) + 1
      BY ZenonT(60), <2>3, <3>1, <3>2, <3>3
    <3>5. count(t) \in Nat
      BY ZenonT(60), <3>1, <1>t
    <3> QED BY <3>1, <3>4, <3>5
  <2> QED BY ZenonT(60), <1>1, <2>1, <2>2, <2>3
<1>8. ASSUME NEW t \in DOMAIN r.trials
      PROVE  /\ r.trials[t].next_attempt_number = r.trials[t].attempt_count + 1
             /\ r.trials[t].attempt_count <= MaxAttempts
             /\ RetryPolicy = "NO_RETRY" => r.trials[t].attempt_count <= 1
             /\ \A k \in 1 .. r.trials[t].attempt_count :
                  \E a \in DOMAIN r.attempts : r.attempts[a].trial = t /\ r.attempts[a].number = k
  <2>t. t \in DOMAIN s.trials /\ count(t) \in Nat
    BY ZenonT(60), <1>t, <1>4
  <2>o. \A k \in 1 .. count(t) :
          \E a \in DOMAIN r.attempts : r.attempts[a].trial = t /\ r.attempts[a].number = k
    BY <2>t, <1>2 DEF AttemptsCounted, old, count
  <2>1. CASE ~hit(t)
    <3>1. r.trials[t].attempt_count = count(t) /\ r.trials[t].next_attempt_number = count(t) + 1
      BY ZenonT(60), <2>1, <2>t, <1>4
    <3>2. count(t) <= MaxAttempts /\ (RetryPolicy = "NO_RETRY" => count(t) <= 1)
      BY ZenonT(60), <2>t DEF AttemptsCounted, count
    <3> QED BY ZenonT(60), <2>o, <3>1, <3>2
  <2>2. CASE hit(t)
    <3>1. r.trials[t].attempt_count = count(t) + 1 /\ r.trials[t].next_attempt_number = count(t) + 2
      BY ZenonT(60), <2>2, <2>t, <1>4
    <3>2. PICK k \in 1 .. n : picked[k] = t
      BY ZenonT(60), <2>2 DEF hit
    <3>3. count(t) < MaxAttempts /\ ~(RetryPolicy = "NO_RETRY" /\ count(t) > 0)
      BY ZenonT(60), <3>2 DEF count
    <3>4. new(w + k) /\ (w + k) - w = k
      BY DEF new
    <3>5. /\ w + k \in DOMAIN r.attempts /\ r.attempts[w + k].trial = t
          /\ r.attempts[w + k].number = count(t) + 1
      BY ZenonT(60), <1>3, <3>2, <3>4
    <3>6. \A l \in 1 .. count(t) + 1 :
            \E a \in DOMAIN r.attempts : r.attempts[a].trial = t /\ r.attempts[a].number = l
      <4> SUFFICES ASSUME NEW l \in 1 .. count(t) + 1
                   PROVE  \E a \in DOMAIN r.attempts : r.attempts[a].trial = t /\ r.attempts[a].number = l
        OBVIOUS
      <4>1. l \in 1 .. count(t) \/ l = count(t) + 1
        BY <2>t
      <4> QED BY ZenonT(60), <2>o, <3>5, <4>1
    <3>7. count(t) + 1 <= MaxAttempts /\ (RetryPolicy = "NO_RETRY" => count(t) + 1 <= 1)
      BY <1>t, <2>t, <3>3
    <3>8. count(t) + 2 = (count(t) + 1) + 1
      BY <2>t
    <3> QED BY ZenonT(60), <3>1, <3>6, <3>7, <3>8
  <2> QED BY ZenonT(60), <2>1, <2>2
<1> QED BY ZenonT(60), <1>6, <1>7, <1>8 DEF AttemptsCounted

\* The books after a claim.
LEMMA ClaimedBooks ==
  ASSUME NEW s, NEW r, StateType(s), StateType(r), ValidWatermarks(s), Books(s),
         NEW i \in Incarnation, NEW n \in Nat \ {0}, NEW w \in Nat,
         NEW picked \in [1 .. n -> DOMAIN s.trials], IssuesTo(s, r, i, n, picked, w),
         \A j, k \in 1 .. n : picked[j] = picked[k] => j = k,
         \A k \in 1 .. n : /\ s.trials[picked[k]].attempt_count < MaxAttempts
                           /\ ~(RetryPolicy = "NO_RETRY" /\ s.trials[picked[k]].attempt_count > 0),
         Cardinality(ActiveOf(s, i)) + n <= MaxConcurrent,
         r.artifacts = s.artifacts, r.workers = s.workers, r.last_epoch = s.last_epoch
  PROVE  Books(r)
<1>1. HeadRoom(r)
  BY ZenonT(60), ClaimedHeadRoom DEF Books
<1>2. AttemptsCounted(r)
  BY ZenonT(60), ClaimedCount DEF Books
<1>3. TrialsCounted(r)
  BY ZenonT(60) DEF Books, TrialsCounted, IssuesTo
<1>4. IsFiniteSet(r.artifacts) /\ ValidArtifacts(r)
  BY ZenonT(60), ArtifactsStayValid DEF Books, IssuesTo
<1> QED BY ZenonT(60), <1>1, <1>2, <1>3, <1>4 DEF Books, ValidWorkers

-----------------------------------------------------------------------------
(***************************************************************************)
(* What the books say about the numbers: the counts that are taken again   *)
(* from the records agree with the counters.                               *)
(***************************************************************************)

\* A trial has as many attempts as it has counted.
LEMMA AttemptsOfTrial ==
  ASSUME NEW s, StateType(s), AttemptsCounted(s), NEW t \in DOMAIN s.trials
  PROVE  LET mine == {a \in DOMAIN s.attempts : s.attempts[a].trial = t}
         IN  /\ {s.attempts[a].number : a \in mine} = 1 .. s.trials[t].attempt_count
             /\ Cardinality(mine) = s.trials[t].attempt_count
<1> DEFINE mine == {a \in DOMAIN s.attempts : s.attempts[a].trial = t}
           count == s.trials[t].attempt_count
           number == [a \in mine |-> s.attempts[a].number]
<1>1. count \in Nat
  BY ZenonT(60) DEF StateType, IsMap, TrialRecord
<1>2. \A a \in mine : s.attempts[a].number \in 1 .. count
  BY ZenonT(60) DEF AttemptsCounted
<1>3. \A k \in 1 .. count : \E a \in mine : s.attempts[a].number = k
  BY DEF AttemptsCounted
<1>4. \A a, c \in mine : s.attempts[a].number = s.attempts[c].number => a = c
  BY DEF AttemptsCounted
<1> HIDE DEF mine, count
<1>5. {s.attempts[a].number : a \in mine} = 1 .. count
  BY ZenonT(60), <1>2, <1>3
<1>6. number \in Injection(mine, 1 .. count)
  BY ZenonT(60), <1>2, <1>4 DEF Injection, IsInjective
<1>7. number \in Surjection(mine, 1 .. count)
  BY ZenonT(60), <1>2, <1>3 DEF Surjection
<1>8. IsFiniteSet(1 .. count) /\ Cardinality(1 .. count) = count
  BY <1>1, FS_Interval
<1>9. Cardinality(mine) = count
  BY ZenonT(60), <1>6, <1>7, <1>8, FS_Injection
<1> QED BY ZenonT(60), <1>5, <1>9 DEF mine, count

\* The books in order: attempts are numbered without a gap and within the budget.
LEMMA BooksNumbered ==
  ASSUME NEW s, StateType(s), Books(s)
  PROVE  NumberedInOrder(s)
BY ZenonT(60), AttemptsOfTrial DEF Books, AttemptsCounted, NumberedInOrder

\* The number of an attempt is within the configured limit.
LEMMA NumbersLimited ==
  ASSUME NEW s, StateType(s), AttemptsCounted(s)
  PROVE  /\ \A t \in DOMAIN s.trials : s.trials[t].attempt_count <= AttemptsLimit
         /\ \A a \in DOMAIN s.attempts :
              s.attempts[a].trial \in DOMAIN s.trials /\ s.attempts[a].number \in 1 .. AttemptsLimit
<1>1. AttemptsLimit \in Nat /\ MaxAttempts \in Nat /\ MaxAttempts <= AttemptsLimit
  BY ZenonT(60), LimitsAssumption, DefinitionAssumption
<1>2. ASSUME NEW t \in DOMAIN s.trials
      PROVE  /\ s.trials[t].attempt_count <= AttemptsLimit
             /\ 1 .. s.trials[t].attempt_count \subseteq 1 .. AttemptsLimit
  <2>1. s.trials[t].attempt_count \in Nat
    BY ZenonT(60) DEF StateType, IsMap, TrialRecord
  <2>2. s.trials[t].attempt_count <= MaxAttempts
    BY ZenonT(60) DEF AttemptsCounted
  <2> QED BY <1>1, <2>1, <2>2
<1> QED BY <1>2 DEF AttemptsCounted

\* No more attempts than the trials allow: an attempt is known by its trial and number.
LEMMA AttemptsLimited ==
  ASSUME NEW s, StateType(s), ValidWatermarks(s), AttemptsCounted(s)
  PROVE  Cardinality(DOMAIN s.attempts) <= Cardinality(DOMAIN s.trials) * AttemptsLimit
<1> DEFINE slots == (DOMAIN s.trials) \X (1 .. AttemptsLimit)
           slot == [a \in DOMAIN s.attempts |-> <<s.attempts[a].trial, s.attempts[a].number>>]
<1>1. IsFiniteSet(DOMAIN s.trials)
  BY ZenonT(60), FiniteMaps
<1>2. AttemptsLimit \in Nat
  BY ZenonT(60), LimitsAssumption
<1>3. IsFiniteSet(1 .. AttemptsLimit) /\ Cardinality(1 .. AttemptsLimit) = AttemptsLimit
  BY <1>2, FS_Interval
<1>4. IsFiniteSet(slots) /\ Cardinality(slots) = Cardinality(DOMAIN s.trials) * AttemptsLimit
  BY ZenonT(60), <1>1, <1>3, FS_Product
<1>5. \A a \in DOMAIN s.attempts :
        s.attempts[a].trial \in DOMAIN s.trials /\ s.attempts[a].number \in 1 .. AttemptsLimit
  BY ZenonT(60), NumbersLimited
<1>6. \A a, c \in DOMAIN s.attempts : slot[a] = slot[c] => a = c
  BY ZenonT(60) DEF AttemptsCounted
<1>7. slot \in [DOMAIN s.attempts -> slots]
  BY ZenonT(60), <1>5
<1> HIDE DEF slots
<1>8. slot \in Injection(DOMAIN s.attempts, slots)
  BY ZenonT(60), <1>6, <1>7 DEF Injection, IsInjective
<1> QED BY <1>4, <1>8, FS_Injection

\* As many attempts are committed as trials have counted a commit: each is the
\* authoritative attempt of the other.
LEMMA CommitsAgree ==
  ASSUME NEW s, StateType(s), ValidWatermarks(s), CommitIsUnique(s)
  PROVE  Cardinality({a \in DOMAIN s.attempts : s.attempts[a].committed}) =
         Cardinality({t \in DOMAIN s.trials : s.trials[t].committed_attempts = 1})
<1> DEFINE done == {a \in DOMAIN s.attempts : s.attempts[a].committed}
           counted == {t \in DOMAIN s.trials : s.trials[t].committed_attempts = 1}
           of == [a \in done |-> s.attempts[a].trial]
<1>1. IsFiniteSet(counted)
  <2>1. IsFiniteSet(DOMAIN s.trials)
    BY FiniteMaps
  <2> QED BY ZenonT(60), <2>1, FS_Subset
<1>2. \A a \in done : /\ s.attempts[a].trial \in counted
                      /\ s.trials[s.attempts[a].trial].authoritative_attempt = a
  BY ZenonT(60) DEF CommitIsUnique
<1>3. \A t \in counted : \E a \in done : s.attempts[a].trial = t
  BY DEF CommitIsUnique
<1> HIDE DEF done, counted
<1>4. of \in Injection(done, counted)
  <2>1. of \in [done -> counted]
    BY ZenonT(60), <1>2
  <2>2. \A a, c \in done : of[a] = of[c] => a = c
    BY ZenonT(60), <1>2
  <2> QED BY ZenonT(60), <2>1, <2>2 DEF Injection, IsInjective
<1>5. of \in Surjection(done, counted)
  BY ZenonT(60), <1>2, <1>3 DEF Surjection
<1>6. Cardinality(done) = Cardinality(counted)
  BY ZenonT(60), <1>1, <1>4, <1>5, FS_Injection
<1> QED BY ZenonT(60), <1>6 DEF done, counted

\* A state whose books are in order passes the structural part of its validation.
LEMMA BooksStructure ==
  ASSUME NEW s, StateInv(s), Books(s)
  PROVE  ValidWorkers(s) /\ ValidTrials(s) /\ ValidAttempts(s) /\ ValidArtifacts(s) /\ ValidWatermarks(s)
<1>1. /\ StateType(s) /\ ValidWatermarks(s) /\ AuthorityIsOwn(s) /\ CommitIsUnique(s)
      /\ AttemptsCounted(s) /\ TrialsCounted(s) /\ ValidArtifacts(s) /\ ValidWorkers(s)
  BY ZenonT(60) DEF StateInv, Books
<1>2. \A t \in DOMAIN s.trials : s.trials[t].authoritative_attempt # NoId =>
        s.trials[t].authoritative_attempt \in DOMAIN s.attempts
  BY ZenonT(60), <1>1 DEF AuthorityIsOwn
<1>3. ValidTrials(s)
  BY ZenonT(60), <1>1, <1>2, NumbersLimited DEF TrialsCounted, ValidTrials
<1>4. ValidAttempts(s)
  BY ZenonT(60), <1>1, NumbersLimited, AttemptsLimited, CommitsAgree DEF ValidAttempts
<1> QED BY ZenonT(60), <1>1, <1>3, <1>4

-----------------------------------------------------------------------------
(***************************************************************************)
(* What completes no trial, and what follows the attempt table.            *)
(***************************************************************************)

\* No evidence arrives, no trial is completed and no attempt fails between s and r.
Idle(s, r) ==
  /\ r.artifacts = s.artifacts /\ r.observations = s.observations
  /\ \A t \in DOMAIN s.trials : r.trials[t].state = "COMPLETED" => s.trials[t].state = "COMPLETED"
  /\ \A a \in DOMAIN s.attempts : r.attempts[a].state = "FAILED" => s.attempts[a].state = "FAILED"

\* Setting trials to another state than COMPLETED completes none.
LEMMA SetTrialsIdle ==
  ASSUME NEW s, StateType(s), NEW T, NEW st, st # "COMPLETED", NEW t \in DOMAIN s.trials,
         SetTrials(s, T, st)[t].state = "COMPLETED"
  PROVE  s.trials[t].state = "COMPLETED"
<1>1. s.trials[t] \in TrialRecord
  BY ZenonT(60) DEF StateType, IsMap
<1>2. SetTrials(s, T, st)[t] = IF t \in T THEN [s.trials[t] EXCEPT !.state = st] ELSE s.trials[t]
  BY ZenonT(60) DEF SetTrials
<1>3. [s.trials[t] EXCEPT !.state = st].state = st
  BY ZenonT(60), <1>1 DEF TrialRecord
<1> QED BY ZenonT(60), <1>2, <1>3

\* Setting attempts to another state than FAILED fails none.
LEMMA SetAttemptsIdle ==
  ASSUME NEW s, StateType(s), NEW A, NEW st, st # "FAILED", NEW a \in DOMAIN s.attempts,
         SetAttempts(s, A, st)[a].state = "FAILED"
  PROVE  s.attempts[a].state = "FAILED"
<1>1. s.attempts[a] \in AttemptRecord
  BY ZenonT(60) DEF StateType, IsMap
<1>2. SetAttempts(s, A, st)[a] = IF a \in A THEN [s.attempts[a] EXCEPT !.state = st] ELSE s.attempts[a]
  BY ZenonT(60) DEF SetAttempts
<1>3. [s.attempts[a] EXCEPT !.state = st].state = st
  BY ZenonT(60), <1>1 DEF AttemptRecord
<1> QED BY ZenonT(60), <1>2, <1>3

\* A trial that is requeued is READY or FAILED.
LEMMA RequeueIdle ==
  ASSUME NEW trial \in TrialRecord, NEW retry
  PROVE  Requeue(trial, retry).state # "COMPLETED"
<1>1. Requeued(trial).state = "READY" /\ [trial EXCEPT !.state = "FAILED"].state = "FAILED"
  BY ZenonT(60) DEF Requeued, TrialRecord
<1> QED BY ZenonT(60), <1>1 DEF Requeue

\* Losing producers, and abandoning all work, complete nothing and fail no attempt.
LEMMA LossesIdle ==
  ASSUME NEW s, StateType(s), NEW I
  PROVE  Idle(s, LoseProducers(s, I)) /\ Idle(s, abandon_stale_live_work(s))
<1> DEFINE gone == {a \in LiveAttempts(s) : s.attempts[a].inc \in I}
           hit(t) == t \in OpenTrials(s) /\ \E a \in gone : /\ s.attempts[a].trial = t
                                                           /\ s.trials[t].authoritative_attempt = a
           redone == [t \in DOMAIN s.trials |->
                        IF hit(t) THEN Requeue(s.trials[t], RetryRemains(s.trials[t])) ELSE s.trials[t]]
           lost == SetAttempts(s, gone, "ABANDONED")
           revoked == {IF w.inc \in I THEN [w EXCEPT !.revoked = TRUE] ELSE w : w \in s.workers}
<1>1. LoseProducers(s, I) = [s EXCEPT !.attempts = lost, !.trials = redone, !.workers = revoked]
  BY ZenonT(60) DEF LoseProducers
<1>2. \A t \in DOMAIN s.trials : redone[t].state = "COMPLETED" => s.trials[t].state = "COMPLETED"
  <2> SUFFICES ASSUME NEW t \in DOMAIN s.trials, redone[t].state = "COMPLETED"
               PROVE  s.trials[t].state = "COMPLETED"
    OBVIOUS
  <2>1. s.trials[t] \in TrialRecord
    BY ZenonT(60) DEF StateType, IsMap
  <2>2. Requeue(s.trials[t], RetryRemains(s.trials[t])).state # "COMPLETED"
    BY ZenonT(60), <2>1, RequeueIdle
  <2> HIDE DEF hit
  <2> QED BY ZenonT(60), <2>2
<1>5. \A a \in DOMAIN s.attempts : lost[a].state = "FAILED" => s.attempts[a].state = "FAILED"
  BY ZenonT(60), SetAttemptsIdle
<1> HIDE DEF redone, lost, revoked
<1>3. Idle(s, LoseProducers(s, I))
  <2>1. /\ LoseProducers(s, I).artifacts = s.artifacts
        /\ LoseProducers(s, I).observations = s.observations
        /\ LoseProducers(s, I).trials = redone /\ LoseProducers(s, I).attempts = lost
    BY ZenonT(60), <1>1 DEF StateType, StateFields
  <2> QED BY ZenonT(60), <1>2, <1>5, <2>1 DEF Idle
<1>4. Idle(s, abandon_stale_live_work(s))
  <2> DEFINE ended == SetTrials(s, OpenTrials(s), "SUPERSEDED")
             dropped == SetAttempts(s, LiveAttempts(s), "ABANDONED")
  <2>1. abandon_stale_live_work(s) = [s EXCEPT !.attempts = dropped, !.trials = ended]
    BY ZenonT(60) DEF abandon_stale_live_work
  <2>2. \A t \in DOMAIN s.trials : ended[t].state = "COMPLETED" => s.trials[t].state = "COMPLETED"
    BY ZenonT(60), SetTrialsIdle
  <2>4. \A a \in DOMAIN s.attempts : dropped[a].state = "FAILED" => s.attempts[a].state = "FAILED"
    BY ZenonT(60), SetAttemptsIdle
  <2> HIDE DEF ended, dropped
  <2>3. /\ abandon_stale_live_work(s).artifacts = s.artifacts
        /\ abandon_stale_live_work(s).observations = s.observations
        /\ abandon_stale_live_work(s).trials = ended /\ abandon_stale_live_work(s).attempts = dropped
    BY ZenonT(60), <2>1 DEF StateType, StateFields
  <2> QED BY ZenonT(60), <2>2, <2>3, <2>4 DEF Idle
<1> QED BY ZenonT(60), <1>3, <1>4

\* The attempts of both states follow the attempt table.
FollowTable(s, r) ==
  \A a \in DOMAIN s.attempts \cap DOMAIN r.attempts :
    \/ r.attempts[a].state = s.attempts[a].state
    \/ r.attempts[a].state \in AttemptSuccessors(s.attempts[a].state)

\* Work that moves on follows the table, and so do attempts that stay.
LEMMA MovesFollow ==
  ASSUME NEW s, NEW r, Moves(s, r) \/ \A a \in DOMAIN s.attempts : r.attempts[a] = s.attempts[a]
  PROVE  FollowTable(s, r)
BY DEF Moves, AttemptMoves, FollowTable
=============================================================================
