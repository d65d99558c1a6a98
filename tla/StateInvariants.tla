--------------------------- MODULE StateInvariants ----------------------------
(***************************************************************************)
(* What every coordinator state has to satisfy: predicates on one state,   *)
(* which module Coordinator asks of the memory and of the image on disk.   *)
(***************************************************************************)
EXTENDS CoordinatorState

StateFields ==
  {"exp", "generation", "hypothesis_revision", "branches", "trials", "attempts",
   "observations", "artifacts", "rejected", "decisions", "rollback_points", "workers",
   "last_epoch", "next_worker_registration_sequence", "wm_branch", "wm_trial", "wm_attempt"}

StateType(s) ==
  /\ DOMAIN s = StateFields
  /\ s.exp \in ExperimentStates
  /\ s.generation \in Nat \ {0} /\ s.hypothesis_revision \in Nat \ {0}
  /\ IsMap(s.branches, BranchRecord) /\ Baseline \in DOMAIN s.branches
  /\ IsMap(s.trials, TrialRecord)
  /\ IsMap(s.attempts, AttemptRecord)
  /\ s.observations \in Seq(Observation)
  /\ s.artifacts \subseteq Nat \X Nat
  /\ s.rejected \in 0 .. RejectedCap
  /\ s.decisions \in Seq(DecisionRecord)
  /\ s.rollback_points \in Seq(RollbackPoint)
  /\ s.workers \subseteq WorkerIncarnation
  /\ s.last_epoch \in Nat /\ s.next_worker_registration_sequence \in Nat
  /\ s.wm_branch \in Nat /\ s.wm_trial \in Nat /\ s.wm_attempt \in Nat

-----------------------------------------------------------------------------
\* A live attempt is the one authoritative attempt of a trial that is still open.
LiveIsAuthoritative(s) ==
  \A a \in LiveAttempts(s) :
    LET t == s.attempts[a].trial
    IN  t \in OpenTrials(s) /\ s.trials[t].authoritative_attempt = a

\* A trial is COMPLETED exactly when one attempt of it is committed, and that is
\* the attempt the trial names as authoritative.
CommitIsUnique(s) ==
  /\ \A a \in DOMAIN s.attempts : s.attempts[a].committed =>
       /\ s.attempts[a].state = "COMPLETED"
       /\ s.attempts[a].trial \in DOMAIN s.trials
       /\ s.trials[s.attempts[a].trial].state = "COMPLETED"
       /\ s.trials[s.attempts[a].trial].authoritative_attempt = a
  /\ \A t \in DOMAIN s.trials :
       /\ s.trials[t].committed_attempts = 1 <=> s.trials[t].state = "COMPLETED"
       /\ s.trials[t].state = "COMPLETED" =>
            \E a \in DOMAIN s.attempts : s.attempts[a].trial = t /\ s.attempts[a].committed

\* An open trial belongs to the current generation, hypothesis revision and branch
\* generation.
OpenIsCurrent(s) ==
  \A t \in OpenTrials(s) :
    LET trial == s.trials[t]
    IN  /\ trial.generation = s.generation
        /\ trial.hypothesis_revision = s.hypothesis_revision
        /\ trial.branch \in DOMAIN s.branches
        /\ trial.branch_generation = s.branches[trial.branch].generation

\* The attempts of a trial are numbered 1, 2, ..., attempt_count without a gap or a
\* repetition, and there are no more of them than the retry budget allows.
NumberedInOrder(s) ==
  \A t \in DOMAIN s.trials :
    LET mine == {a \in DOMAIN s.attempts : s.attempts[a].trial = t}
    IN  /\ {s.attempts[a].number : a \in mine} = 1 .. s.trials[t].attempt_count
        /\ Cardinality(mine) = s.trials[t].attempt_count
        /\ s.trials[t].attempt_count <= MaxAttempts
        /\ RetryPolicy = "NO_RETRY" => s.trials[t].attempt_count <= 1

\* A completed trial rests on an observation published by its committed attempt.
RestsOnEvidence(s) ==
  \A t \in DOMAIN s.trials : s.trials[t].state = "COMPLETED" =>
    ObservationsOf(s, t, s.trials[t].authoritative_attempt) # {}

-----------------------------------------------------------------------------
(***************************************************************************)
(* The inductive strengthening.                                            *)
(***************************************************************************)

\* The attempt a trial names is recorded and is an attempt of that trial; a READY
\* trial names none.
AuthorityIsOwn(s) ==
  \A t \in DOMAIN s.trials :
    LET a == s.trials[t].authoritative_attempt
    IN  /\ a # NoId => a \in DOMAIN s.attempts /\ s.attempts[a].trial = t
        /\ s.trials[t].state = "READY" => a = NoId

\* A live attempt carries the branch of its trial: retire_branch selects trials and
\* attempts by branch, and has to select the same ones.
LiveOnItsBranch(s) ==
  \A a \in LiveAttempts(s) : s.attempts[a].branch = s.trials[s.attempts[a].trial].branch

StateInv(s) ==
  /\ StateType(s) /\ ValidWatermarks(s)
  /\ AuthorityIsOwn(s) /\ LiveOnItsBranch(s)
  /\ LiveIsAuthoritative(s) /\ CommitIsUnique(s) /\ OpenIsCurrent(s) /\ RestsOnEvidence(s)

\* What is settled in s is the same in r: terminal trials and committed attempts.
Keeps(s, r) ==
  /\ \A t \in DOMAIN s.trials : is_terminal(s.trials[t].state) =>
       t \in DOMAIN r.trials /\ r.trials[t] = s.trials[t]
  /\ \A a \in DOMAIN s.attempts : s.attempts[a].committed =>
       a \in DOMAIN r.attempts /\ r.attempts[a] = s.attempts[a]

-----------------------------------------------------------------------------
(***************************************************************************)
(* The books: what is counted, and what validate counts again.             *)
(***************************************************************************)

\* No incarnation has more live attempts than its head-room.
HeadRoom(s) == \A i \in Incarnation : Cardinality(ActiveOf(s, i)) <= MaxConcurrent

\* Every attempt is of a recorded trial and has a number of its own there, between 1 and
\* attempt_count; none is left out, and the next number is the one after.
AttemptsCounted(s) ==
  /\ \A a \in DOMAIN s.attempts :
       /\ s.attempts[a].trial \in DOMAIN s.trials
       /\ s.attempts[a].number \in 1 .. s.trials[s.attempts[a].trial].attempt_count
  /\ \A a, c \in DOMAIN s.attempts :
       s.attempts[a].trial = s.attempts[c].trial /\ s.attempts[a].number = s.attempts[c].number => a = c
  /\ \A t \in DOMAIN s.trials :
       /\ s.trials[t].next_attempt_number = s.trials[t].attempt_count + 1
       /\ s.trials[t].attempt_count <= MaxAttempts
       /\ RetryPolicy = "NO_RETRY" => s.trials[t].attempt_count <= 1
       /\ \A k \in 1 .. s.trials[t].attempt_count :
            \E a \in DOMAIN s.attempts : s.attempts[a].trial = t /\ s.attempts[a].number = k

\* Every trial is of a recorded branch and generation, and there are no more of them
\* than the branches allow.
TrialsCounted(s) ==
  /\ \A t \in DOMAIN s.trials : s.trials[t].branch \in DOMAIN s.branches /\ s.trials[t].generation # 0
  /\ Cardinality(DOMAIN s.trials) <= Cardinality(DOMAIN s.branches) * MaxTrialsPerBranch

\* The books of a state are in order.
Books(s) ==
  /\ HeadRoom(s) /\ AttemptsCounted(s) /\ TrialsCounted(s)
  /\ IsFiniteSet(s.artifacts) /\ ValidArtifacts(s)
  /\ ValidWorkers(s) /\ \A w \in s.workers : w.epoch <= s.last_epoch
=============================================================================
