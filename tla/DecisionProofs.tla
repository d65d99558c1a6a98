--------------------------- MODULE DecisionProofs ---------------------------
(***************************************************************************)
(* What an acceptance rests on, for every definition, every measurement    *)
(* and every order of arrival: the theorems about module Decision.         *)
(***************************************************************************)
EXTENDS Decision, FiniteSetTheorems, TLAPS

-----------------------------------------------------------------------------
(***************************************************************************)
(* The record.                                                             *)
(***************************************************************************)

\* The fields of the record.
LEMMA RecordFields ==
  ASSUME RecordType
  PROVE  /\ record.exp \in ExperimentStates /\ record.generation \in Nat
         /\ record.branches \in [DOMAIN definition.fingerprints ->
                                 [state : BranchStates, generation : Nat]]
         /\ record.trials \in Seq(Trials) /\ record.attempts \in Seq(Attempts)
         /\ record.observations \in Seq(Observations)
BY DEF RecordType, Records

\* The types depend on the definition, which no step changes.
LEMMA RecordTyped ==
  ASSUME RecordType, definition' = definition, record' \in Records, decisions' \in Seq(Decisions)
  PROVE  RecordType'
<1>1. Trials' = Trials /\ Attempts' = Attempts /\ Observations' = Observations
  BY DEF Trials, Attempts, Observations
<1>2. Records' = Records /\ Decisions' = Decisions
  BY <1>1 DEF Records, Decisions
<1> QED BY <1>2 DEF RecordType

\* A function on 1 .. n is a sequence.
LEMMA FunctionIsSeq ==
  ASSUME NEW S, NEW n \in Nat, NEW f, f \in [1 .. n -> S]
  PROVE  f \in Seq(S)
OBVIOUS

\* A member of a sequence replaced.
LEMMA Replaced ==
  ASSUME NEW S, NEW s \in Seq(S), NEW i \in DOMAIN s, NEW e \in S
  PROVE  /\ [s EXCEPT ![i] = e] \in Seq(S) /\ DOMAIN [s EXCEPT ![i] = e] = DOMAIN s
         /\ [s EXCEPT ![i] = e][i] = e
         /\ \A j \in DOMAIN s : j # i => [s EXCEPT ![i] = e][j] = s[j]
OBVIOUS

\* A member appended to a sequence.
LEMMA Appended ==
  ASSUME NEW S, NEW s \in Seq(S), NEW e \in S
  PROVE  /\ Append(s, e) \in Seq(S)
         /\ DOMAIN Append(s, e) = DOMAIN s \cup {Len(s) + 1} /\ Len(s) + 1 \notin DOMAIN s
         /\ Append(s, e)[Len(s) + 1] = e /\ \A j \in DOMAIN s : Append(s, e)[j] = s[j]
OBVIOUS

\* A trial in another state.
LEMMA TrialMoved ==
  ASSUME NEW trial \in Trials, NEW state \in TrialStates
  PROVE  /\ [trial EXCEPT !.state = state] \in Trials
         /\ [trial EXCEPT !.state = state].state = state
         /\ [trial EXCEPT !.state = state].branch = trial.branch
         /\ [trial EXCEPT !.state = state].authoritative_attempt = trial.authoritative_attempt
BY DEF Trials

\* An attempt in another state.
LEMMA AttemptMoved ==
  ASSUME NEW attempt \in Attempts, NEW state \in AttemptStates
  PROVE  /\ [attempt EXCEPT !.state = state] \in Attempts
         /\ [attempt EXCEPT !.state = state].state = state
         /\ [attempt EXCEPT !.state = state].trial = attempt.trial
         /\ [attempt EXCEPT !.state = state].branch = attempt.branch
BY DEF Attempts

\* The initial record is empty.
LEMMA InitEvidence == Init => EvidenceInvariant
<1> SUFFICES ASSUME Init PROVE EvidenceInvariant
  OBVIOUS
<1>1. /\ record.exp = "OPEN" /\ record.generation = 1 /\ record.trials = << >>
      /\ record.attempts = << >> /\ record.observations = << >>
      /\ record.branches = [b \in DOMAIN definition.fingerprints |->
                              [state |-> "ACTIVE", generation |-> 1]]
  BY DEF Init
<1>4. RecordType
  BY <1>1 DEF Init, RecordType, Records, ExperimentStates, BranchStates
<1>5. AttemptsBelong /\ CompletedByItsAttempt /\ ObservationsBelong /\ OneValidObservation
  BY <1>1 DEF AttemptsBelong, CompletedByItsAttempt, ObservationsBelong, OneValidObservation
<1> QED BY ZenonT(60), <1>4, <1>5 DEF EvidenceInvariant

\* What a step must not do to trials and attempts: a trial keeps its branch, an
\* attempt its trial, its branch and its completion; what is new belongs to a trial,
\* and what is newly completed is completed by the attempt that is named.
Grows ==
  /\ \A t \in DOMAIN record.trials :
       t \in DOMAIN record'.trials /\ record'.trials[t].branch = record.trials[t].branch
  /\ \A a \in DOMAIN record.attempts :
       /\ a \in DOMAIN record'.attempts
       /\ record'.attempts[a].trial = record.attempts[a].trial
       /\ record'.attempts[a].branch = record.attempts[a].branch
       /\ record.attempts[a].state = "COMPLETED" => record'.attempts[a].state = "COMPLETED"
  /\ \A a \in DOMAIN record'.attempts \ DOMAIN record.attempts :
       /\ record'.attempts[a].trial \in DOMAIN record'.trials
       /\ record'.attempts[a].branch = record'.trials[record'.attempts[a].trial].branch
  /\ \A t \in DOMAIN record'.trials : record'.trials[t].state = "COMPLETED" =>
       LET a == record'.trials[t].authoritative_attempt
       IN  \/ /\ t \in DOMAIN record.trials /\ record.trials[t].state = "COMPLETED"
              /\ a = record.trials[t].authoritative_attempt
           \/ /\ a \in DOMAIN record'.attempts
              /\ record'.attempts[a].trial = t /\ record'.attempts[a].state = "COMPLETED"

\* The observations stay, or one is appended that was made by an attempt of its
\* trial; a valid one is the first of its attempt and its metric.
AddsEvidence ==
  \/ record'.observations = record.observations
  \/ \E o \in Observations :
       /\ record'.observations = Append(record.observations, o)
       /\ o.attempt \in DOMAIN record.attempts /\ o.trial = record.attempts[o.attempt].trial
       /\ o.validity = "VALID" => ~Known(o.attempt, o.metric)

\* Steps that keep to this keep the invariant.
LEMMA GrowsEvidence ==
  ASSUME EvidenceInvariant, RecordType', Grows, AddsEvidence
  PROVE  EvidenceInvariant'
<1>1. AttemptsBelong'
  BY DEF EvidenceInvariant, AttemptsBelong, Grows
<1>2. CompletedByItsAttempt'
  BY DEF EvidenceInvariant, CompletedByItsAttempt, Grows
<1>3. ObservationsBelong' /\ OneValidObservation'
  <2>1. CASE record'.observations = record.observations
    BY <2>1 DEF EvidenceInvariant, ObservationsBelong, OneValidObservation, Grows
  <2>2. ASSUME NEW o \in Observations,
               record'.observations = Append(record.observations, o),
               o.attempt \in DOMAIN record.attempts, o.trial = record.attempts[o.attempt].trial,
               o.validity = "VALID" => ~Known(o.attempt, o.metric)
        PROVE  ObservationsBelong' /\ OneValidObservation'
    <3>0. record.observations \in Seq(Observations)
      BY ZenonT(60), RecordFields DEF EvidenceInvariant
    <3>1. /\ DOMAIN record'.observations = DOMAIN record.observations \cup {Len(record.observations) + 1}
          /\ Len(record.observations) + 1 \notin DOMAIN record.observations
          /\ record'.observations[Len(record.observations) + 1] = o
          /\ \A n \in DOMAIN record.observations : record'.observations[n] = record.observations[n]
      BY <3>0, <2>2
    <3> DEFINE k == Len(record.observations) + 1
    <3> HIDE DEF k
    <3>2. /\ DOMAIN record'.observations = DOMAIN record.observations \cup {k}
          /\ record'.observations[k] = o
          /\ \A n \in DOMAIN record.observations : record'.observations[n] = record.observations[n]
      BY ZenonT(60), <3>1 DEF k
    <3>3. ObservationsBelong'
      BY <3>2, <2>2 DEF EvidenceInvariant, ObservationsBelong, Grows
    <3>4. OneValidObservation'
      BY ZenonT(60), <3>2, <2>2 DEF EvidenceInvariant, OneValidObservation, Known
    <3> QED BY ZenonT(60), <3>3, <3>4
  <2> QED BY ZenonT(60), <2>1, <2>2 DEF AddsEvidence
<1> QED BY ZenonT(60), <1>1, <1>2, <1>3 DEF EvidenceInvariant

\* create_trial appends a trial that nobody has run.
LEMMA CreateTrialEvidence ==
  ASSUME EvidenceInvariant, NEW b \in DOMAIN record.branches, CreateTrial(b)
  PROVE  EvidenceInvariant'
<1> DEFINE trial == [branch |-> b, generation |-> record.generation,
                     branch_generation |-> record.branches[b].generation, state |-> "READY",
                     attempt_count |-> 0, authoritative_attempt |-> NoId]
<1>t. RecordType
  BY DEF EvidenceInvariant
<1>1. trial \in Trials
  BY ZenonT(60), <1>t, RecordFields DEF Trials, TrialStates, NoId
<1>2. /\ record' = [record EXCEPT !.trials = Append(@, trial)]
      /\ definition' = definition /\ decisions' = decisions
  BY DEF CreateTrial
<1> HIDE DEF trial
<1>3. /\ record'.trials = Append(record.trials, trial)
      /\ record'.attempts = record.attempts /\ record'.observations = record.observations
  BY ZenonT(60), <1>t, <1>2 DEF RecordType, Records
<1>4. RecordType'
  <2>1. Append(record.trials, trial) \in Seq(Trials)
    BY <1>t, <1>1, RecordFields
  <2>2. record' \in Records
    BY ZenonT(60), <1>t, <1>2, <2>1 DEF RecordType, Records
  <2> QED BY ZenonT(60), <1>t, <1>2, <2>2, RecordTyped DEF RecordType
<1>5. /\ DOMAIN record.trials \subseteq DOMAIN record'.trials
      /\ \A t \in DOMAIN record.trials : record'.trials[t] = record.trials[t]
      /\ \A t \in DOMAIN record'.trials \ DOMAIN record.trials : record'.trials[t] = trial
  <2>1. record.trials \in Seq(Trials)
    BY ZenonT(60), <1>t, RecordFields
  <2>2. /\ DOMAIN Append(record.trials, trial) = DOMAIN record.trials \cup {Len(record.trials) + 1}
        /\ Append(record.trials, trial)[Len(record.trials) + 1] = trial
        /\ \A t \in DOMAIN record.trials : Append(record.trials, trial)[t] = record.trials[t]
    BY <1>1, <2>1
  <2> QED BY ZenonT(60), <1>3, <2>2
<1>6. Grows
  BY <1>3, <1>5 DEF Grows, trial
<1> QED BY <1>3, <1>4, <1>6, GrowsEvidence DEF AddsEvidence

\* q is what claim_trials makes of the trial r when it issues the attempt n.
Assigned(q, r, n) ==
  q = [r EXCEPT !.state = "ASSIGNED", !.attempt_count = @ + 1, !.authoritative_attempt = n]

\* What claim_trials makes of a trial is a trial of the same branch.
LEMMA AssignedTrial ==
  ASSUME NEW r, r \in Trials, NEW n, n \in Nat, NEW q, Assigned(q, r, n)
  PROVE  q \in Trials /\ q.state = "ASSIGNED" /\ q.branch = r.branch
<1>1. "ASSIGNED" \in TrialStates
  BY DEF TrialStates
<1>2. r.attempt_count + 1 \in Nat
  BY DEF Trials
<1>3. PICK c : c = r.attempt_count + 1 /\ c \in Nat
  BY ZenonT(60), <1>2
<1>4. q = [r EXCEPT !.state = "ASSIGNED", !.attempt_count = c, !.authoritative_attempt = n]
  BY ZenonT(60), <1>3 DEF Assigned
<1>5. q \in Trials
  BY ONLY r \in Trials, n \in Nat, <1>1, <1>3, <1>4 DEF Trials
<1>6. q.state = "ASSIGNED" /\ q.branch = r.branch
  BY ONLY r \in Trials, <1>4 DEF Trials
<1> QED BY ZenonT(60), <1>5, <1>6

\* claim_trials appends an attempt and assigns it to a READY trial.
LEMMA ClaimTrialEvidence ==
  ASSUME EvidenceInvariant, NEW t \in DOMAIN record.trials, ClaimTrial(t)
  PROVE  EvidenceInvariant'
<1> DEFINE attempt == [trial |-> t, branch |-> record.trials[t].branch, state |-> "ISSUED"]
           trial == [record.trials[t] EXCEPT !.state = "ASSIGNED", !.attempt_count = @ + 1,
                                             !.authoritative_attempt = Len(record.attempts) + 1]
<1>t. RecordType
  BY DEF EvidenceInvariant
<1>0. /\ record.trials \in Seq(Trials) /\ record.attempts \in Seq(Attempts)
      /\ record.trials[t] \in Trials /\ t \in Nat
  BY <1>t, RecordFields
<1>1. /\ trial \in Trials /\ trial.state = "ASSIGNED" /\ trial.branch = record.trials[t].branch
      /\ attempt \in Attempts /\ attempt.trial = t /\ attempt.branch = record.trials[t].branch
  <2>1. Len(record.attempts) + 1 \in Nat
    BY <1>0
  <2>2. trial \in Trials /\ trial.state = "ASSIGNED" /\ trial.branch = record.trials[t].branch
    <3>1. PICK r : r = record.trials[t] /\ r \in Trials
      BY ZenonT(60), <1>0
    <3>2. PICK n : n = Len(record.attempts) + 1 /\ n \in Nat
      BY ZenonT(60), <2>1
    <3>3. PICK q : Assigned(q, r, n)
      BY ZenonT(60) DEF Assigned
    <3>4. q \in Trials /\ q.state = "ASSIGNED" /\ q.branch = r.branch
      BY ZenonT(60), <3>1, <3>2, <3>3, AssignedTrial
    <3> QED BY ZenonT(60), <3>1, <3>2, <3>3, <3>4 DEF Assigned
  <2>3. record.trials[t].branch \in DOMAIN definition.fingerprints
    BY ZenonT(60), <1>0 DEF Trials
  <2>4. attempt \in Attempts /\ attempt.trial = t /\ attempt.branch = record.trials[t].branch
    BY <1>0, <2>3 DEF Attempts, AttemptStates
  <2> QED BY ZenonT(60), <2>2, <2>4
<1>2. /\ record' = [record EXCEPT !.attempts = Append(@, attempt), !.trials[t] = trial]
      /\ definition' = definition /\ decisions' = decisions
  BY DEF ClaimTrial
<1> HIDE DEF trial, attempt
<1>3. /\ record'.trials = [record.trials EXCEPT ![t] = trial]
      /\ record'.attempts = Append(record.attempts, attempt)
      /\ record'.observations = record.observations
  BY <1>t, <1>2 DEF RecordType, Records
<1>4. RecordType'
  <2>1. Append(record.attempts, attempt) \in Seq(Attempts) /\ [record.trials EXCEPT ![t] = trial] \in Seq(Trials)
    BY <1>0, <1>1, Replaced, Appended
  <2>2. record' \in Records
    BY ZenonT(60), <1>t, <1>2, <2>1 DEF RecordType, Records
  <2> QED BY <1>t, <1>2, <2>2, RecordTyped DEF RecordType
<1>5. /\ DOMAIN record'.trials = DOMAIN record.trials /\ record'.trials[t] = trial
      /\ \A u \in DOMAIN record.trials : u # t => record'.trials[u] = record.trials[u]
  BY <1>0, <1>1, <1>3, Replaced
<1>6. /\ DOMAIN record.attempts \subseteq DOMAIN record'.attempts
      /\ \A a \in DOMAIN record.attempts : record'.attempts[a] = record.attempts[a]
      /\ \A a \in DOMAIN record'.attempts \ DOMAIN record.attempts : record'.attempts[a] = attempt
  BY <1>0, <1>1, <1>3, Appended
<1>7. Grows
  BY <1>1, <1>5, <1>6 DEF Grows
<1> QED BY <1>3, <1>4, <1>7, GrowsEvidence DEF AddsEvidence

\* A step that moves the trial and the attempt of an envelope: the trial keeps its
\* branch and was open; if it is completed now, the attempt is.
LEMMA MovedGrows ==
  ASSUME EvidenceInvariant, NEW a \in DOMAIN record.attempts, check_envelope(a),
         NEW trial, NEW attempt,
         trial.branch = record.trials[record.attempts[a].trial].branch,
         trial.state = "COMPLETED" => /\ attempt.state = "COMPLETED"
                                      /\ trial.authoritative_attempt = a,
         attempt.trial = record.attempts[a].trial, attempt.branch = record.attempts[a].branch,
         record'.trials = [record.trials EXCEPT ![record.attempts[a].trial] = trial],
         record'.attempts = [record.attempts EXCEPT ![a] = attempt]
  PROVE  Grows
<1> DEFINE t == record.attempts[a].trial
<1>1. t \in DOMAIN record.trials
  BY ZenonT(60) DEF EvidenceInvariant, AttemptsBelong
<1>2. record.attempts[a].state # "COMPLETED"
  BY ZenonT(60) DEF check_envelope, is_attempt_terminal
<1>3. /\ DOMAIN record'.trials = DOMAIN record.trials /\ record'.trials[t] = trial
      /\ \A u \in DOMAIN record.trials : u # t => record'.trials[u] = record.trials[u]
  <2>1. record.trials \in Seq(Trials)
    BY ZenonT(60), RecordFields DEF EvidenceInvariant
  <2> QED BY ZenonT(60), <1>1, <2>1
<1>4. /\ DOMAIN record'.attempts = DOMAIN record.attempts /\ record'.attempts[a] = attempt
      /\ \A c \in DOMAIN record.attempts : c # a => record'.attempts[c] = record.attempts[c]
  <2>1. record.attempts \in Seq(Attempts)
    BY ZenonT(60), RecordFields DEF EvidenceInvariant
  <2> QED BY ZenonT(60), <2>1
<1> HIDE DEF t
<1>5. /\ trial.branch = record.trials[t].branch
      /\ attempt.trial = t /\ record.attempts[a].trial = t
  BY ZenonT(60) DEF t
<1> QED BY <1>1, <1>2, <1>3, <1>4, <1>5 DEF Grows

\* What is appended to the observations.
Entry(a, m, validity, value) ==
  [trial |-> record.attempts[a].trial, attempt |-> a, metric |-> m,
   validity |-> validity, value |-> value]

\* What is filed is an observation.
LEMMA EntryTyped ==
  ASSUME EvidenceInvariant, NEW a \in DOMAIN record.attempts, NEW m \in DOMAIN definition.metrics,
         NEW validity, validity \in {"VALID", "INVALID"} \cup definition.validities,
         NEW value, value \in Values \cup {NoId}
  PROVE  Entry(a, m, validity, value) \in Observations
<1>0. record.attempts \in Seq(Attempts)
  BY ZenonT(60), RecordFields DEF EvidenceInvariant
<1>1. record.attempts[a] \in Attempts /\ a \in Nat
  BY <1>0
<1>2. record.attempts[a].trial \in Nat
  BY ZenonT(60), <1>1 DEF Attempts
<1> QED BY ZenonT(60), <1>1, <1>2 DEF Observations, Entry

\* An attempt has a trial.
LEMMA TrialOfAttempt ==
  ASSUME EvidenceInvariant, NEW a \in DOMAIN record.attempts
  PROVE  /\ record.attempts[a].trial \in DOMAIN record.trials
         /\ record.trials[record.attempts[a].trial] \in Trials /\ record.attempts[a] \in Attempts
<1>1. record.attempts[a].trial \in DOMAIN record.trials
  BY DEF EvidenceInvariant, AttemptsBelong
<1>2. record.trials \in Seq(Trials) /\ record.attempts \in Seq(Attempts)
  BY ZenonT(60), RecordFields DEF EvidenceInvariant
<1> QED BY <1>1, <1>2

\* The trial and the attempt of an envelope in other states.
LEMMA MovedTyped ==
  ASSUME EvidenceInvariant, NEW a \in DOMAIN record.attempts, NEW trial \in Trials, NEW attempt \in Attempts
  PROVE  /\ record.attempts[a].trial \in DOMAIN record.trials
         /\ [record.trials EXCEPT ![record.attempts[a].trial] = trial] \in Seq(Trials)
         /\ [record.attempts EXCEPT ![a] = attempt] \in Seq(Attempts)
<1>1. record.attempts[a].trial \in DOMAIN record.trials
  BY ZenonT(60) DEF EvidenceInvariant, AttemptsBelong
<1>2. record.trials \in Seq(Trials) /\ record.attempts \in Seq(Attempts)
  BY ZenonT(60), RecordFields DEF EvidenceInvariant
<1> QED BY <1>1, <1>2, Replaced

\* publish_observation: the observation is new to its attempt.
LEMMA PublishEvidence ==
  ASSUME EvidenceInvariant, NEW a \in DOMAIN record.attempts, NEW m \in DOMAIN definition.metrics,
         NEW validity, validity \in {"VALID", "INVALID"} \cup definition.validities,
         NEW value, value \in Values \cup {NoId}, PublishObservation(a, m, validity, value)
  PROVE  EvidenceInvariant'
<1> DEFINE t == record.attempts[a].trial
           trial == [record.trials[t] EXCEPT !.state = "OBSERVING"]
           attempt == [record.attempts[a] EXCEPT !.state = "RUNNING"]
           o == Entry(a, m, validity, value)
           observations == Append(record.observations, o)
<1>t. RecordType
  BY ZenonT(60) DEF EvidenceInvariant
<1>0. /\ t \in DOMAIN record.trials /\ record.trials[t] \in Trials
      /\ record.attempts[a] \in Attempts
  BY ZenonT(60), TrialOfAttempt
<1>s. "OBSERVING" \in TrialStates /\ "RUNNING" \in AttemptStates
  BY DEF TrialStates, AttemptStates
<1>1. /\ trial \in Trials /\ trial.state = "OBSERVING" /\ trial.branch = record.trials[t].branch
  BY ZenonT(60), <1>0, <1>s, TrialMoved
<1>2. /\ attempt \in Attempts /\ attempt.trial = t /\ attempt.branch = record.attempts[a].branch
  BY ZenonT(60), <1>0, <1>s, AttemptMoved
<1>3. /\ record' = [record EXCEPT !.observations = observations, !.trials[t] = trial,
                                  !.attempts[a] = attempt]
      /\ definition' = definition /\ decisions' = decisions
      /\ check_envelope(a) /\ ~Known(a, m)
  BY ZenonT(60) DEF PublishObservation, Recorded, Entry
<1>4. o \in Observations /\ o.attempt = a /\ o.trial = t /\ o.metric = m
  BY ZenonT(60), EntryTyped DEF Entry
<1>5. /\ observations \in Seq(Observations)
      /\ [record.trials EXCEPT ![t] = trial] \in Seq(Trials)
      /\ [record.attempts EXCEPT ![a] = attempt] \in Seq(Attempts)
  <2>1. record.observations \in Seq(Observations)
    BY ZenonT(60), <1>t, RecordFields
  <2> HIDE DEF o, trial, attempt
  <2>2. observations \in Seq(Observations)
    BY <1>4, <2>1
  <2> QED BY ZenonT(60), <1>1, <1>2, <2>2, MovedTyped
<1> HIDE DEF t, trial, attempt, observations, o
<1>6. /\ record'.trials = [record.trials EXCEPT ![t] = trial]
      /\ record'.attempts = [record.attempts EXCEPT ![a] = attempt]
      /\ record'.observations = observations
  BY ZenonT(60), <1>t, <1>3 DEF RecordType, Records
<1>7. RecordType'
  <2>1. record' \in Records
    BY ZenonT(60), <1>t, <1>3, <1>5 DEF RecordType, Records
  <2> QED BY ZenonT(60), <1>t, <1>3, <2>1, RecordTyped DEF RecordType
<1>8. Grows
  BY <1>1, <1>2, <1>3, <1>6, MovedGrows DEF t
<1>9. AddsEvidence
  BY ZenonT(60), <1>3, <1>4, <1>6 DEF AddsEvidence, t, observations
<1> QED BY ZenonT(60), <1>7, <1>8, <1>9, GrowsEvidence

\* publish_observation without authority: what is kept is not valid.
LEMMA RejectEvidence ==
  ASSUME EvidenceInvariant, NEW a \in DOMAIN record.attempts, NEW m \in DOMAIN definition.metrics,
         RejectObservation(a, m)
  PROVE  EvidenceInvariant'
<1> DEFINE o == Entry(a, m, "INVALID", NoId)
           observations == Append(record.observations, o)
<1>t. RecordType
  BY DEF EvidenceInvariant
<1>1. /\ record' = [record EXCEPT !.observations = observations]
      /\ definition' = definition /\ decisions' = decisions
  BY ZenonT(60) DEF RejectObservation, Recorded, Entry
<1>2. /\ o \in Observations /\ o.attempt = a /\ o.trial = record.attempts[a].trial
      /\ o.validity = "INVALID"
  BY ZenonT(60), EntryTyped DEF Entry
<1> HIDE DEF o
<1>3. observations \in Seq(Observations)
  BY <1>t, <1>2, RecordFields
<1> HIDE DEF observations
<1>4. /\ record'.trials = record.trials /\ record'.attempts = record.attempts
      /\ record'.observations = observations
  BY ZenonT(60), <1>t, <1>1 DEF RecordType, Records
<1>5. RecordType'
  <2>1. record' \in Records
    BY ZenonT(60), <1>t, <1>1, <1>3 DEF RecordType, Records
  <2> QED BY ZenonT(60), <1>t, <1>1, <2>1, RecordTyped DEF RecordType
<1>6. Grows
  BY ZenonT(60), <1>4 DEF Grows, EvidenceInvariant, AttemptsBelong
<1>7. AddsEvidence
  BY ZenonT(60), <1>2, <1>4 DEF AddsEvidence, observations
<1> QED BY ZenonT(60), <1>5, <1>6, <1>7, GrowsEvidence

\* commit_trial completes the trial by the attempt it names.
LEMMA CommitEvidence ==
  ASSUME EvidenceInvariant, NEW a \in DOMAIN record.attempts, CommitTrial(a)
  PROVE  EvidenceInvariant'
<1> DEFINE t == record.attempts[a].trial
           trial == [record.trials[t] EXCEPT !.state = "COMPLETED"]
           attempt == [record.attempts[a] EXCEPT !.state = "COMPLETED"]
<1>t. RecordType
  BY ZenonT(60) DEF EvidenceInvariant
<1>0. /\ t \in DOMAIN record.trials /\ record.trials[t] \in Trials
      /\ record.attempts[a] \in Attempts
  BY ZenonT(60), TrialOfAttempt
<1>s. "COMPLETED" \in TrialStates /\ "COMPLETED" \in AttemptStates
  BY DEF TrialStates, AttemptStates
<1>1. /\ trial \in Trials /\ trial.branch = record.trials[t].branch
      /\ trial.authoritative_attempt = record.trials[t].authoritative_attempt
  BY ZenonT(60), <1>0, <1>s, TrialMoved
<1>2. /\ attempt \in Attempts /\ attempt.trial = t /\ attempt.branch = record.attempts[a].branch
      /\ attempt.state = "COMPLETED"
  BY ZenonT(60), <1>0, <1>s, AttemptMoved
<1>3. /\ record' = [record EXCEPT !.attempts[a] = attempt, !.trials[t] = trial]
      /\ definition' = definition /\ decisions' = decisions /\ check_envelope(a)
  BY ZenonT(60) DEF CommitTrial
<1>4. record.trials[t].authoritative_attempt = a
  BY ZenonT(60), <1>3 DEF check_envelope
<1> HIDE DEF trial, attempt
<1>5. /\ [record.trials EXCEPT ![t] = trial] \in Seq(Trials)
      /\ [record.attempts EXCEPT ![a] = attempt] \in Seq(Attempts)
  BY ZenonT(60), <1>1, <1>2, MovedTyped
<1> HIDE DEF t
<1>6. /\ record'.trials = [record.trials EXCEPT ![t] = trial]
      /\ record'.attempts = [record.attempts EXCEPT ![a] = attempt]
      /\ record'.observations = record.observations
  BY ZenonT(60), <1>t, <1>3 DEF RecordType, Records
<1>7. RecordType'
  <2>1. record' \in Records
    BY ZenonT(60), <1>t, <1>3, <1>5 DEF RecordType, Records
  <2> QED BY ZenonT(60), <1>t, <1>3, <2>1, RecordTyped DEF RecordType
<1>8. Grows
  BY <1>1, <1>2, <1>3, <1>4, <1>6, MovedGrows DEF t
<1> QED BY ZenonT(60), <1>6, <1>7, <1>8, GrowsEvidence DEF AddsEvidence

\* fail_trial ends the attempt, and ends the trial or makes it READY again.
LEMMA FailEvidence ==
  ASSUME EvidenceInvariant, NEW a \in DOMAIN record.attempts, NEW retryable \in BOOLEAN,
         FailTrial(a, retryable)
  PROVE  EvidenceInvariant'
<1> DEFINE t == record.attempts[a].trial
           b == record.attempts[a].branch
           retry == retryable /\ record.trials[t].attempt_count < definition.max_attempts
           trial == [record.trials[t] EXCEPT
                       !.state = IF retry THEN "READY" ELSE "FAILED",
                       !.authoritative_attempt = IF retry THEN NoId ELSE @]
           attempt == [record.attempts[a] EXCEPT !.state = "FAILED"]
           branch == [record.branches[b] EXCEPT
                        !.state = IF definition.partial_failure_policy = "INVALIDATE_BRANCH"
                                  THEN "INVALID" ELSE @]
<1>t. RecordType
  BY ZenonT(60) DEF EvidenceInvariant
<1>0. /\ t \in DOMAIN record.trials /\ record.trials[t] \in Trials
      /\ record.attempts[a] \in Attempts
  BY ZenonT(60), TrialOfAttempt
<1>s. "READY" \in TrialStates /\ "FAILED" \in TrialStates /\ "FAILED" \in AttemptStates
  BY ZenonT(60) DEF TrialStates, AttemptStates
<1>b. /\ record.branches[b] \in [state : BranchStates, generation : Nat]
      /\ record.branches \in [DOMAIN definition.fingerprints -> [state : BranchStates, generation : Nat]]
      /\ b \in DOMAIN definition.fingerprints
  <2>1. b \in DOMAIN definition.fingerprints
    BY ZenonT(60), <1>0 DEF Attempts
  <2> QED BY ZenonT(60), <1>t, <2>1, RecordFields
<1>1. /\ trial \in Trials /\ trial.branch = record.trials[t].branch /\ trial.state # "COMPLETED"
  <2> DEFINE tr == record.trials[t]
  <2>1. tr \in Trials
    BY ZenonT(60), <1>0
  <2> HIDE DEF tr, retry
  <2>2. [tr EXCEPT !.state = IF retry THEN "READY" ELSE "FAILED",
                   !.authoritative_attempt = IF retry THEN NoId ELSE @] \in Trials
    BY ZenonT(60), <2>1, <1>s DEF Trials, NoId
  <2>3. /\ trial.branch = record.trials[t].branch /\ trial.state # "COMPLETED"
    BY <2>1 DEF Trials, tr
  <2> QED BY ZenonT(60), <2>2, <2>3 DEF tr
<1>2. /\ attempt \in Attempts /\ attempt.trial = t /\ attempt.branch = record.attempts[a].branch
  BY ZenonT(60), <1>0, <1>s, AttemptMoved
<1>3. /\ record' = [record EXCEPT !.attempts[a] = attempt, !.trials[t] = trial, !.branches[b] = branch]
      /\ definition' = definition /\ decisions' = decisions /\ check_envelope(a)
  BY ZenonT(60) DEF FailTrial
<1>4. branch \in [state : BranchStates, generation : Nat]
  BY ZenonT(60), <1>b DEF BranchStates
<1> HIDE DEF trial, attempt, branch
<1>5. /\ [record.trials EXCEPT ![t] = trial] \in Seq(Trials)
      /\ [record.attempts EXCEPT ![a] = attempt] \in Seq(Attempts)
      /\ [record.branches EXCEPT ![b] = branch] \in [DOMAIN definition.fingerprints ->
                                                        [state : BranchStates, generation : Nat]]
  <2>1. [record.branches EXCEPT ![b] = branch] \in [DOMAIN definition.fingerprints ->
                                                        [state : BranchStates, generation : Nat]]
    BY ZenonT(60), <1>b, <1>4
  <2> QED BY ZenonT(60), <1>1, <1>2, <2>1, MovedTyped
<1> HIDE DEF t, b
<1>6. /\ record'.trials = [record.trials EXCEPT ![t] = trial]
      /\ record'.attempts = [record.attempts EXCEPT ![a] = attempt]
      /\ record'.observations = record.observations
  BY ZenonT(60), <1>t, <1>3 DEF RecordType, Records
<1>7. RecordType'
  <2>1. record' \in Records
    BY ZenonT(60), <1>t, <1>3, <1>5 DEF RecordType, Records
  <2> QED BY ZenonT(60), <1>t, <1>3, <2>1, RecordTyped DEF RecordType
<1>8. Grows
  BY <1>1, <1>2, <1>3, <1>6, MovedGrows DEF t
<1> QED BY ZenonT(60), <1>6, <1>7, <1>8, GrowsEvidence DEF AddsEvidence

\* What abandoning open work makes of the record: what was not terminal ends, nothing is
\* completed, nothing else moves.
Abandoned(r, ts, as) ==
  /\ r.exp = record.exp /\ r.generation = record.generation
  /\ r.branches = record.branches /\ r.observations = record.observations
  /\ DOMAIN r.trials = DOMAIN record.trials /\ DOMAIN r.attempts = DOMAIN record.attempts
  /\ \A t \in DOMAIN record.trials :
       \/ r.trials[t] = record.trials[t]
       \/ /\ r.trials[t].branch = record.trials[t].branch
          /\ r.trials[t].state = ts /\ record.trials[t].state # "COMPLETED"
  /\ \A a \in DOMAIN record.attempts :
       \/ r.attempts[a] = record.attempts[a]
       \/ /\ r.attempts[a].trial = record.attempts[a].trial
          /\ r.attempts[a].branch = record.attempts[a].branch
          /\ r.attempts[a].state = as /\ record.attempts[a].state # "COMPLETED"

\* Ended abandons open work and yields a record.
LEMMA EndedTyped ==
  ASSUME RecordType, NEW B, NEW ts, ts \in TrialStates, NEW as, as \in AttemptStates,
         ts # "COMPLETED", as # "COMPLETED", NEW r, r = Ended(B, ts, as)
  PROVE  r \in Records /\ Abandoned(r, ts, as)
<1> DEFINE T == [t \in DOMAIN record.trials |->
                   IF record.trials[t].branch \in B /\ ~is_terminal(record.trials[t].state)
                   THEN [record.trials[t] EXCEPT !.state = ts] ELSE record.trials[t]]
           A == [a \in DOMAIN record.attempts |->
                   IF record.attempts[a].branch \in B /\ ~is_attempt_terminal(record.attempts[a].state)
                   THEN [record.attempts[a] EXCEPT !.state = as] ELSE record.attempts[a]]
<1>1. /\ record.trials \in Seq(Trials) /\ record.attempts \in Seq(Attempts)
      /\ \A t \in DOMAIN record.trials : record.trials[t] \in Trials
      /\ \A a \in DOMAIN record.attempts : record.attempts[a] \in Attempts
  BY RecordFields
<1>2. \A t \in DOMAIN record.trials :
        /\ T[t] \in Trials
        /\ \/ T[t] = record.trials[t]
           \/ /\ T[t].branch = record.trials[t].branch
              /\ T[t].state = ts /\ record.trials[t].state # "COMPLETED"
  BY ZenonT(60), <1>1, TrialMoved DEF is_terminal
<1>3. \A a \in DOMAIN record.attempts :
        /\ A[a] \in Attempts
        /\ \/ A[a] = record.attempts[a]
           \/ /\ A[a].trial = record.attempts[a].trial
              /\ A[a].branch = record.attempts[a].branch
              /\ A[a].state = as /\ record.attempts[a].state # "COMPLETED"
  BY ZenonT(60), <1>1, AttemptMoved DEF is_attempt_terminal
<1>4. r = [record EXCEPT !.trials = T, !.attempts = A]
  BY DEF Ended
<1>5. DOMAIN T = DOMAIN record.trials /\ DOMAIN A = DOMAIN record.attempts
  OBVIOUS
<1> HIDE DEF T, A
<1>6. T \in Seq(Trials) /\ A \in Seq(Attempts)
  <2>0. /\ Len(record.trials) \in Nat /\ DOMAIN record.trials = 1 .. Len(record.trials)
        /\ Len(record.attempts) \in Nat /\ DOMAIN record.attempts = 1 .. Len(record.attempts)
    BY <1>1
  <2>1. T \in Seq(Trials)
    <3>1. T \in [DOMAIN record.trials -> Trials]
      BY ZenonT(60), <1>2 DEF T
    <3> QED BY ZenonT(60), <2>0, <3>1, FunctionIsSeq
  <2>2. A \in Seq(Attempts)
    <3>1. A \in [DOMAIN record.attempts -> Attempts]
      BY ZenonT(60), <1>3 DEF A
    <3> QED BY ZenonT(60), <2>0, <3>1, FunctionIsSeq
  <2> QED BY <2>1, <2>2
<1>7. /\ r \in Records /\ r.trials = T /\ r.attempts = A
      /\ r.exp = record.exp /\ r.generation = record.generation
      /\ r.branches = record.branches /\ r.observations = record.observations
  BY ZenonT(60), <1>4, <1>6 DEF RecordType, Records
<1> QED BY ZenonT(60), <1>2, <1>3, <1>5, <1>7 DEF Abandoned

\* Abandoning open work disturbs no evidence.
LEMMA EndedEvidence ==
  ASSUME EvidenceInvariant, NEW ts, NEW as, ts # "COMPLETED", as # "COMPLETED",
         NEW r, Abandoned(r, ts, as), RecordType', record'.trials = r.trials,
         record'.attempts = r.attempts, record'.observations = r.observations
  PROVE  EvidenceInvariant'
<1>1. /\ record'.observations = record.observations
      /\ DOMAIN record'.trials = DOMAIN record.trials /\ DOMAIN record'.attempts = DOMAIN record.attempts
      /\ \A t \in DOMAIN record.trials :
           \/ record'.trials[t] = record.trials[t]
           \/ /\ record'.trials[t].branch = record.trials[t].branch
              /\ record'.trials[t].state = ts /\ record.trials[t].state # "COMPLETED"
      /\ \A a \in DOMAIN record.attempts :
           \/ record'.attempts[a] = record.attempts[a]
           \/ /\ record'.attempts[a].trial = record.attempts[a].trial
              /\ record'.attempts[a].branch = record.attempts[a].branch
              /\ record'.attempts[a].state = as /\ record.attempts[a].state # "COMPLETED"
  BY ZenonT(60) DEF Abandoned
<1>2. Grows
  BY ZenonT(60), <1>1 DEF Grows
<1> QED BY ZenonT(60), <1>1, <1>2, GrowsEvidence DEF AddsEvidence

\* revise_hypothesis, retire_branch and cancel_experiment.
LEMMA InterventionEvidence ==
  ASSUME EvidenceInvariant,
         \/ ReviseHypothesis
         \/ \E b \in DOMAIN record.branches : RetireBranch(b)
         \/ CancelExperiment
  PROVE  EvidenceInvariant'
<1>t. RecordType
  BY ZenonT(60) DEF EvidenceInvariant
<1>s. /\ "SUPERSEDED" \in TrialStates /\ "CANCELLED" \in TrialStates
      /\ "ABANDONED" \in AttemptStates /\ "CANCELLED" \in AttemptStates
  BY ZenonT(60) DEF TrialStates, AttemptStates
<1>c. "SUPERSEDED" # "COMPLETED" /\ "CANCELLED" # "COMPLETED" /\ "ABANDONED" # "COMPLETED"
  OBVIOUS
<1>1. CASE ReviseHypothesis
  <2> DEFINE r == Ended(DOMAIN record.branches, "SUPERSEDED", "ABANDONED")
  <2>1. /\ record' = [r EXCEPT !.generation = @ + 1]
        /\ definition' = definition /\ decisions' = decisions
    BY ZenonT(60), <1>1 DEF ReviseHypothesis, Intervene
  <2>2. r \in Records /\ Abandoned(r, "SUPERSEDED", "ABANDONED")
    BY ZenonT(60), <1>t, <1>s, <1>c, EndedTyped
  <2> HIDE DEF r
  <2>3. /\ record' \in Records /\ record'.trials = r.trials /\ record'.attempts = r.attempts
        /\ record'.observations = r.observations
    <3>1. r.generation + 1 \in Nat
      BY <2>2 DEF Records
    <3> QED BY ZenonT(60), <2>1, <2>2, <3>1 DEF Records
  <2>4. RecordType'
    BY <1>t, <2>1, <2>3, RecordTyped DEF RecordType
  <2> QED BY ZenonT(60), <1>c, <2>2, <2>3, <2>4, EndedEvidence
<1>2. ASSUME NEW b \in DOMAIN record.branches, RetireBranch(b) PROVE EvidenceInvariant'
  <2> DEFINE r == Ended({b}, "SUPERSEDED", "ABANDONED")
             branch == [state |-> "RETIRED", generation |-> r.branches[b].generation + 1]
  <2>1. /\ record' = [r EXCEPT !.branches[b] = branch]
        /\ definition' = definition /\ decisions' = decisions
    BY ZenonT(60), <1>2 DEF RetireBranch, Intervene
  <2>2. r \in Records /\ Abandoned(r, "SUPERSEDED", "ABANDONED")
    BY ZenonT(60), <1>t, <1>s, <1>c, EndedTyped
  <2>3. branch \in [state : BranchStates, generation : Nat]
    <3>1. /\ record.branches \in [DOMAIN definition.fingerprints -> [state : BranchStates, generation : Nat]]
      BY ZenonT(60), <1>t, RecordFields
    <3>2. record.branches[b].generation \in Nat
      BY ZenonT(60), <3>1
    <3> QED BY <2>2, <3>2 DEF BranchStates, Abandoned
  <2> HIDE DEF r, branch
  <2>4. /\ record' \in Records /\ record'.trials = r.trials /\ record'.attempts = r.attempts
        /\ record'.observations = r.observations
    BY ZenonT(60), <2>1, <2>2, <2>3 DEF Records
  <2>5. RecordType'
    BY <1>t, <2>1, <2>4, RecordTyped DEF RecordType
  <2> QED BY ZenonT(60), <1>c, <2>2, <2>4, <2>5, EndedEvidence
<1>3. CASE CancelExperiment
  <2> DEFINE r == Ended(DOMAIN record.branches, "CANCELLED", "CANCELLED")
  <2>1. /\ record' = [r EXCEPT !.exp = "CANCELLED"]
        /\ definition' = definition /\ decisions' = decisions
    BY ZenonT(60), <1>3 DEF CancelExperiment, Intervene
  <2>2. r \in Records /\ Abandoned(r, "CANCELLED", "CANCELLED")
    BY ZenonT(60), <1>t, <1>s, <1>c, EndedTyped
  <2> HIDE DEF r
  <2>3. /\ record' \in Records /\ record'.trials = r.trials /\ record'.attempts = r.attempts
        /\ record'.observations = r.observations
    BY ZenonT(60), <2>1, <2>2 DEF Records, ExperimentStates
  <2>4. RecordType'
    BY <1>t, <2>1, <2>3, RecordTyped DEF RecordType
  <2> QED BY ZenonT(60), <1>c, <2>2, <2>3, <2>4, EndedEvidence
<1> QED BY <1>1, <1>2, <1>3

-----------------------------------------------------------------------------
(***************************************************************************)
(* The constraints.                                                        *)
(***************************************************************************)

\* A set of naturals has a least member: among the initial segments of the set one
\* is minimal.
LEMMA LeastExists ==
  ASSUME NEW n \in Nat, NEW N, N \subseteq 1 .. n, N # {}
  PROVE  /\ First(N) \in N /\ \A k \in N : First(N) <= k
<1> DEFINE upto(k) == {j \in N : j <= k}
           segments == {upto(k) : k \in N}
<1>1. IsFiniteSet(N)
  <2>0. 1 \in Int /\ n \in Int
    OBVIOUS
  <2>1. IsFiniteSet(1 .. n)
    BY ZenonT(60), <2>0, FS_Interval
  <2> QED BY ZenonT(60), <2>1, FS_Subset
<1>2. segments \subseteq FiniteSubsetsOf(N) /\ segments # {}
  <2>1. ASSUME NEW k \in N PROVE upto(k) \in FiniteSubsetsOf(N)
    <3>1. upto(k) \in SUBSET N
      OBVIOUS
    <3> HIDE DEF upto
    <3>2. IsFiniteSet(upto(k))
      BY ZenonT(60), <1>1, <3>1, FS_Subset
    <3> QED BY ZenonT(60), <3>1, <3>2 DEF FiniteSubsetsOf
  <2> HIDE DEF upto
  <2> QED BY ZenonT(60), <2>1
<1>3. IsWellFoundedOn(StrictSubsetOrdering(N), FiniteSubsetsOf(N))
  BY ZenonT(60), FS_StrictSubsetOrderingWellFounded
<1>4. PICK x \in segments : \A y \in segments : ~(<<y, x>> \in StrictSubsetOrdering(N))
  <2> HIDE DEF segments
  <2>1. PICK S : S = segments /\ S \subseteq FiniteSubsetsOf(N) /\ S # {}
    BY ZenonT(60), <1>2
  <2>2. \E x \in S : \A y \in S : ~(<<y, x>> \in StrictSubsetOrdering(N))
    BY ZenonT(60), <1>3, <2>1, WFMin
  <2> QED BY ZenonT(60), <2>1, <2>2
<1>5. PICK k \in N : x = upto(k)
  BY ZenonT(60)
<1>6. \A j \in N : k <= j
  <2> SUFFICES ASSUME NEW j \in N, ~(k <= j) PROVE FALSE
    OBVIOUS
  <2>0. j \in Nat /\ k \in Nat /\ j < k /\ (\A i \in N : i \in Nat)
    OBVIOUS
  <2>1. k \in upto(k) /\ k \notin upto(j)
    BY <2>0
  <2>3. \A i \in upto(j) : i \in upto(k)
    BY <2>0
  <2>2. <<upto(j), upto(k)>> \in StrictSubsetOrdering(N)
    BY ZenonT(60), <2>1, <2>3 DEF StrictSubsetOrdering
  <2> QED BY ZenonT(60), <1>4, <1>5, <2>2
<1> QED BY ZenonT(60), <1>6 DEF First

\* Every constraint of a list is met.
Met(s) == \A i \in DOMAIN s : s[i] = "ACCEPT"

\* The first constraint that is not met decides; ACCEPT means that all are.
LEMMA FirstFailedIs ==
  ASSUME NEW s, s \in Seq(DecisionOutcomes)
  PROVE  /\ FirstFailed(s) \in DecisionOutcomes
         /\ FirstFailed(s) = "ACCEPT" => Met(s)
         /\ s # << >> /\ s[1] # "ACCEPT" => FirstFailed(s) = s[1]
<1> DEFINE failed == {i \in DOMAIN s : s[i] # "ACCEPT"}
<1>1. /\ Len(s) \in Nat /\ DOMAIN s = 1 .. Len(s) /\ (s # << >> => 1 \in DOMAIN s)
      /\ \A i \in DOMAIN s : s[i] \in DecisionOutcomes
  OBVIOUS
<1>2. FirstFailed(s) = IF failed = {} THEN "ACCEPT" ELSE s[First(failed)]
  BY ZenonT(60) DEF FirstFailed
<1>3. CASE failed = {}
  <2>1. FirstFailed(s) = "ACCEPT" /\ "ACCEPT" \in DecisionOutcomes
    BY ZenonT(60), <1>2, <1>3 DEF DecisionOutcomes
  <2> QED BY ZenonT(60), <1>1, <1>3, <2>1 DEF Met
<1>4. CASE failed # {}
  <2>1. failed \subseteq 1 .. Len(s)
    BY ZenonT(60), <1>1
  <2>2. First(failed) \in failed /\ \A k \in failed : First(failed) <= k
    <3> HIDE DEF failed
    <3> QED BY ZenonT(60), <1>1, <1>4, <2>1, LeastExists
  <2>3. FirstFailed(s) = s[First(failed)] /\ s[First(failed)] # "ACCEPT" /\ First(failed) \in DOMAIN s
    BY ZenonT(60), <1>2, <1>4, <2>2
  <2>4. s # << >> /\ s[1] # "ACCEPT" => First(failed) = 1
    <3>1. s # << >> /\ s[1] # "ACCEPT" => 1 \in failed
      BY ZenonT(60), <1>1
    <3>2. First(failed) \in 1 .. Len(s)
      BY ZenonT(60), <2>1, <2>2
    <3> HIDE DEF failed
    <3> QED BY <1>1, <2>2, <3>1, <3>2
  <2> HIDE DEF failed
  <2> QED BY ZenonT(60), <1>1, <2>3, <2>4
<1> QED BY ZenonT(60), <1>3, <1>4

\* Two lists of constraints.
LEMMA MetConcat ==
  ASSUME NEW s, s \in Seq(DecisionOutcomes), NEW u, u \in Seq(DecisionOutcomes)
  PROVE  /\ s \o u \in Seq(DecisionOutcomes)
         /\ Met(s \o u) => Met(s) /\ Met(u)
         /\ s # << >> => s \o u # << >> /\ (s \o u)[1] = s[1]
<1>1. /\ Len(s) \in Nat /\ Len(u) \in Nat
      /\ DOMAIN s = 1 .. Len(s) /\ DOMAIN u = 1 .. Len(u) /\ (s # << >> => Len(s) # 0)
  OBVIOUS
<1>2. /\ s \o u \in Seq(DecisionOutcomes) /\ Len(s \o u) = Len(s) + Len(u)
      /\ DOMAIN (s \o u) = 1 .. Len(s) + Len(u)
      /\ \A i \in 1 .. Len(s) : (s \o u)[i] = s[i]
      /\ \A i \in 1 .. Len(u) : (s \o u)[Len(s) + i] = u[i]
  OBVIOUS
<1>3. PICK w : w = s \o u
  BY ZenonT(60)
<1>4. Met(w) => Met(s) /\ Met(u)
  <2> SUFFICES ASSUME Met(w) PROVE Met(s) /\ Met(u)
    OBVIOUS
  <2>1. \A i \in DOMAIN s : i \in DOMAIN w /\ w[i] = s[i]
    BY <1>1, <1>2, <1>3
  <2>2. \A i \in DOMAIN u : Len(s) + i \in DOMAIN w /\ w[Len(s) + i] = u[i]
    BY <1>1, <1>2, <1>3
  <2> QED BY ZenonT(60), <2>1, <2>2 DEF Met
<1>5. s # << >> => w # << >> /\ w[1] = s[1]
  BY <1>1, <1>2, <1>3
<1> QED BY ZenonT(60), <1>2, <1>3, <1>4, <1>5

\* What is required of a metric in every compared branch.
Enough(d, evidence, m) ==
  /\ evidence.aggregates[m].present
  /\ evidence.aggregates[m].valid_count >= d.min_valid_observations

\* A constraint is met or names its outcome.
LEMMA RequiresIs ==
  ASSUME NEW P, NEW o, o \in DecisionOutcomes, o # "ACCEPT"
  PROVE  Requires(P, o) \in DecisionOutcomes /\ (Requires(P, o) = "ACCEPT" => P)
<1>1. "ACCEPT" \in DecisionOutcomes
  BY ZenonT(60) DEF DecisionOutcomes
<1> QED BY ZenonT(60), <1>1 DEF Requires

\* The constraints of one metric.
LEMMA MetricMet ==
  ASSUME NEW d, NEW k, k \in Nat, NEW compared, DOMAIN compared = 1 .. k, NEW m
  PROVE  /\ MetricConstraints(d, compared, m) \in DecisionOutcomes
         /\ MetricConstraints(d, compared, m) = "ACCEPT" =>
              \A i \in DOMAIN compared : Enough(d, compared[i], m)
<1> DEFINE invalid == \E i \in DOMAIN compared : compared[i].invalid_counts[m] > 0
           each == [i \in DOMAIN compared |-> Requires(Enough(d, compared[i], m), "INSUFFICIENT_EVIDENCE")]
           last == Requires(~(d.reject_on_any_invalid /\ invalid), "INVALID")
<1>0. /\ "INSUFFICIENT_EVIDENCE" \in DecisionOutcomes /\ "INVALID" \in DecisionOutcomes
      /\ "INSUFFICIENT_EVIDENCE" # "ACCEPT" /\ "INVALID" # "ACCEPT" /\ "ACCEPT" \in DecisionOutcomes
  BY DEF DecisionOutcomes
<1>1. MetricConstraints(d, compared, m) = FirstFailed(each \o << last >>)
  BY ZenonT(60) DEF MetricConstraints, Enough
<1>2. \A i \in DOMAIN compared :
        each[i] \in DecisionOutcomes /\ (each[i] = "ACCEPT" => Enough(d, compared[i], m))
  <2> TAKE i \in DOMAIN compared
  <2>1. each[i] = Requires(Enough(d, compared[i], m), "INSUFFICIENT_EVIDENCE")
    BY ZenonT(60)
  <2>2. /\ Requires(Enough(d, compared[i], m), "INSUFFICIENT_EVIDENCE") \in DecisionOutcomes
        /\ Requires(Enough(d, compared[i], m), "INSUFFICIENT_EVIDENCE") = "ACCEPT"
             => Enough(d, compared[i], m)
    BY ZenonT(60), <1>0 DEF Requires
  <2> HIDE DEF each
  <2> QED BY ZenonT(60), <2>1, <2>2
<1>3. last \in DecisionOutcomes
  <2> HIDE DEF invalid
  <2> QED BY ZenonT(60), <1>0, RequiresIs
<1>4. DOMAIN each = DOMAIN compared /\ each \in [1 .. k -> DecisionOutcomes]
  <2>1. each = [i \in DOMAIN compared |-> each[i]] /\ DOMAIN each = DOMAIN compared
    BY ZenonT(60)
  <2> HIDE DEF each
  <2> QED BY ZenonT(60), <1>2, <2>1
<1> HIDE DEF each, last
<1>5. each \in Seq(DecisionOutcomes) /\ << last >> \in Seq(DecisionOutcomes)
  <2>1. << last >> \in Seq(DecisionOutcomes)
    BY <1>3
  <2> QED BY ZenonT(60), <1>4, <2>1, FunctionIsSeq
<1>6. /\ FirstFailed(each \o << last >>) \in DecisionOutcomes
      /\ FirstFailed(each \o << last >>) = "ACCEPT" => Met(each)
  BY ZenonT(60), <1>5, MetConcat, FirstFailedIs
<1> QED BY ZenonT(60), <1>1, <1>2, <1>4, <1>6 DEF Met

\* What the constraints decide: an experiment that is not open has its outcome, and ACCEPT
\* means that the experiment is open, the branches compared are active, and what is
\* required has been measured in each of them.
LEMMA ConstraintsMet ==
  ASSUME NEW d, NEW n, n \in Nat, DOMAIN d.metrics = 1 .. n, NEW r, NEW c, NEW base,
         r.exp \in ExperimentStates, r.branches[c].state \in BranchStates,
         NEW k, k \in Nat, NEW compared, DOMAIN compared = 1 .. k,
         NEW o, o = apply_constraints(d, r, c, base, compared)
  PROVE  /\ o \in DecisionOutcomes
         /\ r.exp # "OPEN" => o = ClosedOutcome(r.exp)
         /\ o = "ACCEPT" =>
              /\ r.exp = "OPEN" /\ r.branches[c].state = "ACTIVE"
              /\ base # NoId => r.branches[base].state = "ACTIVE"
              /\ \A i \in DOMAIN compared, m \in DOMAIN d.metrics :
                   d.metrics[m].required => Enough(d, compared[i], m)
<1> DEFINE closed == << ClosedOutcome(r.exp), CandidateOutcome(r.branches[c].state) >>
           present == Requires(~(d.require_baseline /\ base = NoId), "INSUFFICIENT_EVIDENCE")
           eligible == Requires(base # NoId => is_branch_eligible(r.branches[base].state), "INSUFFICIENT_EVIDENCE")
           completed == [i \in DOMAIN compared |->
                           Requires(compared[i].completed_trials >= d.min_completed_trials,
                                    "INSUFFICIENT_EVIDENCE")]
           measured == [m \in DOMAIN d.metrics |->
                          IF d.metrics[m].required THEN MetricConstraints(d, compared, m) ELSE "ACCEPT"]
           same == Requires(d.require_environment_match =>
                              Cardinality(Fingerprints(d, r, {c, base})) <= 1, "INVALID")
<1>0. /\ "INSUFFICIENT_EVIDENCE" \in DecisionOutcomes /\ "INVALID" \in DecisionOutcomes
      /\ "INSUFFICIENT_EVIDENCE" # "ACCEPT" /\ "INVALID" # "ACCEPT" /\ "ACCEPT" \in DecisionOutcomes
  BY DEF DecisionOutcomes
<1>1. o = FirstFailed(closed \o << present, eligible >> \o completed \o measured \o << same >>)
  BY ZenonT(60) DEF apply_constraints
<1>2. /\ closed \in Seq(DecisionOutcomes) /\ closed # << >> /\ closed[1] = ClosedOutcome(r.exp)
      /\ r.exp # "OPEN" => closed[1] # "ACCEPT"
      /\ Met(closed) => r.exp = "OPEN" /\ r.branches[c].state = "ACTIVE"
  <2>1. ClosedOutcome(r.exp) \in DecisionOutcomes /\ (r.exp # "OPEN" => ClosedOutcome(r.exp) # "ACCEPT")
    BY DEF ClosedOutcome, ExperimentStates, DecisionOutcomes
  <2>2. /\ CandidateOutcome(r.branches[c].state) \in DecisionOutcomes
        /\ CandidateOutcome(r.branches[c].state) = "ACCEPT" => r.branches[c].state = "ACTIVE"
    BY ZenonT(60) DEF CandidateOutcome, BranchStates, DecisionOutcomes, is_branch_eligible
  <2>3. /\ closed[1] = ClosedOutcome(r.exp) /\ closed[2] = CandidateOutcome(r.branches[c].state)
        /\ 1 \in DOMAIN closed /\ 2 \in DOMAIN closed /\ closed # << >>
    OBVIOUS
  <2>4. closed \in Seq(DecisionOutcomes)
    BY <2>1, <2>2
  <2> HIDE DEF closed
  <2> QED BY ZenonT(60), <2>1, <2>2, <2>3, <2>4 DEF Met
<1>3. /\ << present, eligible >> \in Seq(DecisionOutcomes)
      /\ Met(<< present, eligible >>) => (base # NoId => r.branches[base].state = "ACTIVE")
  <2>1. present \in DecisionOutcomes
    BY ZenonT(60), <1>0, RequiresIs
  <2>2. /\ eligible \in DecisionOutcomes
        /\ eligible = "ACCEPT" => (base # NoId => is_branch_eligible(r.branches[base].state))
    BY ZenonT(60), <1>0, RequiresIs
  <2> HIDE DEF present, eligible
  <2>3. /\ << present, eligible >> \in Seq(DecisionOutcomes) /\ 2 \in DOMAIN << present, eligible >>
        /\ << present, eligible >>[2] = eligible
    BY <2>1, <2>2
  <2> QED BY ZenonT(60), <2>2, <2>3 DEF Met, is_branch_eligible
<1>4. completed \in Seq(DecisionOutcomes)
  <2>1. \A i \in DOMAIN compared : completed[i] \in DecisionOutcomes
    BY ZenonT(60), <1>0, RequiresIs
  <2>2. completed = [i \in DOMAIN compared |-> completed[i]]
    BY ZenonT(60)
  <2> HIDE DEF completed
  <2>3. completed \in [1 .. k -> DecisionOutcomes]
    BY ZenonT(60), <2>1, <2>2
  <2> QED BY ZenonT(60), <2>3, FunctionIsSeq
<1>5. /\ measured \in Seq(DecisionOutcomes)
      /\ Met(measured) => \A i \in DOMAIN compared, m \in DOMAIN d.metrics :
                            d.metrics[m].required => Enough(d, compared[i], m)
  <2>1. \A m \in DOMAIN d.metrics :
          /\ measured[m] \in DecisionOutcomes
          /\ d.metrics[m].required => measured[m] = MetricConstraints(d, compared, m)
    BY ZenonT(60), <1>0, MetricMet
  <2>2. measured = [m \in DOMAIN d.metrics |-> measured[m]] /\ DOMAIN measured = DOMAIN d.metrics
    BY ZenonT(60)
  <2> HIDE DEF measured
  <2>3. measured \in [1 .. n -> DecisionOutcomes]
    BY ZenonT(60), <2>1, <2>2
  <2>4. measured \in Seq(DecisionOutcomes)
    BY ZenonT(60), <2>3, FunctionIsSeq
  <2> QED BY ZenonT(60), <2>1, <2>2, <2>4, MetricMet DEF Met
<1>6. << same >> \in Seq(DecisionOutcomes)
  <2>1. same \in DecisionOutcomes
    BY ZenonT(60), <1>0, RequiresIs
  <2> HIDE DEF same
  <2> QED BY <2>1
<1> HIDE DEF closed, present, eligible, completed, measured, same
<1>7. PICK first : first = closed \o << present, eligible >>
  BY ZenonT(60)
<1>8. /\ first \in Seq(DecisionOutcomes) /\ first # << >> /\ first[1] = closed[1]
      /\ Met(first) => Met(closed) /\ Met(<< present, eligible >>)
  BY ZenonT(60), <1>2, <1>3, <1>7, MetConcat
<1>9. PICK second : second = first \o completed
  BY ZenonT(60)
<1>10. /\ second \in Seq(DecisionOutcomes) /\ second # << >> /\ second[1] = closed[1]
       /\ Met(second) => Met(first)
  BY ZenonT(60), <1>4, <1>8, <1>9, MetConcat
<1>11. PICK third : third = second \o measured
  OBVIOUS
<1>12. /\ third \in Seq(DecisionOutcomes) /\ third # << >> /\ third[1] = closed[1]
       /\ Met(third) => Met(second) /\ Met(measured)
  BY ZenonT(60), <1>5, <1>10, <1>11, MetConcat
<1>13. PICK all : all = third \o << same >>
  BY ZenonT(60)
<1>14. /\ all \in Seq(DecisionOutcomes) /\ all # << >> /\ all[1] = closed[1]
       /\ Met(all) => Met(third)
  BY ZenonT(60), <1>6, <1>12, <1>13, MetConcat
<1>15. o = FirstFailed(all)
  BY ZenonT(60), <1>1, <1>7, <1>9, <1>11, <1>13
<1>16. /\ o \in DecisionOutcomes /\ (o = "ACCEPT" => Met(all))
       /\ all[1] # "ACCEPT" => o = all[1]
  BY ZenonT(60), <1>14, <1>15, FirstFailedIs
<1> QED BY ZenonT(60), <1>2, <1>3, <1>5, <1>8, <1>10, <1>12, <1>14, <1>16

-----------------------------------------------------------------------------
(***************************************************************************)
(* The outcome.                                                            *)
(***************************************************************************)

\* What the definition and the record are indexed by.
LEMMA DefinitionFields ==
  ASSUME RecordType
  PROVE  /\ Len(definition.metrics) \in Nat /\ DOMAIN definition.metrics = 1 .. Len(definition.metrics)
         /\ definition.baseline \in {NoId} \cup DOMAIN record.branches
         /\ definition.min_valid_observations \in Nat
         /\ NoId \notin DOMAIN record.branches
         /\ record.exp \in ExperimentStates
         /\ \A b \in DOMAIN record.branches : record.branches[b].state \in BranchStates
         /\ \A rule \in Range(definition.rules) : rule.metric \in DOMAIN definition.metrics
<1>1. /\ definition.metrics \in Seq(Range(definition.metrics))
      /\ definition.fingerprints \in Seq(Range(definition.fingerprints))
      /\ definition.baseline \in {NoId} \cup DOMAIN definition.fingerprints
      /\ definition.min_valid_observations \in Nat
      /\ \A rule \in Range(definition.rules) : rule.metric \in DOMAIN definition.metrics
  BY ZenonT(60), ScenariosAssumption DEF RecordType
<1>2. Len(definition.metrics) \in Nat /\ DOMAIN definition.metrics = 1 .. Len(definition.metrics)
  BY <1>1
<1>3. NoId \notin DOMAIN definition.fingerprints
  BY <1>1 DEF NoId
<1>4. /\ record.branches \in [DOMAIN definition.fingerprints -> [state : BranchStates, generation : Nat]]
      /\ record.exp \in ExperimentStates
  BY ZenonT(60), RecordFields
<1>5. DOMAIN record.branches = DOMAIN definition.fingerprints
  BY ZenonT(60), <1>4
<1>6. \A b \in DOMAIN record.branches : record.branches[b].state \in BranchStates
  BY ZenonT(60), <1>4
<1> QED BY ZenonT(60), <1>1, <1>2, <1>3, <1>4, <1>5, <1>6

\* What the comparison can say.  It accepts only if some metric of the baseline has been
\* measured.
LEMMA CompareIs ==
  ASSUME NEW d, NEW base, NEW cand
  PROVE  /\ Compare(d, base, cand) \in DecisionOutcomes
         /\ Compare(d, base, cand) = "ACCEPT" => \E rule \in Range(d.rules) : base[rule.metric].present
<1> DEFINE decisive == {rule \in Range(d.rules) : rule.op # "REPORT_ONLY"}
           evaluated(rule) == base[rule.metric].present /\ cand[rule.metric].present
           satisfied(rule) == /\ evaluated(rule)
                              /\ Satisfied(rule, d.metrics[rule.metric].direction,
                                           base[rule.metric], cand[rule.metric])
           differs(rule) == /\ evaluated(rule)
                            /\ Minus(cand[rule.metric].value, base[rule.metric].value)[1] # 0
           refused == (\E rule \in decisive : ~satisfied(rule)) \/ ScoreFails(d, base, cand)
           tied == \A rule \in decisive : ~differs(rule)
<1>1. Compare(d, base, cand) = CASE decisive = {} -> "INCONCLUSIVE" [] refused -> "REJECT"
                                 [] tied -> "INCONCLUSIVE" [] OTHER -> "ACCEPT"
  BY ZenonT(60) DEF Compare
<1>2. decisive = {} => tied
  BY ZenonT(60)
<1>3. ~tied => \E rule \in Range(d.rules) : base[rule.metric].present
  BY ZenonT(60)
<1> HIDE DEF decisive, refused, tied
<1>4. /\ Compare(d, base, cand) \in DecisionOutcomes
      /\ Compare(d, base, cand) = "ACCEPT" => ~tied
  BY ZenonT(60), <1>1, <1>2 DEF DecisionOutcomes
<1> QED BY ZenonT(60), <1>3, <1>4

\* What the outcome o says of a decision for candidate c.
DecidedFor(c, o) ==
  /\ o \in DecisionOutcomes
  /\ c \notin DOMAIN record.branches \/ c = definition.baseline => o = "INVALID"
  /\ c \in DOMAIN record.branches /\ c # definition.baseline /\ record.exp # "OPEN"
       => o = ClosedOutcome(record.exp)
  /\ o = "ACCEPT" =>
       /\ c \in DOMAIN record.branches /\ c # definition.baseline
       /\ definition.baseline \in DOMAIN record.branches
       /\ record.exp = "OPEN"
       /\ \A b \in {c, definition.baseline} :
            /\ record.branches[b].state = "ACTIVE"
            /\ \A m \in DOMAIN definition.metrics : definition.metrics[m].required =>
                 Enough(definition, compute_evidence(definition, record, b), m)

\* What build_decision decides.
LEMMA DecisionIs ==
  ASSUME RecordType, NEW c, NEW o, o = build_decision(definition, record, c)
  PROVE  DecidedFor(c, o)
<1> SUFFICES /\ o \in DecisionOutcomes
             /\ c \notin DOMAIN record.branches \/ c = definition.baseline => o = "INVALID"
             /\ c \in DOMAIN record.branches /\ c # definition.baseline /\ record.exp # "OPEN"
                  => o = ClosedOutcome(record.exp)
             /\ o = "ACCEPT" =>
                  /\ c \in DOMAIN record.branches /\ c # definition.baseline
                  /\ definition.baseline \in DOMAIN record.branches
                  /\ record.exp = "OPEN"
                  /\ \A b \in {c, definition.baseline} :
                       /\ record.branches[b].state = "ACTIVE"
                       /\ \A m \in DOMAIN definition.metrics : definition.metrics[m].required =>
                            Enough(definition, compute_evidence(definition, record, b), m)
  BY ZenonT(60) DEF DecidedFor
<1>0. "INVALID" \in DecisionOutcomes /\ "INVALID" # "ACCEPT"
  BY ZenonT(60) DEF DecisionOutcomes
<1>1. CASE c \notin DOMAIN record.branches \/ c = definition.baseline
  <2>1. o = "INVALID"
    BY ZenonT(60), <1>1 DEF build_decision
  <2> QED BY ZenonT(60), <1>0, <1>1, <2>1
<1>2. CASE c \in DOMAIN record.branches /\ c # definition.baseline
  <2> DEFINE d == definition
             base == definition.baseline
             candidate == compute_evidence(definition, record, c)
             baseline == compute_evidence(definition, record, definition.baseline)
             compared == IF base = NoId THEN <<candidate>> ELSE <<candidate, baseline>>
             constrained == apply_constraints(d, record, c, base, compared)
             reference == IF base = NoId THEN NoEvidence(d) ELSE baseline.aggregates
  <2>1. o = IF constrained # "ACCEPT" THEN constrained ELSE Compare(d, reference, candidate.aggregates)
    BY ZenonT(60), <1>2 DEF build_decision, Against
  <2>2. /\ Len(d.metrics) \in Nat /\ DOMAIN d.metrics = 1 .. Len(d.metrics)
        /\ record.exp \in ExperimentStates /\ record.branches[c].state \in BranchStates
    BY ZenonT(60), <1>2, DefinitionFields
  <2>3. base = NoId => \A rule \in Range(d.rules) : ~reference[rule.metric].present
    <3>1. \A rule \in Range(d.rules) : rule.metric \in DOMAIN d.metrics
      BY ZenonT(60), DefinitionFields
    <3>2. \A m \in DOMAIN d.metrics : ~NoEvidence(d)[m].present
      BY ZenonT(60) DEF NoEvidence
    <3> QED BY ZenonT(60), <3>1, <3>2
  <2> HIDE DEF candidate, baseline, reference
  <2>4. /\ 1 \in DOMAIN compared /\ compared[1] = candidate
        /\ base # NoId => 2 \in DOMAIN compared /\ compared[2] = baseline
        /\ \E k \in Nat : DOMAIN compared = 1 .. k
    <3>1. CASE base = NoId
      <4>1. /\ 1 \in DOMAIN <<candidate>> /\ <<candidate>>[1] = candidate
            /\ DOMAIN <<candidate>> = 1 .. 1 /\ 1 \in Nat
        OBVIOUS
      <4> QED BY ZenonT(60), <3>1, <4>1
    <3>2. CASE base # NoId
      <4> DEFINE both == <<candidate, baseline>>
      <4>1. /\ 1 \in DOMAIN both /\ both[1] = candidate /\ 2 \in DOMAIN both /\ both[2] = baseline
            /\ DOMAIN both = 1 .. 2 /\ 2 \in Nat
        OBVIOUS
      <4>2. compared = both
        BY ZenonT(60), <3>2
      <4> HIDE DEF both, compared
      <4> QED BY ZenonT(60), <4>1, <4>2
    <3> QED BY ZenonT(60), <3>1, <3>2
  <2>5. PICK k \in Nat : DOMAIN compared = 1 .. k
    BY ZenonT(60), <2>4
  <2> HIDE DEF compared
  <2>6. /\ constrained \in DecisionOutcomes
        /\ record.exp # "OPEN" => constrained = ClosedOutcome(record.exp)
        /\ constrained = "ACCEPT" =>
              /\ record.exp = "OPEN" /\ record.branches[c].state = "ACTIVE"
              /\ base # NoId => record.branches[base].state = "ACTIVE"
              /\ \A i \in DOMAIN compared, m \in DOMAIN d.metrics :
                   d.metrics[m].required => Enough(d, compared[i], m)
    BY ZenonT(60), <2>2, <2>5, ConstraintsMet
  <2> HIDE DEF constrained
  <2>7. /\ Compare(d, reference, candidate.aggregates) \in DecisionOutcomes
        /\ Compare(d, reference, candidate.aggregates) = "ACCEPT" => base # NoId
    BY ZenonT(60), <2>3, CompareIs
  <2>8. o \in DecisionOutcomes
    BY ZenonT(60), <2>1, <2>6, <2>7
  <2>9. record.exp # "OPEN" => o = ClosedOutcome(record.exp)
    BY ZenonT(60), <2>1, <2>6
  <2>10. ASSUME o = "ACCEPT"
         PROVE  /\ base \in DOMAIN record.branches /\ record.exp = "OPEN"
                /\ \A b \in {c, base} :
                     /\ record.branches[b].state = "ACTIVE"
                     /\ \A m \in DOMAIN d.metrics : d.metrics[m].required =>
                          Enough(d, compute_evidence(d, record, b), m)
    <3>1. constrained = "ACCEPT" /\ base # NoId
      BY ZenonT(60), <2>1, <2>7, <2>10
    <3>2. base \in DOMAIN record.branches
      BY ZenonT(60), <3>1, DefinitionFields
    <3>3. \A m \in DOMAIN d.metrics : d.metrics[m].required => Enough(d, candidate, m) /\ Enough(d, baseline, m)
      BY ZenonT(60), <2>4, <2>6, <3>1
    <3> QED BY ZenonT(60), <2>6, <3>1, <3>2, <3>3 DEF candidate, baseline
  <2> QED BY ZenonT(60), <1>2, <2>8, <2>9, <2>10
<1> QED BY ZenonT(60), <1>1, <1>2

\* finalize_experiment.
LEMMA FinalizeEvidence ==
  ASSUME EvidenceInvariant, NEW c, c \in {NoId, definition.candidate}, FinalizeExperiment(c)
  PROVE  EvidenceInvariant'
<1>t. RecordType
  BY ZenonT(60) DEF EvidenceInvariant
<1> DEFINE outcome == build_decision(definition, record, c)
           entry == [candidate |-> c, outcome |-> outcome]
           exp == CASE outcome \in {"ACCEPT", "REJECT", "INVALID"} -> "FINALIZED"
                    [] outcome \in {"CANCELLED", "SUPERSEDED"} -> outcome
                    [] OTHER -> record.exp
<1>1. /\ decisions' = Append(decisions, entry) /\ record' = [record EXCEPT !.exp = exp]
      /\ definition' = definition
  BY ZenonT(60) DEF FinalizeExperiment
<1>2. outcome \in DecisionOutcomes
  BY ZenonT(60), <1>t, DecisionIs DEF DecidedFor
<1>3. entry \in Decisions
  <2> HIDE DEF outcome
  <2> QED BY ZenonT(60), <1>2 DEF Decisions
<1>4. record.exp \in ExperimentStates /\ record \in Records /\ decisions \in Seq(Decisions)
  BY ZenonT(60), <1>t, RecordFields DEF RecordType
<1>5. exp \in ExperimentStates
  <2> HIDE DEF outcome
  <2> QED BY ZenonT(60), <1>4 DEF ExperimentStates
<1> HIDE DEF exp, entry, outcome
<1>6. decisions' \in Seq(Decisions)
  BY <1>1, <1>3, <1>4
<1>7. /\ record' \in Records /\ record'.trials = record.trials /\ record'.attempts = record.attempts
      /\ record'.observations = record.observations
  BY ZenonT(60), <1>1, <1>4, <1>5 DEF Records
<1>8. RecordType'
  BY ZenonT(60), <1>t, <1>1, <1>6, <1>7, RecordTyped
<1> QED BY ZenonT(60), <1>7, <1>8 DEF EvidenceInvariant, AttemptsBelong, CompletedByItsAttempt,
                       ObservationsBelong, OneValidObservation

\* Every step keeps the evidence in order.
LEMMA NextEvidence == EvidenceInvariant /\ [Next]_vars => EvidenceInvariant'
<1> SUFFICES ASSUME EvidenceInvariant, [Next]_vars PROVE EvidenceInvariant'
  OBVIOUS
<1>1. ASSUME NEW b \in DOMAIN record.branches, CreateTrial(b) PROVE EvidenceInvariant'
  BY ZenonT(60), <1>1, CreateTrialEvidence
<1>2. ASSUME NEW t \in DOMAIN record.trials, ClaimTrial(t) PROVE EvidenceInvariant'
  BY ZenonT(60), <1>2, ClaimTrialEvidence
<1>3. ASSUME NEW a \in DOMAIN record.attempts, NEW m \in DOMAIN definition.metrics,
             NEW value \in Values, PublishObservation(a, m, "VALID", value)
      PROVE  EvidenceInvariant'
  BY ZenonT(60), <1>3, PublishEvidence
<1>4. ASSUME NEW a \in DOMAIN record.attempts, NEW m \in DOMAIN definition.metrics,
             NEW validity \in definition.validities, PublishObservation(a, m, validity, NoId)
      PROVE  EvidenceInvariant'
  BY ZenonT(60), <1>4, PublishEvidence
<1>5. ASSUME NEW a \in DOMAIN record.attempts, NEW m \in DOMAIN definition.metrics,
             RejectObservation(a, m)
      PROVE  EvidenceInvariant'
  BY ZenonT(60), <1>5, RejectEvidence
<1>6. ASSUME NEW a \in DOMAIN record.attempts, CommitTrial(a) PROVE EvidenceInvariant'
  BY ZenonT(60), <1>6, CommitEvidence
<1>7. ASSUME NEW a \in DOMAIN record.attempts, NEW retryable \in BOOLEAN, FailTrial(a, retryable)
      PROVE  EvidenceInvariant'
  BY ZenonT(60), <1>7, FailEvidence
<1>8. ASSUME NEW b \in DOMAIN record.branches, RetireBranch(b) PROVE EvidenceInvariant'
  BY ZenonT(60), <1>8, InterventionEvidence
<1>9. CASE ReviseHypothesis \/ CancelExperiment
  BY ZenonT(60), <1>9, InterventionEvidence
<1>10. ASSUME NEW c \in {NoId, definition.candidate}, FinalizeExperiment(c) PROVE EvidenceInvariant'
  BY ZenonT(60), <1>10, FinalizeEvidence
<1>11. CASE UNCHANGED vars
  <2>1. definition' = definition /\ record' = record /\ decisions' = decisions
    BY ZenonT(60), <1>11 DEF vars
  <2>2. RecordType'
    BY ZenonT(60), <2>1, RecordTyped DEF EvidenceInvariant, RecordType
  <2> QED BY ZenonT(60), <2>1, <2>2 DEF EvidenceInvariant, AttemptsBelong, CompletedByItsAttempt,
                          ObservationsBelong, OneValidObservation
<1> QED BY ZenonT(60), <1>1, <1>2, <1>3, <1>4, <1>5, <1>6, <1>7, <1>8, <1>9, <1>10, <1>11 DEF Next

\* The evidence of an experiment is in order in every state: an attempt is of the branch of
\* its trial, a completed trial names the completed attempt that made it so, an
\* observation is filed under the attempt that made it, and no attempt has two valid
\* observations of one metric (publish_observation, commit_trial, fail_trial).
THEOREM EvidenceInOrder == Spec => []EvidenceInvariant
BY InitEvidence, NextEvidence, PTL DEF Spec

-----------------------------------------------------------------------------
(***************************************************************************)
(* What an acceptance rests on.                                            *)
(***************************************************************************)

\* A set that has an injection into a finite set is not larger.
LEMMA Injected ==
  ASSUME NEW S, NEW T, IsFiniteSet(T), NEW f, f \in [S -> T],
         \A x, y \in S : f[x] = f[y] => x = y
  PROVE  IsFiniteSet(S) /\ Cardinality(S) <= Cardinality(T)
<1>1. DOMAIN f = S
  BY ZenonT(60)
<1>2. f \in Injection(S, T)
  BY ZenonT(60), <1>1 DEF Injection, IsInjective
<1> QED BY ZenonT(60), <1>2, FS_Injection

\* There are finitely many observations.
LEMMA MeasuredFinite ==
  ASSUME RecordType, NEW b, NEW m
  PROVE  IsFiniteSet(Measured(b, m))
<1> DEFINE O == Range(record.observations)
<1>1. record.observations \in Seq(Observations)
  BY ZenonT(60), RecordFields
<1>2. Len(record.observations) \in Nat /\ DOMAIN record.observations = 1 .. Len(record.observations)
      /\ record.observations = [n \in DOMAIN record.observations |-> record.observations[n]]
  BY <1>1
<1>3. record.observations \in Surjection(1 .. Len(record.observations), O)
  BY ZenonT(60), <1>2 DEF Surjection, Range
<1>4. IsFiniteSet(1 .. Len(record.observations))
  <2>1. 1 \in Int /\ Len(record.observations) \in Int
    BY <1>2
  <2> QED BY ZenonT(60), <2>1, FS_Interval
<1> HIDE DEF O
<1>5. IsFiniteSet(O)
  BY ZenonT(60), <1>3, <1>4, FS_Surjection
<1>6. Measured(b, m) \in SUBSET O
  BY ZenonT(60) DEF Measured, O
<1> QED BY ZenonT(60), <1>5, <1>6, FS_Subset

\* The value of a trial that counts was measured: it is that of an observation made by the
\* attempt that completed the trial.
LEMMA ValueMeasured ==
  ASSUME EvidenceInvariant, NEW b, NEW m, NEW t, t \in DOMAIN ValidValues(record, b, m),
         NEW n, n = First(Observed(record, t, m, "VALID"))
  PROVE  /\ n \in DOMAIN record.observations /\ record.observations[n].trial = t
         /\ record.observations[n] \in Measured(b, m)
<1> DEFINE N == Observed(record, t, m, "VALID")
<1>1. t \in authoritative_trials(record, b) /\ N # {}
  BY ZenonT(60) DEF ValidValues
<1>2. /\ t \in DOMAIN record.trials /\ record.trials[t].branch = b
      /\ record.trials[t].state = "COMPLETED" /\ record.trials[t].generation = record.generation
  BY ZenonT(60), <1>1 DEF authoritative_trials
<1>3. /\ Len(record.observations) \in Nat
      /\ DOMAIN record.observations = 1 .. Len(record.observations)
  <2>1. record.observations \in Seq(Observations)
    BY ZenonT(60), RecordFields DEF EvidenceInvariant
  <2> QED BY <2>1
<1>4. N \subseteq 1 .. Len(record.observations)
  BY ZenonT(60), <1>3 DEF Observed
<1>5. n \in N
  <2> HIDE DEF N
  <2>1. n = First(N)
    BY ZenonT(60) DEF N
  <2> QED BY ZenonT(60), <1>1, <1>3, <1>4, <2>1, LeastExists
<1>6. /\ n \in DOMAIN record.observations /\ record.observations[n].trial = t
      /\ record.observations[n].attempt = record.trials[t].authoritative_attempt
      /\ record.observations[n].metric = m /\ record.observations[n].validity = "VALID"
  BY ZenonT(60), <1>5 DEF Observed
<1> HIDE DEF N
<1>7. PICK a : a = record.trials[t].authoritative_attempt
  BY ZenonT(60)
<1>8. a \in DOMAIN record.attempts /\ record.attempts[a].trial = t /\ record.attempts[a].state = "COMPLETED"
  BY ZenonT(60), <1>2, <1>7 DEF EvidenceInvariant, CompletedByItsAttempt
<1>9. record.attempts[a].branch = b
  BY ZenonT(60), <1>2, <1>8 DEF EvidenceInvariant, AttemptsBelong
<1> QED BY ZenonT(60), <1>2, <1>6, <1>7, <1>8, <1>9 DEF Measured, Range

\* What an aggregate counts has been measured.
LEMMA EnoughMeasured ==
  ASSUME EvidenceInvariant, NEW b, NEW m \in DOMAIN definition.metrics,
         Enough(definition, compute_evidence(definition, record, b), m)
  PROVE  /\ Measured(b, m) # {}
         /\ Cardinality(Measured(b, m)) >= definition.min_valid_observations
<1> DEFINE V == DOMAIN ValidValues(record, b, m)
           f == [t \in V |-> record.observations[First(Observed(record, t, m, "VALID"))]]
<1>t. RecordType
  BY ZenonT(60) DEF EvidenceInvariant
<1>1. /\ compute_evidence(definition, record, b).aggregates[m].present => V # {}
      /\ compute_evidence(definition, record, b).aggregates[m].valid_count = Cardinality(V)
  <2>1. compute_evidence(definition, record, b).aggregates[m] =
          Aggregate(definition.metrics[m], ValidValues(record, b, m))
    BY ZenonT(60) DEF compute_evidence
  <2>2. ASSUME NEW metric, NEW values
        PROVE  /\ Aggregate(metric, values).present => DOMAIN values # {}
               /\ Aggregate(metric, values).valid_count = Cardinality(DOMAIN values)
    BY ZenonT(60) DEF Aggregate
  <2> QED BY ZenonT(60), <2>1, <2>2
<1>2. V # {} /\ Cardinality(V) >= definition.min_valid_observations
  BY ZenonT(60), <1>1 DEF Enough
<1>3. \A t \in V : f[t] \in Measured(b, m) /\ f[t].trial = t
  <2> TAKE t \in V
  <2>1. PICK n : n = First(Observed(record, t, m, "VALID"))
    BY ZenonT(60)
  <2>2. f[t] = record.observations[n]
    BY ZenonT(60), <2>1
  <2>3. t \in DOMAIN ValidValues(record, b, m)
    BY ZenonT(60)
  <2> HIDE DEF f, V
  <2>4. record.observations[n].trial = t /\ record.observations[n] \in Measured(b, m)
    BY <2>1, <2>3, ValueMeasured
  <2> QED BY ZenonT(60), <2>2, <2>4
<1>4. f \in [V -> Measured(b, m)] /\ \A x, y \in V : f[x] = f[y] => x = y
  <2>1. f = [t \in V |-> f[t]]
    BY ZenonT(60)
  <2> HIDE DEF f
  <2> QED BY ZenonT(60), <1>3, <2>1
<1>5. IsFiniteSet(Measured(b, m))
  BY ZenonT(60), <1>t, MeasuredFinite
<1> HIDE DEF V, f
<1>6. IsFiniteSet(V) /\ Cardinality(V) <= Cardinality(Measured(b, m))
  BY ZenonT(60), <1>4, <1>5, Injected
<1>7. Cardinality(V) \in Nat /\ Cardinality(Measured(b, m)) \in Nat
  BY ZenonT(60), <1>5, <1>6, FS_CardinalityType
<1>8. definition.min_valid_observations \in Nat
  BY ZenonT(60), <1>t, DefinitionFields
<1>9. Cardinality(Measured(b, m)) >= definition.min_valid_observations
  BY <1>2, <1>6, <1>7, <1>8
<1> QED BY ZenonT(60), <1>2, <1>3, <1>9

\* A candidate is accepted in an open experiment only, against a baseline, with both branches
\* active, and on as many measurements of every required metric as the policy asks for, for
\* every definition and every history (apply_constraints, compute_evidence).
THEOREM AcceptancesAreEarned == Spec => []AcceptIsEarned
<1>1. EvidenceInvariant => AcceptIsEarned
  <2> SUFFICES ASSUME EvidenceInvariant, Outcome = "ACCEPT"
               PROVE  /\ record.exp = "OPEN" /\ Cardinality(ComparedBranches) = 2
                      /\ \A b \in ComparedBranches :
                           /\ record.branches[b].state = "ACTIVE"
                           /\ \A m \in DOMAIN definition.metrics : definition.metrics[m].required =>
                                /\ Measured(b, m) # {}
                                /\ Cardinality(Measured(b, m)) >= definition.min_valid_observations
    BY ZenonT(60) DEF AcceptIsEarned
  <2> DEFINE c == definition.candidate
             base == definition.baseline
  <2>t. RecordType
    BY ZenonT(60) DEF EvidenceInvariant
  <2>1. build_decision(definition, record, c) = "ACCEPT"
    BY ZenonT(60) DEF Outcome, evaluate
  <2>2. /\ c \in DOMAIN record.branches /\ c # base /\ base \in DOMAIN record.branches
        /\ record.exp = "OPEN"
        /\ \A b \in {c, base} :
             /\ record.branches[b].state = "ACTIVE"
             /\ \A m \in DOMAIN definition.metrics : definition.metrics[m].required =>
                  Enough(definition, compute_evidence(definition, record, b), m)
    BY ZenonT(60), <2>t, <2>1, DecisionIs DEF DecidedFor
  <2>3. NoId \notin DOMAIN record.branches
    BY ZenonT(60), <2>t, DefinitionFields
  <2>4. ComparedBranches = {c, base}
    BY ZenonT(60), <2>2, <2>3 DEF ComparedBranches
  <2>5. Cardinality({c, base}) = 2
    <3> HIDE DEF c, base
    <3>1. IsFiniteSet({base}) /\ Cardinality({base}) = 1
      BY ZenonT(60), FS_Singleton
    <3>2. Cardinality({base} \cup {c}) = Cardinality({base}) + 1
      BY ZenonT(60), <2>2, <3>1, FS_AddElement
    <3>3. {c, base} = {base} \cup {c}
      BY ZenonT(60)
    <3> QED BY <3>1, <3>2, <3>3
  <2> QED BY ZenonT(60), <2>2, <2>4, <2>5, EnoughMeasured
<1> QED BY <1>1, EvidenceInOrder, PTL

-----------------------------------------------------------------------------
(***************************************************************************)
(* What a decision depends on.                                             *)
(***************************************************************************)

\* For the definition d the records r and q have the same evidence: the same trials count,
\* with the same values; invalid observations matter if the policy says so.
SameEvidence(d, r, q) ==
  /\ q.branches = r.branches
  /\ \A b : authoritative_trials(q, b) = authoritative_trials(r, b)
  /\ \A b, m : ValidValues(q, b, m) = ValidValues(r, b, m)
  /\ \A B : Fingerprints(d, q, B) = Fingerprints(d, r, B)
  /\ d.reject_on_any_invalid => \A b, m : InvalidCount(q, b, m) = InvalidCount(r, b, m)

\* Two pieces of evidence the constraints and the comparison cannot tell apart.
SameCounts(d, e, f) ==
  /\ f.completed_trials = e.completed_trials /\ f.aggregates = e.aggregates
  /\ d.reject_on_any_invalid => f.invalid_counts = e.invalid_counts

SameCompared(d, s, u) == DOMAIN u = DOMAIN s /\ \A i \in DOMAIN s : SameCounts(d, s[i], u[i])

\* The same evidence has the same counts.
LEMMA EvidenceCounts ==
  ASSUME NEW d, NEW r, NEW q, SameEvidence(d, r, q), NEW b
  PROVE  SameCounts(d, compute_evidence(d, r, b), compute_evidence(d, q, b))
<1>1. /\ authoritative_trials(q, b) = authoritative_trials(r, b)
      /\ \A m : ValidValues(q, b, m) = ValidValues(r, b, m)
      /\ d.reject_on_any_invalid => \A m : InvalidCount(q, b, m) = InvalidCount(r, b, m)
  BY ZenonT(60) DEF SameEvidence
<1> DEFINE A(r1) == [m \in DOMAIN d.metrics |-> Aggregate(d.metrics[m], ValidValues(r1, b, m))]
           I(r1) == [m \in DOMAIN d.metrics |-> InvalidCount(r1, b, m)]
<1>2. A(q) = A(r)
  BY ZenonT(60), <1>1
<1>3. d.reject_on_any_invalid => I(q) = I(r)
  BY ZenonT(60), <1>1
<1> HIDE DEF A, I
<1>4. ASSUME NEW r1
      PROVE  /\ compute_evidence(d, r1, b).completed_trials = Cardinality(authoritative_trials(r1, b))
             /\ compute_evidence(d, r1, b).aggregates = A(r1)
             /\ compute_evidence(d, r1, b).invalid_counts = I(r1)
  BY ZenonT(60) DEF compute_evidence, A, I
<1> QED BY ZenonT(60), <1>1, <1>2, <1>3, <1>4 DEF SameCounts

\* The constraints depend on nothing else.
LEMMA SameConstraints ==
  ASSUME NEW d, NEW r, NEW q, SameEvidence(d, r, q), q.exp = r.exp, NEW c, NEW base,
         NEW s, NEW u, SameCompared(d, s, u)
  PROVE  apply_constraints(d, q, c, base, u) = apply_constraints(d, r, c, base, s)
<1>0. DOMAIN u = DOMAIN s /\ \A i \in DOMAIN s : SameCounts(d, s[i], u[i])
  BY ZenonT(60) DEF SameCompared
<1>1. ASSUME NEW m PROVE MetricConstraints(d, u, m) = MetricConstraints(d, s, m)
  <2> DEFINE enough(w, i) == /\ w[i].aggregates[m].present
                             /\ w[i].aggregates[m].valid_count >= d.min_valid_observations
             each(w) == [i \in DOMAIN w |-> Requires(enough(w, i), "INSUFFICIENT_EVIDENCE")]
             invalid(w) == d.reject_on_any_invalid /\ \E i \in DOMAIN w : w[i].invalid_counts[m] > 0
  <2>1. \A i \in DOMAIN s : enough(u, i) <=> enough(s, i)
    BY ZenonT(60), <1>0 DEF SameCounts
  <2>2. each(u) = each(s)
    <3> HIDE DEF enough
    <3>1. \A i \in DOMAIN s : Requires(enough(u, i), "INSUFFICIENT_EVIDENCE") =
                              Requires(enough(s, i), "INSUFFICIENT_EVIDENCE")
      BY ZenonT(60), <2>1 DEF Requires
    <3> QED BY ZenonT(60), <1>0, <3>1
  <2>3. invalid(u) <=> invalid(s)
    BY ZenonT(60), <1>0 DEF SameCounts
  <2>4. Requires(~invalid(u), "INVALID") = Requires(~invalid(s), "INVALID")
    <3> HIDE DEF invalid
    <3> QED BY ZenonT(60), <2>3 DEF Requires
  <2>5. ASSUME NEW w
        PROVE  MetricConstraints(d, w, m) = FirstFailed(each(w) \o << Requires(~invalid(w), "INVALID") >>)
    BY ZenonT(60) DEF MetricConstraints
  <2> HIDE DEF each, invalid
  <2> QED BY ZenonT(60), <2>2, <2>4, <2>5
<1> DEFINE completed(w) == [i \in DOMAIN w |-> Requires(w[i].completed_trials >= d.min_completed_trials,
                                                      "INSUFFICIENT_EVIDENCE")]
           measured(w) == [m \in DOMAIN d.metrics |->
                             IF d.metrics[m].required THEN MetricConstraints(d, w, m) ELSE "ACCEPT"]
           list(r1, w) == << ClosedOutcome(r1.exp), CandidateOutcome(r1.branches[c].state) >>
                          \o << Requires(~(d.require_baseline /\ base = NoId), "INSUFFICIENT_EVIDENCE"),
                                Requires(base # NoId => is_branch_eligible(r1.branches[base].state),
                                         "INSUFFICIENT_EVIDENCE") >>
                          \o completed(w) \o measured(w)
                          \o << Requires(d.require_environment_match =>
                                           Cardinality(Fingerprints(d, r1, {c, base})) <= 1, "INVALID") >>
<1>2. completed(u) = completed(s)
  BY ZenonT(60), <1>0 DEF SameCounts
<1>3. measured(u) = measured(s)
  BY ZenonT(60), <1>1
<1>4. q.branches = r.branches /\ Fingerprints(d, q, {c, base}) = Fingerprints(d, r, {c, base})
  BY ZenonT(60) DEF SameEvidence
<1>5. ASSUME NEW r1, NEW w PROVE apply_constraints(d, r1, c, base, w) = FirstFailed(list(r1, w))
  BY ZenonT(60) DEF apply_constraints
<1> HIDE DEF completed, measured
<1>6. list(q, u) = list(r, s)
  BY ZenonT(60), <1>2, <1>3, <1>4
<1> HIDE DEF list
<1> QED BY ZenonT(60), <1>5, <1>6

\* Records of experiments in the same state with the same evidence have the same decision.
LEMMA SameVerdict ==
  ASSUME NEW d, NEW r, NEW q, SameEvidence(d, r, q), q.exp = r.exp, NEW c
  PROVE  build_decision(d, q, c) = build_decision(d, r, c)
<1> DEFINE base == d.baseline
           E(r1, b) == compute_evidence(d, r1, b)
           compared(r1) == IF base = NoId THEN << E(r1, c) >> ELSE << E(r1, c), E(r1, base) >>
           constrained(r1) == apply_constraints(d, r1, c, base, compared(r1))
           reference(r1) == IF base = NoId THEN NoEvidence(d) ELSE E(r1, base).aggregates
<1>1. \A b : SameCounts(d, E(r, b), E(q, b))
  BY ZenonT(60), EvidenceCounts
<1>2. ASSUME NEW r1
      PROVE  Against(d, r1, c, base) =
               IF constrained(r1) # "ACCEPT" THEN constrained(r1)
               ELSE Compare(d, reference(r1), E(r1, c).aggregates)
  BY ZenonT(60) DEF Against
<1> HIDE DEF E
<1>3. reference(q) = reference(r) /\ E(q, c).aggregates = E(r, c).aggregates
  BY ZenonT(60), <1>1 DEF SameCounts
<1>4. /\ DOMAIN compared(q) = DOMAIN compared(r)
      /\ \A i \in DOMAIN compared(r) : SameCounts(d, compared(r)[i], compared(q)[i])
  <2>1. CASE base = NoId
    <3>1. DOMAIN << E(q, c) >> = {1} /\ DOMAIN << E(r, c) >> = {1} /\ << E(q, c) >>[1] = E(q, c)
          /\ << E(r, c) >>[1] = E(r, c)
      OBVIOUS
    <3> QED BY ZenonT(60), <1>1, <2>1, <3>1
  <2>2. CASE base # NoId
    <3> DEFINE x == << E(q, c), E(q, base) >>
               y == << E(r, c), E(r, base) >>
    <3>1. /\ DOMAIN x = {1, 2} /\ x[1] = E(q, c) /\ x[2] = E(q, base)
          /\ DOMAIN y = {1, 2} /\ y[1] = E(r, c) /\ y[2] = E(r, base)
      OBVIOUS
    <3>2. compared(q) = x /\ compared(r) = y
      BY ZenonT(60), <2>2
    <3> HIDE DEF x, y, compared
    <3> QED BY ZenonT(60), <1>1, <3>1, <3>2
  <2> QED BY ZenonT(60), <2>1, <2>2
<1> HIDE DEF compared, reference
<1>5. constrained(q) = constrained(r)
  <2>1. PICK s, u : s = compared(r) /\ u = compared(q)
    BY ZenonT(60)
  <2>2. SameCompared(d, s, u)
    BY ZenonT(60), <1>4, <2>1 DEF SameCompared
  <2>3. apply_constraints(d, q, c, base, u) = apply_constraints(d, r, c, base, s)
    BY <2>2, SameConstraints
  <2> QED BY ZenonT(60), <2>1, <2>3
<1> HIDE DEF constrained
<1>6. Against(d, q, c, base) = Against(d, r, c, base)
  BY ZenonT(60), <1>2, <1>3, <1>5
<1>7. q.branches = r.branches
  BY ZenonT(60) DEF SameEvidence
<1> QED BY ZenonT(60), <1>6, <1>7 DEF build_decision

-----------------------------------------------------------------------------
(***************************************************************************)
(* The order of arrival.                                                   *)
(***************************************************************************)

\* Sets of positions that are each other's mirror image are equally large.
LEMMA MirrorCardinality ==
  ASSUME NEW n, n \in Nat, NEW S, S \subseteq 1 .. n, NEW T, T \subseteq 1 .. n,
         \A i \in 1 .. n : i \in T <=> (n - i) + 1 \in S
  PROVE  Cardinality(T) = Cardinality(S)
<1> DEFINE f == [i \in S |-> (n - i) + 1]
<1>1. \A i \in 1 .. n : (n - i) + 1 \in 1 .. n /\ (n - ((n - i) + 1)) + 1 = i
  OBVIOUS
<1>2. \A i \in S : f[i] \in T
  BY ZenonT(60), <1>1
<1>3. \A i, j \in S : f[i] = f[j] => i = j
  BY ZenonT(60), <1>1
<1>4. \A i \in T : \E j \in S : f[j] = i
  <2> TAKE i \in T
  <2>1. (n - i) + 1 \in S /\ f[(n - i) + 1] = i
    BY ZenonT(60), <1>1
  <2> QED BY ZenonT(60), <2>1
<1>5. f = [i \in S |-> f[i]] /\ DOMAIN f = S
  BY ZenonT(60)
<1> HIDE DEF f
<1>6. f \in [S -> T]
  BY ZenonT(60), <1>2, <1>5
<1>7. f \in Bijection(S, T)
  BY ZenonT(60), <1>3, <1>4, <1>5, <1>6 DEF Bijection, Injection, IsInjective, Surjection
<1>8. IsFiniteSet(S)
  <2>1. 1 \in Int /\ n \in Int
    OBVIOUS
  <2>2. IsFiniteSet(1 .. n)
    BY ZenonT(60), <2>1, FS_Interval
  <2> QED BY ZenonT(60), <2>2, FS_Subset
<1> QED BY ZenonT(60), <1>7, <1>8, FS_Bijection DEF ExistsBijection

\* The first valid observation of a metric by the attempt of a completed trial is the only one.
LEMMA ValidIsUnique ==
  ASSUME EvidenceInvariant, NEW t, NEW m, NEW n, n \in Observed(record, t, m, "VALID")
  PROVE  First(Observed(record, t, m, "VALID")) = n
<1> DEFINE N == Observed(record, t, m, "VALID")
<1>1. /\ Len(record.observations) \in Nat
      /\ DOMAIN record.observations = 1 .. Len(record.observations)
  <2>1. record.observations \in Seq(Observations)
    BY ZenonT(60), RecordFields DEF EvidenceInvariant
  <2> QED BY <2>1
<1>2. N \subseteq 1 .. Len(record.observations) /\ N # {}
  BY ZenonT(60), <1>1 DEF Observed
<1>3. \A k \in N : k = n
  BY ZenonT(60) DEF Observed, EvidenceInvariant, OneValidObservation
<1> HIDE DEF N
<1>4. First(N) \in N
  BY ZenonT(60), <1>1, <1>2, LeastExists
<1> QED BY ZenonT(60), <1>3, <1>4 DEF N

\* The record with its observations reversed has the same evidence.
LEMMA ReversedEvidence ==
  ASSUME EvidenceInvariant, NEW q, q = [record EXCEPT !.observations = Reversed(@)]
  PROVE  SameEvidence(definition, record, q) /\ q.exp = record.exp
<1> DEFINE L == Len(record.observations)
           O(r, t, m, v) == Observed(r, t, m, v)
<1>1. /\ q.exp = record.exp /\ q.generation = record.generation /\ q.branches = record.branches
      /\ q.trials = record.trials /\ q.observations = Reversed(record.observations)
  BY ZenonT(60) DEF EvidenceInvariant, RecordType, Records
<1>2. L \in Nat /\ DOMAIN record.observations = 1 .. L
  <2>1. record.observations \in Seq(Observations)
    BY ZenonT(60), RecordFields DEF EvidenceInvariant
  <2> QED BY <2>1
<1>3. /\ DOMAIN q.observations = 1 .. L
      /\ \A n \in 1 .. L : q.observations[n] = record.observations[(L - n) + 1]
  BY ZenonT(60), <1>1 DEF Reversed
<1> HIDE DEF L
<1>4. \A n \in 1 .. L : (L - n) + 1 \in 1 .. L /\ (L - ((L - n) + 1)) + 1 = n
  BY <1>2
<1>5. \A b : authoritative_trials(q, b) = authoritative_trials(record, b)
  BY ZenonT(60), <1>1 DEF authoritative_trials
<1>6. \A B : Fingerprints(definition, q, B) = Fingerprints(definition, record, B)
  BY ZenonT(60), <1>1 DEF Fingerprints
<1>7. ASSUME NEW t, NEW m, NEW v, NEW n \in 1 .. L
      PROVE  n \in O(q, t, m, v) <=> (L - n) + 1 \in O(record, t, m, v)
  BY ZenonT(60), <1>1, <1>2, <1>3, <1>4 DEF Observed
<1>8. \A t, m, v : O(q, t, m, v) \subseteq 1 .. L /\ O(record, t, m, v) \subseteq 1 .. L
  BY ZenonT(60), <1>2, <1>3 DEF Observed
<1> HIDE DEF O
<1>9. \A t, m, v : O(q, t, m, v) # {} <=> O(record, t, m, v) # {}
  BY ZenonT(60), <1>4, <1>7, <1>8
<1>10. ASSUME NEW t, NEW m, O(record, t, m, "VALID") # {}
       PROVE  q.observations[First(O(q, t, m, "VALID"))].value =
              record.observations[First(O(record, t, m, "VALID"))].value
  <2>1. PICK n : n = First(O(q, t, m, "VALID"))
    BY ZenonT(60)
  <2>2. O(q, t, m, "VALID") # {} /\ O(q, t, m, "VALID") \subseteq 1 .. L
    BY ZenonT(60), <1>8, <1>9, <1>10
  <2>3. n \in O(q, t, m, "VALID")
    BY ZenonT(60), <1>2, <2>1, <2>2, LeastExists
  <2>4. n \in 1 .. L /\ (L - n) + 1 \in O(record, t, m, "VALID")
    BY ZenonT(60), <1>7, <2>2, <2>3
  <2>5. First(O(record, t, m, "VALID")) = (L - n) + 1
    BY ZenonT(60), <2>4, ValidIsUnique DEF O
  <2> QED BY ZenonT(60), <1>3, <2>1, <2>4, <2>5
<1>11. \A b, m : ValidValues(q, b, m) = ValidValues(record, b, m)
  <2> TAKE b, m
  <2> DEFINE V == {t \in authoritative_trials(record, b) : O(record, t, m, "VALID") # {}}
  <2>1. /\ ValidValues(record, b, m) =
             [t \in V |-> record.observations[First(O(record, t, m, "VALID"))].value]
        /\ ValidValues(q, b, m) =
             [t \in {t \in authoritative_trials(q, b) : O(q, t, m, "VALID") # {}} |->
                q.observations[First(O(q, t, m, "VALID"))].value]
    BY ZenonT(60) DEF ValidValues, O
  <2>2. {t \in authoritative_trials(q, b) : O(q, t, m, "VALID") # {}} = V
    BY ZenonT(60), <1>5, <1>9
  <2>3. \A t \in V : q.observations[First(O(q, t, m, "VALID"))].value =
                     record.observations[First(O(record, t, m, "VALID"))].value
    BY ZenonT(60), <1>10
  <2> HIDE DEF V
  <2>4. ValidValues(q, b, m) = [t \in V |-> q.observations[First(O(q, t, m, "VALID"))].value]
    BY ZenonT(60), <2>1, <2>2
  <2> QED BY ZenonT(60), <2>1, <2>3, <2>4
<1>12. \A b, m : InvalidCount(q, b, m) = InvalidCount(record, b, m)
  <2> TAKE b, m
  <2> DEFINE U(r) == UNION {O(r, t, m, "INVALID") : t \in authoritative_trials(r, b)}
  <2>1. \A n : n \in U(q) <=> \E t \in authoritative_trials(record, b) : n \in O(q, t, m, "INVALID")
    BY ZenonT(60), <1>5
  <2>2. \A n : n \in U(record) <=> \E t \in authoritative_trials(record, b) : n \in O(record, t, m, "INVALID")
    BY ZenonT(60)
  <2>3. InvalidCount(q, b, m) = Cardinality(U(q)) /\ InvalidCount(record, b, m) = Cardinality(U(record))
    BY ZenonT(60) DEF InvalidCount, O
  <2> HIDE DEF U
  <2>4. /\ U(q) \subseteq 1 .. L /\ U(record) \subseteq 1 .. L
        /\ \A n \in 1 .. L : n \in U(q) <=> (L - n) + 1 \in U(record)
    <3>1. ASSUME NEW n \in U(q) PROVE n \in 1 .. L
      BY ZenonT(60), <1>8, <2>1
    <3>2. ASSUME NEW n \in U(record) PROVE n \in 1 .. L
      BY ZenonT(60), <1>8, <2>2
    <3>3. ASSUME NEW n \in 1 .. L PROVE n \in U(q) <=> (L - n) + 1 \in U(record)
      <4>1. \A t : n \in O(q, t, m, "INVALID") <=> (L - n) + 1 \in O(record, t, m, "INVALID")
        BY ZenonT(60), <1>7
      <4>2. PICK k : k = (L - n) + 1
        BY ZenonT(60)
      <4>3. n \in U(q) <=> \E t \in authoritative_trials(record, b) : n \in O(q, t, m, "INVALID")
        BY ZenonT(60), <2>1
      <4>4. k \in U(record) <=> \E t \in authoritative_trials(record, b) : k \in O(record, t, m, "INVALID")
        BY ZenonT(60), <2>2
      <4>5. \A t : n \in O(q, t, m, "INVALID") <=> k \in O(record, t, m, "INVALID")
        BY ZenonT(60), <4>1, <4>2
      <4>6. n \in U(q) <=> k \in U(record)
        BY ZenonT(60), <4>3, <4>4, <4>5
      <4> QED BY ZenonT(60), <4>2, <4>6
    <3> QED BY ZenonT(60), <3>1, <3>2, <3>3
  <2>5. Cardinality(U(q)) = Cardinality(U(record))
    <3>1. PICK S, T : S = U(record) /\ T = U(q)
      BY ZenonT(60)
    <3>2. S \subseteq 1 .. L /\ T \subseteq 1 .. L /\ \A i \in 1 .. L : i \in T <=> (L - i) + 1 \in S
      BY ZenonT(60), <2>4, <3>1
    <3>3. Cardinality(T) = Cardinality(S)
      BY ZenonT(60), <1>2, <3>2, MirrorCardinality
    <3> QED BY ZenonT(60), <3>1, <3>3
  <2> QED BY ZenonT(60), <2>3, <2>5
<1> QED BY ZenonT(60), <1>1, <1>5, <1>6, <1>11, <1>12 DEF SameEvidence

\* The outcome never depends on the order in which the observations arrived, although
\* compute_evidence takes the first valid one it finds: an attempt has only one.
THEOREM OrderNeverMatters == Spec => []OrderIrrelevant
<1>1. EvidenceInvariant => OrderIrrelevant
  <2> SUFFICES ASSUME EvidenceInvariant PROVE OrderIrrelevant
    BY ZenonT(60)
  <2>1. PICK q : q = [record EXCEPT !.observations = Reversed(@)]
    BY ZenonT(60)
  <2>2. SameEvidence(definition, record, q) /\ q.exp = record.exp
    BY ZenonT(60), <2>1, ReversedEvidence
  <2>3. evaluate(q) = evaluate(record)
    BY ZenonT(60), <2>2, SameVerdict DEF evaluate
  <2> QED BY ZenonT(60), <2>1, <2>3 DEF OrderIrrelevant, Outcome
<1> QED BY <1>1, EvidenceInOrder, PTL

-----------------------------------------------------------------------------
(***************************************************************************)
(* What arrives changes no verdict.                                        *)
(***************************************************************************)

\* A step that files an observation and completes no trial; the observation is valid only if
\* its attempt has not completed.
Files(o) ==
  /\ record'.exp = record.exp /\ record'.generation = record.generation
  /\ record'.branches = record.branches
  /\ DOMAIN record'.trials = DOMAIN record.trials
  /\ \A t \in DOMAIN record.trials :
       \/ record'.trials[t] = record.trials[t]
       \/ record.trials[t].state # "COMPLETED" /\ record'.trials[t].state # "COMPLETED"
  /\ record'.observations = Append(record.observations, o)
  /\ o.validity = "VALID" => record.attempts[o.attempt].state # "COMPLETED"

\* What such a step adds is no evidence yet.
LEMMA FilesNoEvidence ==
  ASSUME EvidenceInvariant, ~definition.reject_on_any_invalid, NEW o, Files(o)
  PROVE  SameEvidence(definition, record, record')
<1> DEFINE L == Len(record.observations)
           O(r, t, m) == Observed(r, t, m, "VALID")
<1>1. L \in Nat /\ DOMAIN record.observations = 1 .. L
  <2>1. record.observations \in Seq(Observations)
    BY ZenonT(60), RecordFields DEF EvidenceInvariant
  <2> QED BY <2>1
<1>2. /\ DOMAIN record'.observations = DOMAIN record.observations \cup {L + 1}
      /\ L + 1 \notin DOMAIN record.observations
      /\ \A n \in DOMAIN record.observations : record'.observations[n] = record.observations[n]
      /\ record'.observations[L + 1] = o
  <2>1. record.observations \in Seq(Observations) /\ record'.observations = Append(record.observations, o)
    BY ZenonT(60), RecordFields DEF EvidenceInvariant, Files
  <2>2. record.observations \in Seq(Observations \cup {o}) /\ o \in Observations \cup {o}
    BY <2>1
  <2>3. PICK s, S : s = record.observations /\ S = Observations \cup {o}
    BY ZenonT(60)
  <2>4. /\ DOMAIN Append(s, o) = DOMAIN s \cup {Len(s) + 1} /\ Len(s) + 1 \notin DOMAIN s
        /\ Append(s, o)[Len(s) + 1] = o /\ \A j \in DOMAIN s : Append(s, o)[j] = s[j]
    <3>1. s \in Seq(S) /\ o \in S
      BY ZenonT(60), <2>2, <2>3
    <3> QED BY <3>1
  <2> QED BY ZenonT(60), <2>1, <2>3, <2>4
<1>3. /\ record'.branches = record.branches /\ record'.generation = record.generation
      /\ DOMAIN record'.trials = DOMAIN record.trials
      /\ \A t \in DOMAIN record.trials :
           record.trials[t].state = "COMPLETED" \/ record'.trials[t].state = "COMPLETED"
             => record'.trials[t] = record.trials[t]
  BY ZenonT(60) DEF Files
<1> HIDE DEF L
<1>4. \A b : authoritative_trials(record', b) = authoritative_trials(record, b)
  BY ZenonT(60), <1>3 DEF authoritative_trials
<1>5. \A B : Fingerprints(definition, record', B) = Fingerprints(definition, record, B)
  <2> TAKE B
  <2>1. ASSUME NEW b
        PROVE  (\E t \in DOMAIN record'.trials : record'.trials[t].state = "COMPLETED" /\ record'.trials[t].branch = b)
               <=> (\E t \in DOMAIN record.trials : record.trials[t].state = "COMPLETED" /\ record.trials[t].branch = b)
    BY ZenonT(60), <1>3
  <2> QED BY ZenonT(60), <2>1 DEF Fingerprints
<1>6. ASSUME NEW b, NEW m, NEW t \in authoritative_trials(record, b)
      PROVE  O(record', t, m) = O(record, t, m)
  <2>1. /\ t \in DOMAIN record.trials /\ record.trials[t].state = "COMPLETED"
        /\ record'.trials[t] = record.trials[t]
    BY ZenonT(60), <1>3 DEF authoritative_trials
  <2>2. PICK a : a = record.trials[t].authoritative_attempt
    OBVIOUS
  <2>3. record.attempts[a].state = "COMPLETED"
    BY ZenonT(60), <2>1, <2>2 DEF EvidenceInvariant, CompletedByItsAttempt
  <2>4. ~(o.attempt = a /\ o.validity = "VALID")
    BY ZenonT(60), <2>3 DEF Files
  <2> QED BY ZenonT(60), <1>2, <2>1, <2>2, <2>4 DEF Observed
<1>7. ASSUME NEW t, NEW m, O(record, t, m) # {}
      PROVE  First(O(record, t, m)) \in DOMAIN record.observations
  <2>1. O(record, t, m) \subseteq 1 .. L
    BY ZenonT(60), <1>1 DEF Observed
  <2> HIDE DEF O
  <2>2. First(O(record, t, m)) \in O(record, t, m)
    BY ZenonT(60), <1>1, <1>7, <2>1, LeastExists
  <2> QED BY ZenonT(60), <1>1, <2>1, <2>2
<1>8. \A b, m : ValidValues(record', b, m) = ValidValues(record, b, m)
  <2> TAKE b, m
  <2> DEFINE V == {t \in authoritative_trials(record, b) : O(record, t, m) # {}}
  <2>1. /\ ValidValues(record, b, m) = [t \in V |-> record.observations[First(O(record, t, m))].value]
        /\ ValidValues(record', b, m) =
             [t \in {t \in authoritative_trials(record', b) : O(record', t, m) # {}} |->
                record'.observations[First(O(record', t, m))].value]
    BY ZenonT(60) DEF ValidValues
  <2> HIDE DEF O
  <2>2. {t \in authoritative_trials(record', b) : O(record', t, m) # {}} = V
    <3>1. PICK A : A = authoritative_trials(record, b) /\ A = authoritative_trials(record', b)
      BY ZenonT(60), <1>4
    <3>2. \A t \in A : O(record', t, m) = O(record, t, m)
      BY ZenonT(60), <1>6, <3>1
    <3>3. {t \in A : O(record', t, m) # {}} = {t \in A : O(record, t, m) # {}}
      BY ZenonT(60), <3>2
    <3> QED BY ZenonT(60), <3>1, <3>3
  <2>3. \A t \in V : record'.observations[First(O(record', t, m))].value =
                     record.observations[First(O(record, t, m))].value
    BY ZenonT(60), <1>2, <1>6, <1>7
  <2> HIDE DEF V
  <2>4. ValidValues(record', b, m) = [t \in V |-> record'.observations[First(O(record', t, m))].value]
    BY ZenonT(60), <2>1, <2>2
  <2> QED BY ZenonT(60), <2>1, <2>3, <2>4
<1> QED BY ZenonT(60), <1>3, <1>4, <1>5, <1>8 DEF SameEvidence

\* publish_observation files an observation.
LEMMA PublishFiles ==
  ASSUME EvidenceInvariant, NEW a \in DOMAIN record.attempts, NEW m, NEW validity, NEW value,
         PublishObservation(a, m, validity, value)
  PROVE  Files(Entry(a, m, validity, value)) /\ definition' = definition
<1> DEFINE t == record.attempts[a].trial
           o == Entry(a, m, validity, value)
<1>1. /\ t \in DOMAIN record.trials /\ record.trials[t].state # "COMPLETED"
      /\ record.attempts[a].state # "COMPLETED"
  BY ZenonT(60), TrialOfAttempt DEF PublishObservation, check_envelope, is_terminal, is_attempt_terminal
<1>2. /\ record' = [record EXCEPT !.observations = Append(record.observations, o),
                                  !.trials[t].state = "OBSERVING", !.attempts[a].state = "RUNNING"]
      /\ definition' = definition
  BY ZenonT(60) DEF PublishObservation, Recorded, Entry
<1>3. o.attempt = a
  BY ZenonT(60) DEF Entry
<1> HIDE DEF o
<1>4. /\ record'.exp = record.exp /\ record'.generation = record.generation
      /\ record'.branches = record.branches /\ record'.observations = Append(record.observations, o)
      /\ record'.trials = [record.trials EXCEPT ![t].state = "OBSERVING"]
  BY ZenonT(60), <1>2 DEF EvidenceInvariant, RecordType, Records
<1>5. /\ DOMAIN record'.trials = DOMAIN record.trials
      /\ \A u \in DOMAIN record.trials : u # t => record'.trials[u] = record.trials[u]
      /\ record'.trials[t].state # "COMPLETED"
  <2>1. record.trials \in Seq(Trials) /\ record.trials[t] \in Trials
    BY ZenonT(60), RecordFields, TrialOfAttempt DEF EvidenceInvariant
  <2>2. [record.trials[t] EXCEPT !.state = "OBSERVING"].state = "OBSERVING"
    BY ZenonT(60), <2>1 DEF Trials
  <2> HIDE DEF t
  <2> QED BY ZenonT(60), <1>1, <1>4, <2>1, <2>2
<1> HIDE DEF t
<1>6. \A u \in DOMAIN record.trials :
        \/ record'.trials[u] = record.trials[u]
        \/ record.trials[u].state # "COMPLETED" /\ record'.trials[u].state # "COMPLETED"
  BY ZenonT(60), <1>1, <1>5
<1>7. Files(o)
  BY ZenonT(60), <1>1, <1>3, <1>4, <1>5, <1>6 DEF Files
<1> QED BY ZenonT(60), <1>2, <1>7 DEF o

\* And so does publish_observation without authority, as INVALID.
LEMMA RejectFiles ==
  ASSUME EvidenceInvariant, NEW a \in DOMAIN record.attempts, NEW m, RejectObservation(a, m)
  PROVE  Files(Entry(a, m, "INVALID", NoId)) /\ definition' = definition /\ decisions' = decisions
<1> DEFINE o == Entry(a, m, "INVALID", NoId)
<1>1. /\ record' = [record EXCEPT !.observations = Append(record.observations, o)]
      /\ definition' = definition /\ decisions' = decisions
  BY ZenonT(60) DEF RejectObservation, Recorded, Entry
<1>2. o.validity # "VALID"
  BY ZenonT(60) DEF Entry
<1> HIDE DEF o
<1>3. /\ record'.exp = record.exp /\ record'.generation = record.generation
      /\ record'.branches = record.branches /\ record'.observations = Append(record.observations, o)
      /\ record'.trials = record.trials
  BY ZenonT(60), <1>1 DEF EvidenceInvariant, RecordType, Records
<1>4. Files(o)
  BY ZenonT(60), <1>2, <1>3 DEF Files
<1> QED BY ZenonT(60), <1>1, <1>4 DEF o

\* The fields of the record.
LEMMA RecordDomain ==
  ASSUME EvidenceInvariant
  PROVE  DOMAIN record = {"exp", "generation", "branches", "trials", "attempts", "observations"}
<1>1. record \in Records
  BY ZenonT(60) DEF EvidenceInvariant, RecordType
<1> QED BY ZenonT(60), <1>1 DEF Records

\* r is the record up to its trials and attempts.
SameFields(r) ==
  /\ r.observations = record.observations /\ r.exp = record.exp
  /\ r.branches = record.branches /\ DOMAIN r = DOMAIN record

\* Ending the work of a branch touches trials and attempts alone.
LEMMA EndedKeeps ==
  ASSUME EvidenceInvariant, NEW B, NEW ts, NEW as, NEW r, r = Ended(B, ts, as)
  PROVE  SameFields(r)
<1>1. PICK T, A : r = [record EXCEPT !.trials = T, !.attempts = A]
  BY ZenonT(60) DEF Ended
<1>2. DOMAIN record = {"exp", "generation", "branches", "trials", "attempts", "observations"}
  BY ZenonT(60), RecordDomain
<1>3. /\ r.observations = record.observations /\ r.exp = record.exp
      /\ r.branches = record.branches /\ DOMAIN r = DOMAIN record
  BY ZenonT(60), <1>1, <1>2
<1> QED BY ZenonT(60), <1>3 DEF SameFields

\* The work on an open experiment, publishing apart, leaves it open and the
\* observations alone.
LEMMA WorkKeepsOpen ==
  ASSUME EvidenceInvariant,
         \/ \E b \in DOMAIN record.branches : CreateTrial(b)
         \/ \E t \in DOMAIN record.trials : ClaimTrial(t)
         \/ \E a \in DOMAIN record.attempts : CommitTrial(a) \/ \E retryable \in BOOLEAN : FailTrial(a, retryable)
         \/ ReviseHypothesis
  PROVE  record'.observations = record.observations /\ record'.exp = "OPEN"
<1> DEFINE Kept == record'.observations = record.observations /\ record'.exp = "OPEN"
<1>d. DOMAIN record = {"exp", "generation", "branches", "trials", "attempts", "observations"}
  BY ZenonT(60), RecordDomain
<1>1. ASSUME NEW b \in DOMAIN record.branches, CreateTrial(b) PROVE Kept
  <2>1. PICK T : record' = [record EXCEPT !.trials = T]
    BY ZenonT(60), <1>1 DEF CreateTrial
  <2>2. record.exp = "OPEN"
    BY ZenonT(60), <1>1 DEF CreateTrial, is_experiment_mutable
  <2> QED BY ZenonT(60), <1>d, <2>1, <2>2
<1>2. ASSUME NEW t \in DOMAIN record.trials, ClaimTrial(t) PROVE Kept
  <2>1. PICK A, x : record' = [record EXCEPT !.attempts = A, !.trials[t] = x]
    BY ZenonT(60), <1>2 DEF ClaimTrial
  <2>2. record.exp = "OPEN"
    BY ZenonT(60), <1>2 DEF ClaimTrial, is_experiment_mutable
  <2> QED BY ZenonT(60), <1>d, <2>1, <2>2
<1>3. ASSUME NEW a \in DOMAIN record.attempts, CommitTrial(a) PROVE Kept
  <2>1. PICK u : record' = [record EXCEPT !.attempts[a].state = "COMPLETED", !.trials[u].state = "COMPLETED"]
    BY ZenonT(60), <1>3 DEF CommitTrial
  <2>2. record.exp = "OPEN"
    BY ZenonT(60), <1>3 DEF CommitTrial, check_envelope, is_experiment_mutable
  <2> QED BY ZenonT(60), <1>d, <2>1, <2>2
<1>4. ASSUME NEW a \in DOMAIN record.attempts, NEW retryable \in BOOLEAN, FailTrial(a, retryable)
      PROVE  Kept
  <2>1. PICK u, x, b, st : record' = [record EXCEPT !.attempts[a].state = "FAILED", !.trials[u] = x,
                                                  !.branches[b].state = st]
    BY ZenonT(60), <1>4 DEF FailTrial
  <2>2. record.exp = "OPEN"
    BY ZenonT(60), <1>4 DEF FailTrial, check_envelope, is_experiment_mutable
  <2>3. record'.observations = record.observations
    BY ZenonT(60), <1>d, <2>1
  <2>4. record'.exp = record.exp
    BY ZenonT(60), <1>d, <2>1
  <2> QED BY ZenonT(60), <2>2, <2>3, <2>4
<1>5. ASSUME ReviseHypothesis PROVE Kept
  <2>0. PICK r : r = Ended(DOMAIN record.branches, "SUPERSEDED", "ABANDONED")
    BY ZenonT(60)
  <2>1. SameFields(r)
    BY ZenonT(60), <2>0, EndedKeeps
  <2>2. record.exp = "OPEN"
    BY ZenonT(60), <1>5 DEF ReviseHypothesis, is_experiment_mutable
  <2>3. PICK g : record' = [r EXCEPT !.generation = g]
    BY ZenonT(60), <1>5, <2>0 DEF ReviseHypothesis
  <2> QED BY ZenonT(60), <1>d, <2>1, <2>2, <2>3 DEF SameFields
<1> HIDE DEF Kept
<1>6. Kept
  BY ZenonT(60), <1>1, <1>2, <1>3, <1>4, <1>5
<1> QED BY ZenonT(60), <1>6 DEF Kept

\* Every step other than a publication leaves the observations alone.
LEMMA OthersFileNothing ==
  ASSUME EvidenceInvariant,
         \/ \E b \in DOMAIN record.branches : CreateTrial(b) \/ RetireBranch(b)
         \/ \E t \in DOMAIN record.trials : ClaimTrial(t)
         \/ \E a \in DOMAIN record.attempts : CommitTrial(a) \/ \E retryable \in BOOLEAN : FailTrial(a, retryable)
         \/ ReviseHypothesis \/ CancelExperiment
         \/ \E c \in {NoId, definition.candidate} : FinalizeExperiment(c)
  PROVE  record'.observations = record.observations
<1>d. DOMAIN record = {"exp", "generation", "branches", "trials", "attempts", "observations"}
  BY ZenonT(60), RecordDomain
<1>1. ASSUME NEW c \in {NoId, definition.candidate}, FinalizeExperiment(c)
      PROVE  record'.observations = record.observations
  <2>1. PICK e : record' = [record EXCEPT !.exp = e]
    BY ZenonT(60), <1>1 DEF FinalizeExperiment
  <2> QED BY ZenonT(60), <1>d, <2>1
<1>2. CASE CancelExperiment
  <2>1. PICK r : r = Ended(DOMAIN record.branches, "CANCELLED", "CANCELLED")
    BY ZenonT(60)
  <2>2. record' = [r EXCEPT !.exp = "CANCELLED"]
    BY ZenonT(60), <1>2, <2>1 DEF CancelExperiment
  <2>3. SameFields(r)
    BY ZenonT(60), <2>1, EndedKeeps
  <2> QED BY ZenonT(60), <1>d, <2>2, <2>3 DEF SameFields
<1>3. ASSUME NEW b \in DOMAIN record.branches, RetireBranch(b) PROVE record'.observations = record.observations
  <2>0. PICK r : r = Ended({b}, "SUPERSEDED", "ABANDONED")
    BY ZenonT(60)
  <2>1. SameFields(r)
    BY ZenonT(60), <2>0, EndedKeeps
  <2>2. record' = [r EXCEPT !.branches[b] = [state |-> "RETIRED", generation |-> @.generation + 1]]
    BY ZenonT(60), <1>3, <2>0 DEF RetireBranch
  <2>3. PICK B : record' = [r EXCEPT !.branches = B]
    BY ZenonT(60), <2>2
  <2> QED BY ZenonT(60), <1>d, <2>1, <2>3 DEF SameFields
<1> QED BY ZenonT(60), <1>1, <1>2, <1>3, WorkKeepsOpen

\* Publishing, accepted or late, never changes what the experiment would decide, under
\* every policy that tolerates invalid observations (publish_observation, compute_evidence).
THEOREM PublishingIsInert == Spec => HistoryIsInert
<1>1. EvidenceInvariant /\ [Next]_vars =>
        [record'.observations # record.observations /\ ~definition.reject_on_any_invalid
           => evaluate(record') = Outcome]_vars
  <2> SUFFICES ASSUME EvidenceInvariant, Next, record'.observations # record.observations,
                      ~definition.reject_on_any_invalid
               PROVE  evaluate(record') = Outcome
    BY ZenonT(60)
  <2>1. \E o : Files(o)
    <3>1. ASSUME NEW a \in DOMAIN record.attempts, NEW m, NEW validity, NEW value,
                 PublishObservation(a, m, validity, value)
          PROVE  \E o : Files(o)
      BY ZenonT(60), <3>1, PublishFiles
    <3>2. ASSUME NEW a \in DOMAIN record.attempts, NEW m, RejectObservation(a, m)
          PROVE  \E o : Files(o)
      BY ZenonT(60), <3>2, RejectFiles
    <3> QED BY ZenonT(60), <3>1, <3>2, OthersFileNothing DEF Next
  <2>2. PICK o : Files(o)
    BY ZenonT(60), <2>1
  <2>3. SameEvidence(definition, record, record') /\ record'.exp = record.exp
    BY ZenonT(60), <2>2, FilesNoEvidence DEF Files
  <2>4. build_decision(definition, record', definition.candidate)
          = build_decision(definition, record, definition.candidate)
    BY ZenonT(60), <2>3, SameVerdict
  <2> QED BY ZenonT(60), <2>4 DEF evaluate, Outcome
<1> QED BY <1>1, EvidenceInOrder, PTL DEF Spec, HistoryIsInert

\* The state of the experiment is no evidence.
LEMMA StateIsNoEvidence ==
  ASSUME NEW d, NEW r, NEW q, q.branches = r.branches, q.trials = r.trials,
         q.generation = r.generation, q.observations = r.observations
  PROVE  SameEvidence(d, r, q)
<1>1. \A b : authoritative_trials(q, b) = authoritative_trials(r, b)
  BY ZenonT(60) DEF authoritative_trials
<1>2. \A B : Fingerprints(d, q, B) = Fingerprints(d, r, B)
  BY ZenonT(60) DEF Fingerprints
<1>3. \A t, m, v : Observed(q, t, m, v) = Observed(r, t, m, v)
  BY ZenonT(60) DEF Observed
<1>4. ASSUME NEW b, NEW m PROVE ValidValues(q, b, m) = ValidValues(r, b, m)
  <2>1. PICK A : A = authoritative_trials(r, b) /\ A = authoritative_trials(q, b)
    BY ZenonT(60), <1>1
  <2>2. ASSUME NEW p
        PROVE  ValidValues(p, b, m) =
                 [t \in {t \in authoritative_trials(p, b) : Observed(p, t, m, "VALID") # {}} |->
                    p.observations[First(Observed(p, t, m, "VALID"))].value]
    BY ZenonT(60) DEF ValidValues
  <2>3. {t \in A : Observed(q, t, m, "VALID") # {}} = {t \in A : Observed(r, t, m, "VALID") # {}}
    BY ZenonT(60), <1>3
  <2>4. PICK V : V = {t \in A : Observed(r, t, m, "VALID") # {}}
    BY ZenonT(60)
  <2>5. /\ ValidValues(q, b, m) = [t \in V |-> q.observations[First(Observed(q, t, m, "VALID"))].value]
        /\ ValidValues(r, b, m) = [t \in V |-> r.observations[First(Observed(r, t, m, "VALID"))].value]
    BY ZenonT(60), <2>1, <2>2, <2>3, <2>4
  <2>6. \A t \in V : q.observations[First(Observed(q, t, m, "VALID"))].value =
                     r.observations[First(Observed(r, t, m, "VALID"))].value
    BY ZenonT(60), <1>3
  <2> QED BY ZenonT(60), <2>5, <2>6
<1>5. ASSUME NEW b, NEW m PROVE InvalidCount(q, b, m) = InvalidCount(r, b, m)
  <2>1. PICK A : A = authoritative_trials(r, b) /\ A = authoritative_trials(q, b)
    BY ZenonT(60), <1>1
  <2>2. {Observed(q, t, m, "INVALID") : t \in A} = {Observed(r, t, m, "INVALID") : t \in A}
    BY ZenonT(60), <1>3
  <2> QED BY ZenonT(60), <2>1, <2>2 DEF InvalidCount
<1> QED BY ZenonT(60), <1>1, <1>2, <1>4, <1>5 DEF SameEvidence

\* What follows from the evidence of r follows from that of q.
LEMMA SameEvidenceChain ==
  ASSUME NEW d, NEW r, NEW q, NEW p, SameEvidence(d, r, q), SameEvidence(d, q, p)
  PROVE  SameEvidence(d, r, p)
BY ZenonT(60) DEF SameEvidence

\* A record reopened.
LEMMA Reopened ==
  ASSUME NEW p, p \in Records, NEW r, r = [p EXCEPT !.exp = "OPEN"]
  PROVE  /\ r.exp = "OPEN" /\ r.branches = p.branches /\ r.trials = p.trials
         /\ r.generation = p.generation /\ r.observations = p.observations
BY ZenonT(60) DEF Records

\* An experiment that is closed decides by its state.
LEMMA ClosedDecision ==
  ASSUME RecordType, NEW c, c \in DOMAIN record.branches, c # definition.baseline, record.exp # "OPEN"
  PROVE  build_decision(definition, record, c) = ClosedOutcome(record.exp)
<1>1. PICK o : o = build_decision(definition, record, c)
  BY ZenonT(60)
<1>2. DecidedFor(c, o)
  BY ZenonT(60), <1>1, DecisionIs
<1> QED BY ZenonT(60), <1>1, <1>2 DEF DecidedFor

\* A decision that finalizes is the one that the reopened record supports.
LEMMA FinalizeStands ==
  ASSUME EvidenceInvariant, NEW c, FinalizeExperiment(c), record'.exp = "FINALIZED"
  PROVE  Latest(decisions').outcome =
           build_decision(definition, [record' EXCEPT !.exp = "OPEN"], Latest(decisions').candidate)
<1>t. RecordType
  BY ZenonT(60) DEF EvidenceInvariant
<1> DEFINE outcome == build_decision(definition, record, c)
           entry == [candidate |-> c, outcome |-> outcome]
<1>1. PICK q : q = [record EXCEPT !.exp = "OPEN"]
  BY ZenonT(60)
<1>2. /\ q.exp = "OPEN" /\ q.branches = record.branches /\ q.trials = record.trials
      /\ q.generation = record.generation /\ q.observations = record.observations
  BY ZenonT(60), <1>t, <1>1, Reopened DEF RecordType
<1>3. PICK e : /\ record' = [record EXCEPT !.exp = e]
               /\ e = CASE outcome \in {"ACCEPT", "REJECT", "INVALID"} -> "FINALIZED"
                        [] outcome \in {"CANCELLED", "SUPERSEDED"} -> outcome
                        [] OTHER -> record.exp
  BY ZenonT(60) DEF FinalizeExperiment
<1>4. record.exp # "FINALIZED" /\ decisions' = Append(decisions, entry)
  BY ZenonT(60) DEF FinalizeExperiment
<1>5. [record' EXCEPT !.exp = "OPEN"] = q /\ record'.exp = e
  BY ZenonT(60), <1>1, <1>3, <1>t DEF RecordType, Records
<1>6. outcome \in {"ACCEPT", "REJECT", "INVALID"}
  <2> HIDE DEF outcome
  <2> QED BY <1>3, <1>4, <1>5
<1>7. Latest(decisions') = entry
  <2>1. decisions \in Seq(Decisions)
    BY ZenonT(60), <1>t DEF RecordType
  <2> HIDE DEF entry
  <2> QED BY <1>4, <2>1 DEF Latest
<1>8. entry.outcome = outcome /\ entry.candidate = c
  OBVIOUS
<1>9. build_decision(definition, q, c) = outcome
  <2>1. CASE record.exp = "OPEN"
    <3>1. SameEvidence(definition, record, q) /\ q.exp = record.exp
      BY ZenonT(60), <1>2, <2>1, StateIsNoEvidence
    <3> QED BY ZenonT(60), <3>1, SameVerdict
  <2>2. CASE c \notin DOMAIN record.branches \/ c = definition.baseline
    BY ZenonT(60), <1>2, <2>2 DEF build_decision
  <2>3. CASE record.exp # "OPEN" /\ c \in DOMAIN record.branches /\ c # definition.baseline
    <3>1. outcome = ClosedOutcome(record.exp)
      BY ZenonT(60), <1>t, <2>3, ClosedDecision
    <3>2. record.exp \in ExperimentStates
      BY ZenonT(60), <1>t, RecordFields
    <3>3. ClosedOutcome(record.exp) \notin {"ACCEPT", "REJECT", "INVALID"}
      BY ZenonT(60), <1>4, <2>3, <3>2 DEF ClosedOutcome, ExperimentStates
    <3> QED BY ZenonT(60), <1>6, <3>1, <3>3
  <2> QED BY ZenonT(60), <2>1, <2>2, <2>3
<1> HIDE DEF outcome, entry
<1> QED BY ZenonT(60), <1>5, <1>7, <1>8, <1>9

\* A late observation does not touch a final decision.
LEMMA RejectStands ==
  ASSUME EvidenceInvariant, EvidenceInvariant', VerdictStands, NEW a \in DOMAIN record.attempts, NEW m,
         RejectObservation(a, m), record'.exp = "FINALIZED", ~definition.reject_on_any_invalid,
         \A b \in DOMAIN record'.branches : record'.branches[b].state # "RETIRED"
  PROVE  Latest(decisions).outcome =
           build_decision(definition, [record' EXCEPT !.exp = "OPEN"], Latest(decisions).candidate)
<1>1. PICK o : Files(o)
  BY ZenonT(60), RejectFiles
<1>2. definition' = definition
  BY ZenonT(60), RejectFiles
<1>3. record \in Records /\ record' \in Records
  <2>1. record \in Records /\ (record \in Records)'
    BY ZenonT(60) DEF EvidenceInvariant, RecordType
  <2>2. Records' = Records
    BY ZenonT(60), <1>2 DEF Records, Trials, Attempts, Observations
  <2> QED BY ZenonT(60), <2>1, <2>2
<1>4. record'.exp = record.exp /\ record'.branches = record.branches
  BY ZenonT(60), <1>1 DEF Files
<1>5. PICK r, q : r = [record EXCEPT !.exp = "OPEN"] /\ q = [record' EXCEPT !.exp = "OPEN"]
  BY ZenonT(60)
<1>6. /\ r.exp = "OPEN" /\ r.branches = record.branches /\ r.trials = record.trials
      /\ r.generation = record.generation /\ r.observations = record.observations
  BY ZenonT(60), <1>3, <1>5, Reopened
<1>7. /\ q.exp = "OPEN" /\ q.branches = record'.branches /\ q.trials = record'.trials
      /\ q.generation = record'.generation /\ q.observations = record'.observations
  <2>1. PICK p : p = record'
    BY ZenonT(60)
  <2>2. p \in Records /\ q = [p EXCEPT !.exp = "OPEN"]
    BY ZenonT(60), <1>3, <1>5, <2>1
  <2>3. /\ q.exp = "OPEN" /\ q.branches = p.branches /\ q.trials = p.trials
        /\ q.generation = p.generation /\ q.observations = p.observations
    BY ZenonT(60), <2>2, Reopened
  <2> QED BY ZenonT(60), <2>1, <2>3
<1>8. SameEvidence(definition, r, record)
  BY ZenonT(60), <1>6, StateIsNoEvidence
<1>9. SameEvidence(definition, record, record')
  BY ZenonT(60), <1>1, FilesNoEvidence
<1>10. SameEvidence(definition, record', q)
  BY ZenonT(60), <1>7, StateIsNoEvidence
<1>11. SameEvidence(definition, r, q)
  BY ZenonT(60), <1>8, <1>9, <1>10, SameEvidenceChain
<1>12. \A c : build_decision(definition, q, c) = build_decision(definition, r, c)
  BY ZenonT(60), <1>6, <1>7, <1>11, SameVerdict
<1>13. Latest(decisions).outcome = build_decision(definition, r, Latest(decisions).candidate)
  BY ZenonT(60), <1>4, <1>5 DEF VerdictStands
<1> QED BY ZenonT(60), <1>5, <1>12, <1>13

\* No step takes the support from under a final decision.
LEMMA VerdictStep ==
  ASSUME EvidenceInvariant, VerdictStands, [Next]_vars
  PROVE  VerdictStands'
<1>e. EvidenceInvariant'
  BY ZenonT(60), NextEvidence
<1>d. DOMAIN record = {"exp", "generation", "branches", "trials", "attempts", "observations"}
  BY ZenonT(60), RecordDomain
<1>k. "OPEN" # "FINALIZED" /\ "CANCELLED" # "FINALIZED"
  BY ZenonT(60)
<1> SUFFICES ASSUME record'.exp = "FINALIZED", ~definition'.reject_on_any_invalid,
                    \A b \in DOMAIN record'.branches : record'.branches[b].state # "RETIRED"
             PROVE  Latest(decisions').outcome =
                      build_decision(definition', [record' EXCEPT !.exp = "OPEN"], Latest(decisions').candidate)
  BY ZenonT(60) DEF VerdictStands
<1> DEFINE Goal == Latest(decisions').outcome =
                      build_decision(definition', [record' EXCEPT !.exp = "OPEN"], Latest(decisions').candidate)
<1>1. ASSUME NEW c \in {NoId, definition.candidate}, FinalizeExperiment(c) PROVE Goal
  <2>1. definition' = definition
    BY ZenonT(60), <1>1 DEF FinalizeExperiment
  <2> QED BY ZenonT(60), <1>1, <2>1, FinalizeStands
<1>2. ASSUME NEW a \in DOMAIN record.attempts, NEW m, RejectObservation(a, m) PROVE Goal
  <2>1. definition' = definition /\ decisions' = decisions
    BY ZenonT(60), <1>2 DEF RejectObservation
  <2>2. ~definition.reject_on_any_invalid
    BY ZenonT(60), <2>1
  <2>3. Latest(decisions).outcome =
          build_decision(definition, [record' EXCEPT !.exp = "OPEN"], Latest(decisions).candidate)
    BY ZenonT(60), <1>2, <1>e, <2>2, RejectStands
  <2> QED BY ZenonT(60), <2>1, <2>3
<1>3. ASSUME NEW a \in DOMAIN record.attempts, NEW m, NEW validity, NEW value,
             PublishObservation(a, m, validity, value)
      PROVE  FALSE
  <2>1. record.exp = "OPEN"
    BY ZenonT(60), <1>3 DEF PublishObservation, check_envelope, is_experiment_mutable
  <2>2. record'.exp = record.exp
    BY ZenonT(60), <1>3, PublishFiles DEF Files
  <2> QED BY ZenonT(60), <1>k, <2>1, <2>2
<1>4. ASSUME NEW b \in DOMAIN record.branches, RetireBranch(b) PROVE FALSE
  <2>1. PICK r : r = Ended({b}, "SUPERSEDED", "ABANDONED")
    BY ZenonT(60)
  <2>2. record' = [r EXCEPT !.branches[b] = [state |-> "RETIRED", generation |-> @.generation + 1]]
    BY ZenonT(60), <1>4, <2>1 DEF RetireBranch
  <2>3. PICK x : x = [state |-> "RETIRED", generation |-> r.branches[b].generation + 1]
    BY ZenonT(60)
  <2>4. record' = [r EXCEPT !.branches[b] = x]
    BY ZenonT(60), <2>2, <2>3
  <2>5. x.state = "RETIRED"
    BY <2>3
  <2>6. SameFields(r)
    BY ZenonT(60), <2>1, EndedKeeps
  <2>7. b \in DOMAIN record'.branches /\ record'.branches[b] = x
    BY ZenonT(60), <1>d, <2>4, <2>6 DEF SameFields
  <2> QED BY ZenonT(60), <2>5, <2>7
<1>5. ASSUME CancelExperiment PROVE FALSE
  <2>1. PICK r : r = Ended(DOMAIN record.branches, "CANCELLED", "CANCELLED")
    BY ZenonT(60)
  <2>2. record' = [r EXCEPT !.exp = "CANCELLED"]
    BY ZenonT(60), <1>5, <2>1 DEF CancelExperiment
  <2>3. SameFields(r)
    BY ZenonT(60), <2>1, EndedKeeps
  <2>4. record'.exp = "CANCELLED"
    BY ZenonT(60), <1>d, <2>2, <2>3 DEF SameFields
  <2> QED BY ZenonT(60), <1>k, <2>4
<1>6. ASSUME \/ \E b \in DOMAIN record.branches : CreateTrial(b)
             \/ \E t \in DOMAIN record.trials : ClaimTrial(t)
             \/ \E a \in DOMAIN record.attempts : CommitTrial(a) \/ \E retryable \in BOOLEAN : FailTrial(a, retryable)
             \/ ReviseHypothesis
      PROVE  FALSE
  BY ZenonT(60), <1>6, <1>k, WorkKeepsOpen
<1>7. ASSUME UNCHANGED vars PROVE Goal
  <2>1. definition' = definition /\ record' = record /\ decisions' = decisions
    BY ZenonT(60), <1>7 DEF vars
  <2> QED BY ZenonT(60), <2>1 DEF VerdictStands
<1> HIDE DEF Goal
<1>8. Goal
  BY ZenonT(60), <1>1, <1>2, <1>3, <1>4, <1>5, <1>6, <1>7 DEF Next
<1> QED BY ZenonT(60), <1>8 DEF Goal

\* A final decision stands: until a branch is retired, the evidence on record still
\* leads to it, whatever arrives late (check_envelope, finalize_experiment).
THEOREM VerdictsStand == Spec => []VerdictStands
<1>1. Init => VerdictStands
  <2>1. Init => record.exp = "OPEN"
    BY DEF Init
  <2> QED BY ZenonT(60), <2>1 DEF VerdictStands
<1>2. EvidenceInvariant /\ VerdictStands /\ [Next]_vars => VerdictStands'
  BY ZenonT(60), VerdictStep
<1> QED BY <1>1, <1>2, EvidenceInOrder, PTL DEF Spec
=============================================================================
