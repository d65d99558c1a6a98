----------------------------- MODULE WorkerRuntime -----------------------------
(***************************************************************************)
(* Worker processes at work: create, connect_and_register, run_once and    *)
(* run_until_idle of Worker, each process over its own connection, against *)
(* what the coordinator does with their requests.                          *)
(*                                                                         *)
(* A process is named by its boot identity, minted when it starts.  Every  *)
(* call of the client is two steps: the coordinator handles the request    *)
(* and leaves a reply, and the call returns with the reply.  Processes     *)
(* die, connections break before a request is handled or after, with the   *)
(* reply lost or not, and the coordinator restarts.                        *)
(*                                                                         *)
(* The coordinator is reduced to one experiment that no operator touches:  *)
(* what its handlers do to trials, attempts and incarnations.  Operations  *)
(* on definitions and failing writes are in module Coordinator.            *)
(***************************************************************************)
EXTENDS Integers, Sequences, FiniteSets

CONSTANTS
  Workers,         \* logical workers
  Usual,           \* the worker that is started when none holds an attempt
  MaxBoots,        \* bound: worker processes
  MaxTrial,        \* the trials are 1 .. MaxTrial
  MaxAttempts,     \* max_attempts_per_trial of the definition
  Concurrency,     \* max_concurrent_assignments of every worker
  MaxRegistered,   \* max_registered_workers
  MaxObservations, \* bound: observations a task produces
  MaxFaults,       \* bound: deaths, broken connections, restarts and stops
  MaxSpare,        \* bound: processes started beside others
  None

\* The codes a call can return with; the last is the transport's.
Codes ==
  {"OK", "STALE_WORKER", "STALE_EPOCH", "STALE_ATTEMPT", "LIMIT_EXCEEDED",
   "INVALID_OBSERVATION", "INSUFFICIENT_EVIDENCE", "INVALID_ARGUMENT", "TRANSPORT_FAILURE"}

\* The codes that refuse a report for what it says, and leave the attempt open.
ContentRefusals == {"INSUFFICIENT_EVIDENCE", "INVALID_ARGUMENT"}

ASSUME ConstantsAssumption ==
  /\ {MaxBoots, MaxTrial, MaxAttempts, Concurrency, MaxRegistered} \subseteq Nat \ {0}
  /\ {MaxObservations, MaxFaults, MaxSpare} \subseteq Nat
  /\ Usual \in Workers
  /\ None \notin [code : Codes, given : Seq(Nat)]

VARIABLES
  epoch,      \* the coordinator's epoch
  live,       \* live_workers: [boot -> "none", "live" or "revoked"]
  workers,    \* state.workers: the incarnations, a sequence of [boot, epoch, revoked]
  trials,     \* [trial -> [state, attempt, attempt_count]]
  attempts,   \* the attempts in the order of their identities
  proc,       \* [boot -> process]
  faults,     \* faults so far, or given up on
  spare       \* processes started beside others so far, or given up on

coordinator == <<epoch, live, workers, trials, attempts>>
vars == <<epoch, live, workers, trials, attempts, proc, faults, spare>>

Boots == 1 .. MaxBoots
Trials == 1 .. MaxTrial

\* pc "off": not started.  "register", "claim", "publish", "fail", "give_up" (fail_trial
\* after a publication that failed) and "commit": inside that call.  "task": about to run
\* the task of the first assignment.  "loop": at the head of run_until_idle.
\* "ended": run_until_idle returned, with success or not, or the process died.
Off == [pc |-> "off", owner |-> Usual, epoch |-> 0, connected |-> FALSE, reply |-> None,
        todo |-> << >>, left |-> 0, unassigned |-> FALSE, retryable |-> FALSE,
        published |-> 0,
        refused |-> {}]   \* history: the attempts whose report was refused for what it says

Calls == {"register", "claim", "publish", "fail", "give_up", "commit"}
Running(b) == proc[b].pc \notin {"off", "ended"}

\* A trial the operator left in the plan, and one that was cancelled.
Ready == [state |-> "READY", attempt |-> 0, attempt_count |-> 0]
Cancelled == [Ready EXCEPT !.state = "CANCELLED"]

Init ==
  /\ epoch = 1
  /\ live = [b \in Boots |-> "none"]
  /\ workers = << >>
  /\ trials \in [Trials -> {Ready, Cancelled}]
  /\ attempts = << >>
  /\ proc = [b \in Boots |-> Off]
  /\ faults \in 0 .. MaxFaults /\ spare \in 0 .. MaxSpare

-----------------------------------------------------------------------------
(***************************************************************************)
(* The coordinator.                                                        *)
(***************************************************************************)
Active == {"ISSUED", "RUNNING"}
Terminal == {"COMPLETED", "FAILED", "CANCELLED"}

Answer(b, code, given) == [proc EXCEPT ![b].reply = [code |-> code, given |-> given]]

\* Abandoned with a mistake: attempts outlive the process.
NothingAbandoned(boots) == UNCHANGED <<attempts, trials>>

\* The unfinished attempts of these processes are abandoned, and their trials given back
\* while attempts remain.
Abandoned(boots) ==
  LET lost(i) == attempts[i].boot \in boots /\ attempts[i].state \in Active
  IN  /\ attempts' = [i \in DOMAIN attempts |->
                        IF lost(i) THEN [attempts[i] EXCEPT !.state = "ABANDONED"] ELSE attempts[i]]
      /\ trials' = [t \in Trials |->
                      IF trials[t].attempt # 0 /\ trials[t].state \notin Terminal /\ lost(trials[t].attempt)
                      THEN IF trials[t].attempt_count < MaxAttempts
                           THEN [trials[t] EXCEPT !.state = "READY", !.attempt = 0]
                           ELSE [trials[t] EXCEPT !.state = "FAILED"]
                      ELSE trials[t]]

\* RegisterWorker with a mistake: the earlier process of the worker is not replaced.
RegisterBeside(b) ==
  /\ live' = [live EXCEPT ![b] = "live"]
  /\ workers' = Append(workers, [boot |-> b, epoch |-> epoch, revoked |-> FALSE])
  /\ proc' = Answer(b, "OK", << >>)
  /\ UNCHANGED <<epoch, trials, attempts, faults, spare>>

\* register_worker.  Earlier processes of the worker are replaced even when the new one is
\* then refused.
RegisterWorker(b) ==
  LET others == {o \in Boots \ {b} : live[o] = "live" /\ proc[o].owner = proc[b].owner}
      known == {i \in DOMAIN workers : workers[i].boot = b}
      code == IF \E i \in known : workers[i].revoked THEN "STALE_WORKER"
              ELSE IF \E i \in known : workers[i].epoch # epoch THEN "STALE_EPOCH"
              ELSE IF Len(workers) >= MaxRegistered THEN "LIMIT_EXCEEDED"
              ELSE "OK"
      revoking == [i \in DOMAIN workers |->
                     IF workers[i].boot \in others THEN [workers[i] EXCEPT !.revoked = TRUE] ELSE workers[i]]
  IN  IF live[b] # "none"
      THEN /\ proc' = Answer(b, IF live[b] = "live" THEN "OK" ELSE "STALE_WORKER", << >>)
           /\ UNCHANGED <<coordinator, faults, spare>>
      ELSE /\ Abandoned(others)
           /\ live' = [o \in Boots |-> IF o \in others THEN "revoked"
                                       ELSE IF o = b /\ code = "OK" THEN "live" ELSE live[o]]
           /\ workers' = IF code = "OK"
                         THEN Append(revoking, [boot |-> b, epoch |-> epoch, revoked |-> FALSE])
                         ELSE revoking
           /\ proc' = Answer(b, code, << >>)
           /\ UNCHANGED <<epoch, faults, spare>>

Current(b) ==
  IF proc[b].epoch # epoch THEN "STALE_EPOCH" ELSE IF live[b] # "live" THEN "STALE_WORKER" ELSE "OK"

\* What the process may claim: the unfinished attempts are counted in the records.
Slots(b) == Concurrency - Cardinality({i \in DOMAIN attempts : attempts[i].boot = b /\ attempts[i].state \in Active})

\* claim_trials walks the trials in order and takes the ones that are ready until the
\* budget is used up: given is the walk's result.
ClaimTrials(b) ==
  LET ready == {t \in Trials : trials[t].state = "READY" /\ trials[t].attempt_count < MaxAttempts}
      budget == IF Current(b) = "OK" THEN Slots(b) ELSE 0
      attempt(i) == Len(attempts) + i
  IN  \E n \in 0 .. Concurrency : \E given \in [1 .. n -> ready] :
        /\ n <= budget
        /\ \A i, j \in 1 .. n : i < j => given[i] < given[j]
        /\ \A t \in ready : \/ \E i \in 1 .. n : given[i] = t
                            \/ n = budget /\ \A i \in 1 .. n : given[i] < t
        /\ attempts' = attempts \o [i \in 1 .. n |->
                                      [trial |-> given[i], boot |-> b, epoch |-> epoch, state |-> "ISSUED",
                                       observations |-> 0]]
        /\ trials' = [t \in Trials |->
                        IF \E i \in 1 .. n : given[i] = t
                        THEN [state |-> "ASSIGNED", attempt |-> attempt(CHOOSE i \in 1 .. n : given[i] = t),
                              attempt_count |-> trials[t].attempt_count + 1]
                        ELSE trials[t]]
        /\ proc' = Answer(b, Current(b), [i \in 1 .. n |-> attempt(i)])
        /\ UNCHANGED <<epoch, live, workers, faults, spare>>

\* check_envelope with a mistake: neither the incarnation nor the attempt is compared.
check_trial_only(b, a) ==
  IF trials[attempts[a].trial].state \in Terminal THEN "STALE_ATTEMPT" ELSE "OK"

\* check_envelope, with the envelope of attempt a.
check_envelope(b, a) ==
  LET trial == trials[attempts[a].trial]
  IN  IF Current(b) # "OK" THEN Current(b)
      ELSE IF trial.state \in Terminal \/ trial.attempt # a THEN "STALE_ATTEMPT"
      ELSE IF attempts[a].boot # b THEN "STALE_WORKER"
      ELSE IF attempts[a].epoch # epoch THEN "STALE_EPOCH"
      ELSE IF attempts[a].state \notin Active THEN "STALE_ATTEMPT"
      ELSE "OK"

\* The calls about the assignment in hand.
Hand(b) == Head(proc[b].todo)
Refuse(b, code) == proc' = Answer(b, code, << >>) /\ UNCHANGED <<coordinator, faults, spare>>

\* publish_observation: the observation is taken, or refused for its value.
PublishObservation(b) ==
  LET a == Hand(b)
  IN  \/ /\ check_envelope(b, a) = "OK"
         /\ attempts' = [attempts EXCEPT ![a].observations = @ + 1, ![a].state = "RUNNING"]
         /\ trials' = [trials EXCEPT ![attempts[a].trial].state = "OBSERVING"]
         /\ proc' = Answer(b, "OK", << >>)
         /\ UNCHANGED <<epoch, live, workers, faults, spare>>
      \/ check_envelope(b, a) = "OK" /\ Refuse(b, "INVALID_OBSERVATION")
      \/ check_envelope(b, a) # "OK" /\ Refuse(b, check_envelope(b, a))

\* fail_trial: refused when the task's failure names no kind.  What run_once gives up has one.
FailTrial(b) ==
  LET a == Hand(b)
      t == attempts[a].trial
      retry_allowed == proc[b].retryable /\ trials[t].attempt_count < MaxAttempts
  IN  \/ /\ check_envelope(b, a) = "OK"
         /\ attempts' = [attempts EXCEPT ![a].state = "FAILED"]
         /\ trials' = [trials EXCEPT ![t].state = IF retry_allowed THEN "READY" ELSE "FAILED",
                                     ![t].attempt = IF retry_allowed THEN 0 ELSE @]
         /\ proc' = Answer(b, "OK", << >>)
         /\ UNCHANGED <<epoch, live, workers, faults, spare>>
      \/ check_envelope(b, a) = "OK" /\ proc[b].pc = "fail" /\ Refuse(b, "INVALID_ARGUMENT")
      \/ check_envelope(b, a) # "OK" /\ Refuse(b, check_envelope(b, a))

\* commit_trial: refused when the attempt has no observation, or for an artifact: its
\* locator, its identity or the limits on artifacts, which have one code here.
CommitTrial(b) ==
  LET a == Hand(b)
      code == IF check_envelope(b, a) # "OK" THEN check_envelope(b, a)
              ELSE IF attempts[a].observations = 0 THEN "INSUFFICIENT_EVIDENCE" ELSE "OK"
  IN  \/ /\ code = "OK"
         /\ attempts' = [attempts EXCEPT ![a].state = "COMPLETED"]
         /\ trials' = [trials EXCEPT ![attempts[a].trial].state = "COMPLETED"]
         /\ proc' = Answer(b, "OK", << >>)
         /\ UNCHANGED <<epoch, live, workers, faults, spare>>
      \/ code = "OK" /\ Refuse(b, "INVALID_ARGUMENT")
      \/ code # "OK" /\ Refuse(b, code)

\* The server reads the request of a connection that is open and handles it.
Handle(b) ==
  /\ proc[b].pc \in Calls /\ proc[b].connected /\ proc[b].reply = None
  /\ \/ proc[b].pc = "register" /\ RegisterWorker(b)
     \/ proc[b].pc = "claim" /\ ClaimTrials(b)
     \/ proc[b].pc = "publish" /\ PublishObservation(b)
     \/ proc[b].pc \in {"fail", "give_up"} /\ FailTrial(b)
     \/ proc[b].pc = "commit" /\ CommitTrial(b)

-----------------------------------------------------------------------------
(***************************************************************************)
(* The worker process.                                                     *)
(***************************************************************************)

\* How the outstanding call can return: with the reply, or, on a broken connection, with
\* a code of the transport.
Returns(b) ==
  IF proc[b].reply # None THEN {proc[b].reply}
  ELSE IF proc[b].connected THEN {}
  ELSE {[code |-> "TRANSPORT_FAILURE", given |-> << >>]}

\* What is left of a process that ended is what it counted.
Gone(b) ==
  [Off EXCEPT !.pc = "ended", !.owner = proc[b].owner, !.published = proc[b].published,
              !.connected = proc[b].connected]

Becomes(b, process) == proc' = [proc EXCEPT ![b] = process] /\ UNCHANGED <<coordinator, faults, spare>>

\* The registration succeeded.  The first one is followed by run_once, a later one by the
\* head of the loop.
Registered(b) ==
  [proc[b] EXCEPT !.reply = None, !.epoch = epoch, !.pc = IF proc[b].epoch = 0 THEN "claim" ELSE "loop"]

\* RegisterReturns with a mistake: the status inside the reply is not looked at.
RegisterAssumed(b) ==
  /\ proc[b].pc = "register"
  /\ \E r \in Returns(b) : Becomes(b, IF proc[b].reply = None THEN Gone(b) ELSE Registered(b))

\* connect_and_register.
RegisterReturns(b) ==
  /\ proc[b].pc = "register"
  /\ \E r \in Returns(b) : Becomes(b, IF r.code = "OK" THEN Registered(b) ELSE Gone(b))

\* The head of run_until_idle, with stop not set.
Loop(b) ==
  /\ proc[b].pc = "loop"
  /\ Becomes(b, [proc[b] EXCEPT !.pc = IF proc[b].epoch = 0 THEN "register" ELSE "claim"])

\* run_once after claim_trials, and what run_until_idle makes of its failure.
ClaimReturns(b) ==
  /\ proc[b].pc = "claim"
  /\ \E r \in Returns(b) :
       \/ /\ r.code = "OK" /\ r.given # << >>
          /\ Becomes(b, [proc[b] EXCEPT !.reply = None, !.todo = r.given, !.pc = "task"])
       \/ /\ r.code \in {"STALE_EPOCH", "STALE_WORKER"}
          /\ Becomes(b, [proc[b] EXCEPT !.reply = None, !.pc = "register"])
       \/ /\ r.code \notin {"STALE_EPOCH", "STALE_WORKER"} /\ (r.code = "OK" => r.given = << >>)
          /\ Becomes(b, Gone(b))

\* The call that follows when n observations are left to publish.
AfterPublishing(n, unassigned) ==
  IF n > 0 THEN "publish" ELSE IF unassigned THEN "give_up" ELSE "commit"

\* The task of the first assignment runs.  It fails, or yields n observations and perhaps
\* one for a metric that was not assigned.
RunTask(b) ==
  /\ proc[b].pc = "task"
  /\ \/ \E retryable \in BOOLEAN :
          Becomes(b, [proc[b] EXCEPT !.pc = "fail", !.retryable = retryable])
     \/ \E n \in 0 .. MaxObservations, unassigned \in BOOLEAN :
          Becomes(b, [proc[b] EXCEPT !.pc = AfterPublishing(n, unassigned), !.left = n,
                                     !.unassigned = unassigned, !.retryable = FALSE])

\* NextAssignment with a mistake: an assignment that ends, ends the batch.
BatchDropped(process) ==
  [process EXCEPT !.reply = None, !.todo = << >>, !.left = 0, !.unassigned = FALSE, !.retryable = FALSE,
                  !.pc = "loop"]

\* The rest of the assignments, or the next cycle.
NextAssignment(process) ==
  [process EXCEPT !.reply = None, !.todo = Tail(@), !.left = 0, !.unassigned = FALSE, !.retryable = FALSE,
                  !.pc = IF Len(process.todo) = 1 THEN "loop" ELSE "task"]

PublishReturns(b) ==
  /\ proc[b].pc = "publish"
  /\ \E r \in Returns(b) :
       Becomes(b, [proc[b] EXCEPT
         !.reply = None,
         !.left = @ - 1,
         !.pc = IF r.code = "OK" THEN AfterPublishing(proc[b].left - 1, proc[b].unassigned) ELSE "give_up"])

\* What the process was refused by reply r for what it said.
Refused(b, r) == proc[b].refused \cup (IF r.code \in ContentRefusals THEN {Hand(b)} ELSE {})

\* run_once goes on with the next assignment whatever fail_trial returned.
FailReturns(b) ==
  /\ proc[b].pc \in {"fail", "give_up"}
  /\ \E r \in Returns(b) :
       Becomes(b, NextAssignment([proc[b] EXCEPT !.refused = Refused(b, r)]))

\* CommitReturns with a mistake: every commit that returns is counted.
CommitCounted(b) ==
  /\ proc[b].pc = "commit"
  /\ \E r \in Returns(b) : Becomes(b, NextAssignment([proc[b] EXCEPT !.published = @ + 1]))

CommitReturns(b) ==
  /\ proc[b].pc = "commit"
  /\ \E r \in Returns(b) :
       Becomes(b, NextAssignment(IF r.code = "OK"
                                 THEN [proc[b] EXCEPT !.published = @ + 1]
                                 ELSE [proc[b] EXCEPT !.refused = Refused(b, r)]))

WorkerStep(b) ==
  \/ RegisterReturns(b) \/ Loop(b) \/ ClaimReturns(b) \/ RunTask(b)
  \/ PublishReturns(b) \/ FailReturns(b) \/ CommitReturns(b)

-----------------------------------------------------------------------------
(***************************************************************************)
(* Operators and faults.                                                   *)
(***************************************************************************)
Started == {b \in Boots : proc[b].pc # "off"}
Unfinished == {t \in Trials : trials[t].state \notin Terminal}

Create(b, w) ==
  /\ b = Cardinality(Started) + 1
  /\ proc' = [proc EXCEPT ![b] = [Off EXCEPT !.pc = "register", !.owner = w, !.connected = TRUE]]

\* The workers whose processes left an attempt open.
Holders == {proc[attempts[a].boot].owner : a \in {o \in DOMAIN attempts : attempts[o].state \in Active}}

\* A process is started while there is work and none is running, of a worker that holds an
\* attempt if there is one: nobody else can have it.
Start ==
  /\ Unfinished # {} /\ \A b \in Started : ~Running(b)
  /\ \E b \in Boots, w \in IF Holders = {} THEN {Usual} ELSE Holders : Create(b, w)
  /\ UNCHANGED <<coordinator, faults, spare>>

Fault == faults < MaxFaults /\ faults' = faults + 1 /\ UNCHANGED spare

\* A process is started beside others, perhaps in place of one that is only slow.
StartAnother ==
  /\ spare < MaxSpare /\ spare' = spare + 1
  /\ \E b \in Started : Running(b)
  /\ \E b \in Boots, w \in Workers : Create(b, w)
  /\ UNCHANGED <<coordinator, faults>>

Stop(b) ==
  /\ Fault /\ proc[b].pc = "loop"
  /\ proc' = [proc EXCEPT ![b] = Gone(b)]
  /\ UNCHANGED coordinator

Die(b) ==
  /\ Fault /\ Running(b)
  /\ proc' = [proc EXCEPT ![b] = [Gone(b) EXCEPT !.connected = FALSE]]
  /\ UNCHANGED coordinator

\* The connection breaks; a reply on its way is lost, or still read.
Break(b) ==
  /\ Fault /\ Running(b) /\ proc[b].connected
  /\ \E reply \in {proc[b].reply, None} :
       proc' = [proc EXCEPT ![b].connected = FALSE, ![b].reply = reply]
  /\ UNCHANGED coordinator

\* The coordinator ends and is created again from its durable state, under a new epoch.
Restart ==
  /\ Fault
  /\ epoch' = epoch + 1
  /\ live' = [b \in Boots |-> "none"]
  /\ Abandoned(Boots)
  /\ proc' = [b \in Boots |-> [proc[b] EXCEPT !.connected = FALSE, !.reply = None]]
  /\ UNCHANGED workers

Next ==
  \/ \E b \in Boots : Handle(b) \/ WorkerStep(b) \/ Stop(b) \/ Die(b) \/ Break(b)
  \/ Start \/ StartAnother \/ Restart

\* As long as some process can go on, or the server can answer one, some step of them is
\* taken; and while there is work somebody starts a process of a worker that can take it:
\* the coordinator has no lease that would run out, so a worker that holds an attempt and
\* never returns keeps it.
Fairness ==
  /\ WF_vars(\E b \in Boots : Handle(b) \/ WorkerStep(b))
  /\ WF_vars(Start)

Spec == Init /\ [][Next]_vars /\ Fairness

-----------------------------------------------------------------------------
(***************************************************************************)
(* Properties.                                                             *)
(***************************************************************************)
Of(b, states) == {a \in DOMAIN attempts : attempts[a].boot = b /\ attempts[a].state \in states}

\* A trial has one result: whatever processes were replaced, restarted or still at work
\* on an attempt that was taken from them, at most one attempt of a trial completes, it is
\* the trial's own attempt, and then no other attempt is open.
OneResult ==
  \A a \in DOMAIN attempts : attempts[a].state = "COMPLETED" =>
    /\ trials[attempts[a].trial] = [trials[attempts[a].trial] EXCEPT !.state = "COMPLETED", !.attempt = a]
    /\ \A o \in DOMAIN attempts \ {a} :
         attempts[o].trial = attempts[a].trial => attempts[o].state \notin Active \cup {"COMPLETED"}

\* published_trials never counts a trial that did not complete; it misses one only when
\* the reply to the commit is still to come, or was lost with the connection or the
\* process.
PublishedIsCompleted ==
  \A b \in Boots :
    /\ proc[b].published <= Cardinality(Of(b, {"COMPLETED"}))
    /\ proc[b].connected =>
         proc[b].published = Cardinality(Of(b, {"COMPLETED"})) - (IF proc[b].pc = "commit" /\ proc[b].reply # None
                                                                     /\ proc[b].reply.code = "OK" THEN 1 ELSE 0)

\* An assignment is never forgotten by a process whose connection holds: an open attempt
\* of it is in the reply to its claim or in its hands, whatever became of the assignments
\* before it in the batch; or the coordinator refused what was said of it: a commit without
\* an observation or with an artifact it does not take, or a failure of no kind.  After
\* such a refusal run_once goes on and the attempt stays open.
NothingForgotten ==
  \A b \in Boots : Running(b) /\ proc[b].connected =>
    \A a \in Of(b, Active) :
      \/ \E i \in DOMAIN proc[b].todo : proc[b].todo[i] = a
      \/ proc[b].reply # None /\ \E i \in DOMAIN proc[b].reply.given : proc[b].reply.given[i] = a
      \/ a \in proc[b].refused

\* An open attempt is the attempt of a trial at work and belongs to a process that is live
\* at the coordinator, which holds no more of them than it may; and a trial at work has an
\* open attempt.  When a worker is replaced or the coordinator restarts, nothing of the
\* process before stays open, and no trial waits for it.
OpenIsLive ==
  /\ \A a \in DOMAIN attempts : attempts[a].state \in Active =>
       /\ live[attempts[a].boot] = "live" /\ attempts[a].epoch = epoch
       /\ trials[attempts[a].trial].attempt = a
       /\ trials[attempts[a].trial].state \in {"ASSIGNED", "OBSERVING"}
  /\ \A t \in Trials : trials[t].state \in {"ASSIGNED", "OBSERVING"} =>
       attempts[trials[t].attempt].state \in Active
  /\ \A b \in Boots : Cardinality(Of(b, Active)) <= Concurrency

\* run_until_idle returns, in every process: one that is told it is stale is refused when
\* it registers again, and trials that fail are not retried for ever.
RunsEnd == <>[](\A b \in Boots : ~Running(b))

\* Every trial ends, even when the reply to a claim is lost or a commit is refused, since
\* the next process of the worker replaces the one before.  The instance has a process
\* for every fault and for every attempt, and max_registered_workers is not reached.
TrialsEnd == <>(Unfinished = {})
=============================================================================
