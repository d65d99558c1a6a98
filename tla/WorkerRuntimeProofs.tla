------------------------- MODULE WorkerRuntimeProofs -------------------------
(***************************************************************************)
(* The safety properties of module WorkerRuntime hold for every number of  *)
(* workers, processes, trials, attempts and faults.                        *)
(*                                                                         *)
(* The invariant has a part about the coordinator's records alone, and one *)
(* about each process: what it has in hand, what its last reply means, and *)
(* what it has counted.  A step of a process changes that process only; a  *)
(* step of the coordinator may take work away from any process, and gives  *)
(* work to the one that asked.                                             *)
(***************************************************************************)
EXTENDS WorkerRuntime, FiniteSetTheorems, TLAPS

Reply == [code : Codes, given : Seq(Nat)]

Process ==
  [pc : Calls \cup {"off", "task", "loop", "ended"}, owner : Workers, epoch : Nat,
   connected : BOOLEAN, reply : Reply \cup {None}, todo : Seq(Nat), left : Int,
   unassigned : BOOLEAN, retryable : BOOLEAN, published : Nat, refused : SUBSET Nat]

Attempt ==
  [trial : Trials, boot : Boots, epoch : Nat, observations : Nat,
   state : Active \cup {"COMPLETED", "FAILED", "ABANDONED"}]

Trial ==
  [state : {"READY", "ASSIGNED", "OBSERVING"} \cup Terminal, attempt : Nat, attempt_count : Nat]

\* The variables the properties speak of have their types.
RuntimeType ==
  /\ epoch \in Nat
  /\ live \in [Boots -> {"none", "live", "revoked"}]
  /\ trials \in [Trials -> Trial]
  /\ attempts \in Seq(Attempt)
  /\ proc \in [Boots -> Process]

-----------------------------------------------------------------------------
\* An open attempt and a trial at work belong to each other, and the process of the
\* attempt is live.
OpenMatched ==
  /\ \A a \in DOMAIN attempts : attempts[a].state \in Active =>
       /\ live[attempts[a].boot] = "live" /\ attempts[a].epoch = epoch
       /\ trials[attempts[a].trial].attempt = a
       /\ trials[attempts[a].trial].state \in {"ASSIGNED", "OBSERVING"}
  /\ \A t \in Trials : trials[t].state \in {"ASSIGNED", "OBSERVING"} =>
       /\ trials[t].attempt \in DOMAIN attempts
       /\ attempts[trials[t].attempt].trial = t
       /\ attempts[trials[t].attempt].state \in Active
  /\ \A t \in Trials : trials[t].state = "READY" => trials[t].attempt = 0

\* A completed attempt is the result of its trial.
ResultKept ==
  \A a \in DOMAIN attempts : attempts[a].state = "COMPLETED" =>
    trials[attempts[a].trial].attempt = a /\ trials[attempts[a].trial].state = "COMPLETED"

\* No process has more open attempts than it may.
WithinConcurrency == \A b \in Boots : Cardinality(Of(b, Active)) <= Concurrency

\* Processes are started in the order of their boot identities, and only a process that
\* was started has attempts.
StartedInOrder ==
  /\ \A b \in Started : \A c \in 1 .. b : c \in Started
  /\ \A a \in DOMAIN attempts : attempts[a].boot \in Started

-----------------------------------------------------------------------------
AtWork == {"task", "publish", "fail", "give_up", "commit"}

\* p has a commit that was answered with success and is not counted yet.
Due(p) == IF p.pc = "commit" /\ p.reply # None /\ p.reply.code = "OK" THEN 1 ELSE 0

\* What p has in hand and was given are attempts; it has something in hand exactly while
\* it is at work on it, and a reply only inside a call.  Only a claim gives anything.
HandsFit(p) ==
  /\ \A i \in DOMAIN p.todo : p.todo[i] \in DOMAIN attempts
  /\ p.pc \in AtWork => p.todo # << >>
  /\ p.pc \in {"register", "claim", "loop"} => p.todo = << >>
  /\ p.pc \notin Calls => p.reply = None
  /\ p.reply # None =>
       /\ \A i \in DOMAIN p.reply.given : p.reply.given[i] \in DOMAIN attempts
       /\ p.pc # "claim" \/ p.reply.code # "OK" => p.reply.given = << >>

\* What a reply means for the attempt in hand, when p is the process of boot b: after
\* fail_trial and commit_trial it is not open, unless they were refused for what they said.
RepliesFit(b, p) ==
  p.reply # None /\ p.pc \in {"fail", "give_up", "commit"} =>
    Head(p.todo) \notin Of(b, Active) \/ p.reply.code \in ContentRefusals

\* Where the open attempts of b are, as long as its connection holds.
Remembers(b, p) ==
  p.pc \notin {"off", "ended"} /\ p.connected =>
    \A a \in Of(b, Active) :
      \/ \E i \in DOMAIN p.todo : p.todo[i] = a
      \/ p.reply # None /\ \E i \in DOMAIN p.reply.given : p.reply.given[i] = a
      \/ a \in p.refused

\* What p has counted.
CountFits(b, p) ==
  /\ p.published + Due(p) <= Cardinality(Of(b, {"COMPLETED"}))
  /\ p.connected => p.published + Due(p) = Cardinality(Of(b, {"COMPLETED"}))

\* The process p of boot b fits the coordinator's records.  A process with an open attempt
\* knows the epoch it was issued in.
Fits(b, p) ==
  /\ HandsFit(p) /\ RepliesFit(b, p) /\ Remembers(b, p) /\ CountFits(b, p)
  /\ p.pc \notin {"off", "ended"} /\ Of(b, Active) # {} => p.epoch = epoch
  /\ p.pc = "off" => p.published = 0 /\ ~p.connected

RuntimeInv ==
  /\ RuntimeType /\ OpenMatched /\ ResultKept /\ WithinConcurrency /\ StartedInOrder
  /\ \A b \in Boots : Fits(b, proc[b])

-----------------------------------------------------------------------------
(***************************************************************************)
(* Sequences and counts.                                                   *)
(***************************************************************************)

\* The positions that a list of L gains when n members are added.
LEMMA AddedPositions ==
  ASSUME NEW L, L \in Nat, NEW n, n \in Nat
  PROVE  /\ \A a \in 1 .. L + n : a \in 1 .. L \/ \E i \in 1 .. n : a = L + i
         /\ \A i \in 1 .. n : L + i \in 1 .. L + n /\ L + i \notin 1 .. L
         /\ 1 .. L \subseteq 1 .. L + n
         /\ IsFiniteSet(L + 1 .. L + n) /\ Cardinality(L + 1 .. L + n) = n
<1>1. ASSUME NEW a \in 1 .. L + n PROVE a \in 1 .. L \/ \E i \in 1 .. n : a = L + i
  <2>1. CASE a <= L
    BY <2>1
  <2>2. CASE a > L
    <3>1. a - L \in 1 .. n /\ a = L + (a - L)
      BY <2>2
    <3> QED BY ZenonT(60), <3>1
  <2> QED BY <2>1, <2>2
<1>2. \A i \in 1 .. n : L + i \in 1 .. L + n /\ L + i \notin 1 .. L
  OBVIOUS
<1>3. 1 .. L \subseteq 1 .. L + n
  OBVIOUS
<1>4. IsFiniteSet(L + 1 .. L + n) /\ Cardinality(L + 1 .. L + n) = n
  <2>1. L + 1 \in Int /\ L + n \in Int
    OBVIOUS
  <2>2. /\ IsFiniteSet(L + 1 .. L + n)
        /\ Cardinality(L + 1 .. L + n) = IF L + 1 > L + n THEN 0 ELSE (L + n) - (L + 1) + 1
    BY ZenonT(60), <2>1, FS_Interval
  <2> QED BY <2>2
<1> QED BY ZenonT(60), <1>1, <1>2, <1>3, <1>4

\* The bounds are numbers.
LEMMA Bounds ==
  /\ MaxBoots \in Nat /\ MaxTrial \in Nat /\ MaxAttempts \in Nat /\ Concurrency \in Nat
  /\ MaxObservations \in Nat /\ Boots \subseteq Nat /\ Trials \subseteq Nat \ {0}
BY ConstantsAssumption DEF Boots, Trials

\* A set of positions of a sequence is finite.
LEMMA FinitePositions ==
  ASSUME NEW S, NEW s \in Seq(S), NEW P \in SUBSET DOMAIN s
  PROVE  IsFiniteSet(P) /\ Cardinality(P) \in Nat
<1>1. DOMAIN s = 1 .. Len(s) /\ Len(s) \in Nat
  OBVIOUS
<1>2. IsFiniteSet(1 .. Len(s))
  BY <1>1, FS_Interval
<1>3. IsFiniteSet(P)
  BY <1>1, <1>2, FS_Subset
<1> QED BY <1>3, FS_CardinalityType

\* The attempts of a process, and how many they are.
LEMMA OfFinite ==
  ASSUME RuntimeType, NEW c, NEW S
  PROVE  Of(c, S) \subseteq DOMAIN attempts /\ IsFiniteSet(Of(c, S)) /\ Cardinality(Of(c, S)) \in Nat
BY ZenonT(60), FinitePositions DEF RuntimeType, Of

\* Two sequences one after the other.
LEMMA Joined ==
  ASSUME NEW S, NEW s \in Seq(S), NEW u \in Seq(S)
  PROVE  /\ s \o u \in Seq(S) /\ Len(s \o u) = Len(s) + Len(u)
         /\ \A i \in 1 .. Len(s) + Len(u) : (s \o u)[i] = IF i <= Len(s) THEN s[i] ELSE u[i - Len(s)]
OBVIOUS

\* Only the empty sequence has length 0.
LEMMA EmptyIsShort ==
  ASSUME NEW S, NEW u \in Seq(S)
  PROVE  u = << >> <=> Len(u) = 0
<1>1. u = << >> => Len(u) = 0
  OBVIOUS
<1>2. ASSUME Len(u) = 0 PROVE u = << >>
  <2>1. u \in [{} -> S]
    BY <1>2
  <2>2. << >> \in [{} -> S]
    OBVIOUS
  <2> QED BY <2>1, <2>2
<1> QED BY <1>1, <1>2

\* A count that has room for what is due has room for less.
LEMMA LessIsDue ==
  ASSUME NEW n \in Nat, NEW k \in Nat, NEW d \in Nat, NEW e \in Nat, e <= d, k + d <= n
  PROVE  k + e <= n
OBVIOUS

\* What fits in the slots that are left fits beside what takes the others.
LEMMA SlotsLeft ==
  ASSUME NEW n \in Nat, NEW c \in Nat, NEW k \in Nat, NEW s, s = k - c, n <= s
  PROVE  n + c <= k
OBVIOUS

\* The size of a part of a union of two sets.
LEMMA UnionFits ==
  ASSUME NEW b \in Nat, NEW a \in Nat, NEW f, NEW i \in Nat, NEW u, NEW n \in Nat, NEW k \in Nat,
         f = n, u = a + f - i, b <= u, n + a <= k
  PROVE  b <= k
OBVIOUS

\* What is left of a sequence without its head.
LEMMA TailOf ==
  ASSUME NEW s \in Seq(Nat), s # << >>
  PROVE  /\ Tail(s) \in Seq(Nat) /\ Len(s) \in Nat \ {0} /\ Len(Tail(s)) = Len(s) - 1
         /\ \A i \in DOMAIN Tail(s) : i + 1 \in DOMAIN s /\ Tail(s)[i] = s[i + 1]
         /\ \A i \in DOMAIN s : i = 1 \/ (i - 1 \in DOMAIN Tail(s) /\ Tail(s)[i - 1] = s[i])
         /\ Head(s) = s[1]
         /\ Len(s) = 1 <=> Tail(s) = << >>
<1> DEFINE u == Tail(s)
           h == Head(s)
           n == Len(s)
           m == Len(u)
<1>1. n \in Nat \ {0} /\ DOMAIN s = 1 .. n
  OBVIOUS
<1>2. u \in Seq(Nat) /\ m = n - 1 /\ h = s[1]
  OBVIOUS
<1>3. DOMAIN u = 1 .. n - 1 /\ (u = << >> <=> m = 0)
  <2> HIDE DEF u, n
  <2>1. DOMAIN u = 1 .. m
    BY <1>2
  <2>2. u = << >> <=> m = 0
    BY ZenonT(60), <1>2, EmptyIsShort DEF m
  <2> QED BY <1>2, <2>1, <2>2
<1>4. \A i \in 1 .. n - 1 : u[i] = s[i + 1]
  OBVIOUS
<1> HIDE DEF u, h, n, m
<1>5. n = 1 <=> u = << >>
  BY <1>1, <1>2, <1>3
<1>6. \A i \in DOMAIN u : i + 1 \in DOMAIN s /\ u[i] = s[i + 1]
  <2> SUFFICES ASSUME NEW i \in 1 .. n - 1 PROVE i + 1 \in 1 .. n /\ u[i] = s[i + 1]
    BY ZenonT(60), <1>1, <1>3
  <2>1. i + 1 \in 1 .. n
    BY <1>1
  <2> QED BY <1>4, <2>1
<1>7. \A i \in DOMAIN s : i = 1 \/ (i - 1 \in DOMAIN u /\ u[i - 1] = s[i])
  <2> SUFFICES ASSUME NEW i \in 1 .. n, i # 1 PROVE i - 1 \in 1 .. n - 1 /\ u[i - 1] = s[i]
    BY <1>1, <1>3
  <2>1. i - 1 \in 1 .. n - 1 /\ (i - 1) + 1 = i
    BY <1>1
  <2>2. u[i - 1] = s[(i - 1) + 1]
    BY <1>4, <2>1
  <2> QED BY <2>1, <2>2
<1> QED BY ZenonT(60), <1>1, <1>2, <1>5, <1>6, <1>7 DEF u, h, n, m

\* The positions of a sequence, and a sequence with one element replaced.
LEMMA Replaced ==
  ASSUME NEW S, NEW s \in Seq(S), NEW i \in DOMAIN s, NEW x \in S
  PROVE  /\ [s EXCEPT ![i] = x] \in Seq(S) /\ DOMAIN [s EXCEPT ![i] = x] = DOMAIN s
<1>1. s \in [1 .. Len(s) -> S] /\ Len(s) \in Nat
  OBVIOUS
<1>2. [s EXCEPT ![i] = x] \in [1 .. Len(s) -> S]
  BY <1>1
<1> QED BY <1>1, <1>2

-----------------------------------------------------------------------------
(***************************************************************************)
(* A step of one process, which leaves the coordinator's records alone.    *)
(***************************************************************************)

\* The processes fit the records as they are, and the records stay.
LEMMA SameRecords ==
  ASSUME RuntimeInv, UNCHANGED coordinator, proc' \in [Boots -> Process], StartedInOrder',
         \A c \in Boots : Fits(c, proc'[c])
  PROVE  RuntimeInv'
<1>1. /\ epoch' = epoch /\ live' = live /\ trials' = trials /\ attempts' = attempts
  BY DEF coordinator
<1>2. RuntimeType'
  BY ZenonT(60), <1>1 DEF RuntimeInv, RuntimeType
<1>3. OpenMatched' /\ ResultKept'
  BY <1>1 DEF RuntimeInv, OpenMatched, ResultKept
<1>4. \A c, S : Of(c, S)' = Of(c, S)
  BY <1>1 DEF Of
<1>5. WithinConcurrency'
  BY <1>4 DEF RuntimeInv, WithinConcurrency
<1>6. ASSUME NEW c \in Boots PROVE Fits(c, proc[c])'
  <2>1. Fits(c, proc'[c])
    OBVIOUS
  <2>2. HandsFit(proc[c])'
    BY ZenonT(60), <1>1, <2>1 DEF Fits, HandsFit
  <2>3. RepliesFit(c, proc[c])'
    BY ZenonT(60), <1>1, <1>4, <2>1 DEF Fits, RepliesFit
  <2>4. Remembers(c, proc[c])'
    BY ZenonT(60), <1>1, <1>4, <2>1 DEF Fits, Remembers
  <2>5. CountFits(c, proc[c])'
    BY <1>4, <2>1 DEF Fits, CountFits, Due
  <2> QED BY ZenonT(60), <1>1, <1>4, <2>1, <2>2, <2>3, <2>4, <2>5 DEF Fits
<1> QED BY <1>2, <1>3, <1>5, <1>6 DEF RuntimeInv

\* A process that was started becomes p, and p fits.
LEMMA ProcessStep ==
  ASSUME RuntimeInv, NEW b \in Boots, NEW p \in Process, proc[b].pc # "off", p.pc # "off",
         Fits(b, p), proc' = [proc EXCEPT ![b] = p], UNCHANGED coordinator
  PROVE  RuntimeInv'
<1>1. proc' \in [Boots -> Process]
  BY DEF RuntimeInv, RuntimeType
<1>2. Started' = Started /\ attempts' = attempts
  BY DEF Started, RuntimeInv, RuntimeType, coordinator
<1>3. StartedInOrder'
  BY <1>2 DEF RuntimeInv, StartedInOrder
<1>4. ASSUME NEW c \in Boots PROVE Fits(c, proc'[c])
  BY DEF RuntimeInv, RuntimeType
<1> QED BY <1>1, <1>3, <1>4, SameRecords

\* A call returns with its reply, or with an error on a broken connection.
LEMMA CallReturns ==
  ASSUME RuntimeType, NEW b \in Boots, NEW r \in Returns(b)
  PROVE  /\ r \in Reply
         /\ \/ r = proc[b].reply /\ proc[b].reply # None
            \/ /\ proc[b].reply = None /\ ~proc[b].connected
               /\ r.given = << >> /\ r.code = "TRANSPORT_FAILURE"
<1>1. proc[b].reply \in Reply \cup {None}
  BY DEF RuntimeType, Process
<1>2. CASE proc[b].reply # None
  BY <1>1, <1>2 DEF Returns
<1>3. CASE proc[b].reply = None
  <2>1. ~proc[b].connected /\ r = [code |-> "TRANSPORT_FAILURE", given |-> << >>]
    BY <1>3 DEF Returns
  <2>2. r \in Reply
    BY <2>1 DEF Reply, Codes
  <2> QED BY ZenonT(60), <1>3, <2>1, <2>2
<1> QED BY ZenonT(60), <1>2, <1>3

\* A process that has no work in hand.
LEMMA Bare ==
  ASSUME NEW k \in {"ended", "register"}, NEW w \in Workers, NEW n \in Nat, NEW c \in BOOLEAN
  PROVE  /\ Off \in Process
         /\ [Off EXCEPT !.pc = k, !.owner = w, !.published = n, !.connected = c] \in Process
         /\ [Off EXCEPT !.pc = k, !.owner = w, !.connected = c] \in Process
<1>1. /\ k \in Calls \cup {"off", "task", "loop", "ended"} /\ None \in Reply \cup {None}
      /\ "off" \in Calls \cup {"off", "task", "loop", "ended"} /\ Usual \in Workers
      /\ << >> \in Seq(Nat) /\ 0 \in Nat /\ 0 \in Int /\ {} \in SUBSET Nat /\ FALSE \in BOOLEAN
  BY ConstantsAssumption DEF Calls
<1>2. Off \in Process
  BY ZenonT(30), <1>1 DEF Process, Off
<1> QED BY ZenonT(60), <1>1, <1>2 DEF Process

\* A process ends: what is left of it is what it counted.
LEMMA GoneFits ==
  ASSUME RuntimeInv, NEW b \in Boots, proc[b].pc # "off", NEW c \in BOOLEAN,
         c => proc[b].connected /\ Due(proc[b]) = 0,
         proc' = [proc EXCEPT ![b] = [Off EXCEPT !.pc = "ended", !.owner = proc[b].owner,
                                                 !.published = proc[b].published, !.connected = c]],
         UNCHANGED coordinator
  PROVE  RuntimeInv'
<1> DEFINE q == proc[b]
           p == [Off EXCEPT !.pc = "ended", !.owner = q.owner, !.published = q.published, !.connected = c]
<1>1. q \in Process /\ Fits(b, q)
  BY ZenonT(60) DEF RuntimeInv, RuntimeType
<1>2. q.owner \in Workers /\ q.published \in Nat
  BY ZenonT(60), <1>1 DEF Process
<1>3. /\ p.pc = "ended" /\ p.todo = << >> /\ p.reply = None /\ p.connected = c
      /\ p.published = q.published
  BY DEF Off
<1>4. p \in Process
  BY ZenonT(30), <1>2, Bare
<1> HIDE DEF p
<1>5. HandsFit(p)
  BY <1>3 DEF HandsFit, AtWork
<1>6. CountFits(b, p)
  <2> DEFINE m == Cardinality(Of(b, {"COMPLETED"}))
             d == Due(q)
             n == q.published
  <2>1. m \in Nat
    BY ZenonT(60), OfFinite DEF RuntimeInv
  <2>2. d \in Nat /\ Due(p) = 0
    BY ZenonT(60), <1>3 DEF Due
  <2>3. n + d <= m /\ (q.connected => n + d = m)
    BY ZenonT(60), <1>1 DEF Fits, CountFits
  <2>4. c => q.connected /\ d = 0
    OBVIOUS
  <2>5. n \in Nat
    BY <1>2
  <2> HIDE DEF m, d, n
  <2>6. n + 0 <= m /\ (c => n + 0 = m)
    BY <2>1, <2>2, <2>3, <2>4, <2>5
  <2> QED BY ZenonT(60), <1>3, <2>2, <2>6 DEF CountFits, m, n
<1>7. Fits(b, p)
  BY ZenonT(60), <1>3, <1>5, <1>6 DEF Fits, RepliesFit, Remembers
<1>8. proc' = [proc EXCEPT ![b] = p]
  BY ZenonT(60) DEF p
<1> QED BY ZenonT(60), <1>3, <1>4, <1>7, <1>8, ProcessStep

\* run_until_idle returns.
LEMMA ReturnFits ==
  ASSUME RuntimeInv, NEW b \in Boots, proc[b].pc \in {"register", "claim", "loop"}, Becomes(b, Gone(b))
  PROVE  RuntimeInv'
<1>1. proc[b].connected \in BOOLEAN
  BY ZenonT(60) DEF RuntimeInv, RuntimeType, Process
<1>2. Due(proc[b]) = 0 /\ proc[b].pc # "off"
  BY ZenonT(60) DEF Due
<1> QED BY ZenonT(60), <1>1, <1>2, GoneFits DEF Becomes, Gone

\* connect_and_register returns.
LEMMA RegisterReturnsFits ==
  ASSUME RuntimeInv, NEW b \in Boots, RegisterReturns(b)
  PROVE  RuntimeInv'
<1> DEFINE q == proc[b]
           k == IF q.epoch = 0 THEN "claim" ELSE "loop"
           p == [q EXCEPT !.reply = None, !.epoch = epoch, !.pc = k]
<1>1. q \in Process /\ q.pc = "register" /\ epoch \in Nat /\ Fits(b, q)
  BY ZenonT(60) DEF RuntimeInv, RuntimeType, RegisterReturns
<1>2. CASE Becomes(b, Gone(b))
  BY ZenonT(60), <1>1, <1>2, ReturnFits
<1>3. CASE Becomes(b, Registered(b))
  <2>1. k \in {"claim", "loop"}
    OBVIOUS
  <2>2. proc' = [proc EXCEPT ![b] = p] /\ UNCHANGED coordinator
    BY ZenonT(60), <1>3 DEF Becomes, Registered
  <2> HIDE DEF k
  <2>3. /\ p.pc = k /\ p.todo = q.todo /\ p.reply = None /\ p.connected = q.connected /\ p.epoch = epoch
        /\ p.refused = q.refused /\ p.published = q.published
    BY <1>1 DEF Process
  <2>4. p \in Process
    BY ZenonT(60), <1>1, <2>1 DEF Process, Calls
  <2> HIDE DEF p
  <2>5. Fits(b, p)
    <3>1. HandsFit(p)
      BY <1>1, <2>1, <2>3 DEF Fits, HandsFit, AtWork
    <3>2. RepliesFit(b, p)
      BY ZenonT(60), <2>3 DEF RepliesFit
    <3>3. Remembers(b, p)
      BY <1>1, <2>3 DEF Fits, HandsFit, Remembers
    <3>4. CountFits(b, p)
      BY ZenonT(60), <1>1, <2>1, <2>3 DEF Fits, CountFits, Due
    <3> QED BY ZenonT(60), <2>1, <2>3, <3>1, <3>2, <3>3, <3>4 DEF Fits
  <2> QED BY ZenonT(60), <1>1, <2>1, <2>2, <2>3, <2>4, <2>5, ProcessStep
<1> QED BY ZenonT(60), <1>2, <1>3 DEF RegisterReturns

\* The head of the loop.
LEMMA LoopFits ==
  ASSUME RuntimeInv, NEW b \in Boots, Loop(b)
  PROVE  RuntimeInv'
<1> DEFINE q == proc[b]
           k == IF q.epoch = 0 THEN "register" ELSE "claim"
           p == [q EXCEPT !.pc = k]
<1>1. q \in Process /\ q.pc = "loop" /\ Fits(b, q)
  BY DEF RuntimeInv, RuntimeType, Loop
<1>2. proc' = [proc EXCEPT ![b] = p] /\ UNCHANGED coordinator
  BY DEF Loop, Becomes
<1>3. k \in {"register", "claim"}
  OBVIOUS
<1> HIDE DEF k
<1>4. /\ p.pc = k /\ p.todo = q.todo /\ p.reply = q.reply /\ p.connected = q.connected
      /\ p.epoch = q.epoch /\ p.refused = q.refused /\ p.published = q.published
  BY <1>1 DEF Process
<1>5. p \in Process
  BY ZenonT(60), <1>1, <1>3 DEF Process, Calls
<1>6. q.reply = None
  BY <1>1 DEF Fits, HandsFit, Calls
<1>7. Fits(b, p)
  <2>1. HandsFit(p)
    BY <1>1, <1>3, <1>4, <1>6 DEF Fits, HandsFit, AtWork
  <2>2. RepliesFit(b, p)
    BY ZenonT(60), <1>4, <1>6 DEF RepliesFit
  <2>3. Remembers(b, p)
    BY <1>1, <1>4 DEF Fits, Remembers
  <2>4. CountFits(b, p)
    BY ZenonT(60), <1>1, <1>4, <1>6 DEF Fits, CountFits, Due
  <2> QED BY <1>1, <1>3, <1>4, <2>1, <2>2, <2>3, <2>4 DEF Fits
<1> HIDE DEF p
<1> QED BY ZenonT(60), <1>1, <1>2, <1>3, <1>4, <1>5, <1>7, ProcessStep

\* claim_trials returns.
LEMMA ClaimReturnsFits ==
  ASSUME RuntimeInv, NEW b \in Boots, ClaimReturns(b)
  PROVE  RuntimeInv'
<1> DEFINE q == proc[b]
<1>1. q \in Process /\ q.pc = "claim" /\ Fits(b, q)
  BY ZenonT(60) DEF RuntimeInv, RuntimeType, ClaimReturns
<1>2. CASE Becomes(b, Gone(b))
  BY ZenonT(60), <1>1, <1>2, ReturnFits
<1>3. ASSUME NEW r \in Returns(b), NEW k \in {"task", "register"},
             k = "task" => r.given # << >>, k = "register" => r.code # "OK",
             Becomes(b, [q EXCEPT !.reply = None, !.todo = r.given, !.pc = k])
      PROVE  RuntimeInv'
  <2> DEFINE p == [q EXCEPT !.reply = None, !.todo = r.given, !.pc = k]
  <2>1. proc' = [proc EXCEPT ![b] = p] /\ UNCHANGED coordinator
    BY ZenonT(60), <1>3 DEF Becomes
  <2>2. /\ r \in Reply
        /\ \/ r = q.reply /\ q.reply # None
           \/ q.reply = None /\ ~q.connected /\ r.given = << >>
    BY ZenonT(60), <1>3, CallReturns DEF RuntimeInv
  <2>3. /\ p.pc = k /\ p.todo = r.given /\ p.reply = None /\ p.connected = q.connected
        /\ p.epoch = q.epoch /\ p.refused = q.refused /\ p.published = q.published
    BY <1>1 DEF Process
  <2>4. p \in Process
    BY ZenonT(60), <1>1, <1>3, <2>2 DEF Process, Calls, Reply
  <2> HIDE DEF p
  <2>5. HandsFit(p)
    <3>1. \A i \in DOMAIN r.given : r.given[i] \in DOMAIN attempts
      BY <1>1, <2>2 DEF Fits, HandsFit
    <3>2. k = "register" => r.given = << >>
      BY ZenonT(60), <1>1, <1>3, <2>2 DEF Fits, HandsFit
    <3> QED BY <1>3, <2>3, <3>1, <3>2 DEF HandsFit, AtWork
  <2>6. RepliesFit(b, p)
    BY ZenonT(60), <2>3 DEF RepliesFit
  <2>7. Remembers(b, p)
    <3> SUFFICES ASSUME q.connected, NEW a \in Of(b, Active)
                 PROVE  (\E i \in DOMAIN r.given : r.given[i] = a) \/ a \in q.refused
      BY ZenonT(60), <2>3 DEF Remembers
    <3>1. q.todo = << >> /\ q.reply = r
      BY ZenonT(60), <1>1, <2>2 DEF Fits, HandsFit
    <3> QED BY <1>1, <3>1 DEF Fits, Remembers
  <2>8. CountFits(b, p)
    BY ZenonT(60), <1>1, <1>3, <2>3 DEF Fits, CountFits, Due
  <2>9. Fits(b, p)
    BY ZenonT(60), <1>1, <1>3, <2>3, <2>5, <2>6, <2>7, <2>8 DEF Fits
  <2> QED BY ZenonT(60), <1>1, <1>3, <2>1, <2>3, <2>4, <2>9, ProcessStep
<1>4. ASSUME NEW r \in Returns(b), r.code \in {"STALE_EPOCH", "STALE_WORKER"},
             Becomes(b, [q EXCEPT !.reply = None, !.pc = "register"])
      PROVE  RuntimeInv'
  <2>1. r.given = << >>
    BY ZenonT(60), <1>1, <1>4, CallReturns DEF RuntimeInv, Fits, HandsFit
  <2>2. q.todo = << >>
    BY ZenonT(60), <1>1 DEF Fits, HandsFit
  <2>3. [q EXCEPT !.reply = None, !.pc = "register"] =
          [q EXCEPT !.reply = None, !.todo = r.given, !.pc = "register"]
    BY ZenonT(60), <1>1, <2>1, <2>2 DEF Process
  <2>4. r.code # "OK"
    BY <1>4
  <2> QED BY ZenonT(60), <1>3, <1>4, <2>3, <2>4
<1>5. ASSUME NEW r \in Returns(b), r.given # << >>,
             Becomes(b, [q EXCEPT !.reply = None, !.todo = r.given, !.pc = "task"])
      PROVE  RuntimeInv'
  BY ZenonT(60), <1>3, <1>5
<1> QED BY ZenonT(60), <1>2, <1>4, <1>5 DEF ClaimReturns

\* A process that stays at work on the assignment in hand, with no reply, fits.
LEMMA StaysAtWork ==
  ASSUME RuntimeInv, NEW b \in Boots, NEW p \in Process,
         proc[b].pc \in {"task", "publish"}, p.pc \in {"publish", "fail", "give_up", "commit"},
         p.todo = proc[b].todo, p.reply = None, p.connected = proc[b].connected,
         p.epoch = proc[b].epoch, p.refused = proc[b].refused, p.published = proc[b].published,
         proc' = [proc EXCEPT ![b] = p], UNCHANGED coordinator
  PROVE  RuntimeInv'
<1>1. Fits(b, proc[b])
  BY DEF RuntimeInv
<1>2. HandsFit(p)
  BY <1>1 DEF Fits, HandsFit, AtWork
<1>3. RepliesFit(b, p)
  BY DEF RepliesFit
<1>4. Remembers(b, p)
  <2> SUFFICES ASSUME p.connected, NEW a \in Of(b, Active)
               PROVE  \/ \E i \in DOMAIN p.todo : p.todo[i] = a
                      \/ a \in p.refused
    BY ZenonT(60) DEF Remembers
  <2>1. proc[b].reply # None => proc[b].reply.given = << >>
    BY <1>1 DEF Fits, HandsFit
  <2>2. proc[b].pc \notin {"off", "ended"}
    BY ZenonT(60)
  <2> QED BY <1>1, <2>1, <2>2 DEF Fits, Remembers
<1>5. CountFits(b, p)
  BY ZenonT(60), <1>1 DEF Fits, CountFits, Due
<1>6. Fits(b, p)
  BY ZenonT(60), <1>1, <1>2, <1>3, <1>4, <1>5 DEF Fits
<1> QED BY ZenonT(60), <1>6, ProcessStep

\* The task runs.
LEMMA RunTaskFits ==
  ASSUME RuntimeInv, NEW b \in Boots, RunTask(b)
  PROVE  RuntimeInv'
<1> DEFINE q == proc[b]
<1>1. q \in Process /\ q.pc = "task" /\ q.reply = None
  BY ZenonT(60) DEF RuntimeInv, RuntimeType, RunTask, Fits, HandsFit, Calls
<1>2. ASSUME NEW k \in {"publish", "fail", "give_up", "commit"}, NEW n \in Int,
             NEW u \in BOOLEAN, NEW v \in BOOLEAN,
             Becomes(b, [q EXCEPT !.pc = k, !.left = n, !.unassigned = u, !.retryable = v])
      PROVE  RuntimeInv'
  <2> DEFINE p == [q EXCEPT !.pc = k, !.left = n, !.unassigned = u, !.retryable = v]
  <2>1. p \in Process
    BY ZenonT(60), <1>1 DEF Process, Calls
  <2>2. /\ p.pc = k /\ p.todo = q.todo /\ p.reply = None /\ p.connected = q.connected
        /\ p.epoch = q.epoch /\ p.refused = q.refused /\ p.published = q.published
    BY <1>1 DEF Process
  <2>3. proc' = [proc EXCEPT ![b] = p] /\ UNCHANGED coordinator
    BY <1>2 DEF Becomes
  <2> HIDE DEF p
  <2> QED BY ZenonT(60), <1>1, <2>1, <2>2, <2>3, StaysAtWork
<1>3. CASE \E retryable \in BOOLEAN : Becomes(b, [q EXCEPT !.pc = "fail", !.retryable = retryable])
  <2>1. PICK v \in BOOLEAN : Becomes(b, [q EXCEPT !.pc = "fail", !.retryable = v])
    BY ZenonT(60), <1>3
  <2>2. /\ [q EXCEPT !.pc = "fail", !.retryable = v] =
             [q EXCEPT !.pc = "fail", !.left = q.left, !.unassigned = q.unassigned, !.retryable = v]
        /\ q.left \in Int /\ q.unassigned \in BOOLEAN
    BY ZenonT(60), <1>1 DEF Process
  <2> QED BY ZenonT(60), <1>2, <2>1, <2>2
<1>4. CASE \E n \in 0 .. MaxObservations, unassigned \in BOOLEAN :
             Becomes(b, [q EXCEPT !.pc = AfterPublishing(n, unassigned), !.left = n,
                                  !.unassigned = unassigned, !.retryable = FALSE])
  <2>1. PICK n \in 0 .. MaxObservations, u \in BOOLEAN :
             Becomes(b, [q EXCEPT !.pc = AfterPublishing(n, u), !.left = n,
                                  !.unassigned = u, !.retryable = FALSE])
    BY ZenonT(60), <1>4
  <2>2. AfterPublishing(n, u) \in {"publish", "give_up", "commit"} /\ n \in Int
    BY Bounds DEF AfterPublishing
  <2> QED BY ZenonT(60), <1>2, <2>1, <2>2
<1> QED BY ZenonT(60), <1>3, <1>4 DEF RunTask

\* publish_observation returns.
LEMMA PublishReturnsFits ==
  ASSUME RuntimeInv, NEW b \in Boots, PublishReturns(b)
  PROVE  RuntimeInv'
<1> DEFINE q == proc[b]
<1>1. q \in Process /\ q.pc = "publish"
  BY DEF RuntimeInv, RuntimeType, PublishReturns
<1>2. PICK r \in Returns(b) :
        Becomes(b, [q EXCEPT !.reply = None, !.left = @ - 1,
                             !.pc = IF r.code = "OK" THEN AfterPublishing(q.left - 1, q.unassigned)
                                                     ELSE "give_up"])
  BY ZenonT(60) DEF PublishReturns
<1> DEFINE k == IF r.code = "OK" THEN AfterPublishing(q.left - 1, q.unassigned) ELSE "give_up"
           n == q.left - 1
           p == [q EXCEPT !.reply = None, !.left = n, !.pc = k]
<1>3. k \in {"publish", "give_up", "commit"} /\ n \in Int
  BY <1>1 DEF AfterPublishing, Process
<1>4. proc' = [proc EXCEPT ![b] = p] /\ UNCHANGED coordinator
  BY <1>2 DEF Becomes
<1> HIDE DEF k, n
<1>5. p \in Process
  BY ZenonT(60), <1>1, <1>3 DEF Process, Calls
<1>6. /\ p.pc = k /\ p.todo = q.todo /\ p.reply = None /\ p.connected = q.connected
      /\ p.epoch = q.epoch /\ p.refused = q.refused /\ p.published = q.published
  BY <1>1 DEF Process
<1> HIDE DEF p
<1> QED BY ZenonT(60), <1>1, <1>3, <1>4, <1>5, <1>6, StaysAtWork

\* A process that goes on with other assignments is a process.
LEMMA Onwards ==
  ASSUME NEW q \in Process, NEW rest \in Seq(Nat), NEW k \in {"loop", "task"}, NEW n \in Int,
         NEW u \in BOOLEAN, NEW v \in BOOLEAN
  PROVE  [q EXCEPT !.reply = None, !.todo = rest, !.left = n, !.unassigned = u,
                   !.retryable = v, !.pc = k] \in Process
<1>1. k \in Calls \cup {"off", "task", "loop", "ended"}
  OBVIOUS
<1> QED BY ZenonT(60), <1>1 DEF Process

\* The assignment in hand is done with: what is left of it does not need the process.
LEMMA NextAssignmentFits ==
  ASSUME RuntimeInv, NEW b \in Boots, NEW q \in Process,
         proc[b].pc \in {"fail", "give_up", "commit"},
         q.todo = proc[b].todo, q.connected = proc[b].connected, q.epoch = proc[b].epoch,
         proc[b].refused \subseteq q.refused,
         q.connected => \/ Head(q.todo) \notin Of(b, Active)
                        \/ Head(q.todo) \in q.refused,
         q.published <= Cardinality(Of(b, {"COMPLETED"})),
         q.connected => q.published = Cardinality(Of(b, {"COMPLETED"})),
         Becomes(b, NextAssignment(q))
  PROVE  RuntimeInv'
<1> DEFINE k == IF Len(q.todo) = 1 THEN "loop" ELSE "task"
           rest == Tail(q.todo)
           p == NextAssignment(q)
<1>1. Fits(b, proc[b]) /\ RuntimeType
  BY DEF RuntimeInv
<1>2. q.todo # << >> /\ q.todo \in Seq(Nat)
  BY ZenonT(60), <1>1 DEF Fits, HandsFit, AtWork, Process
<1>3. p = [q EXCEPT !.reply = None, !.todo = rest, !.left = 0, !.unassigned = FALSE,
                    !.retryable = FALSE, !.pc = k]
  BY ZenonT(60) DEF NextAssignment
<1>4. /\ rest \in Seq(Nat) /\ Len(rest) = Len(q.todo) - 1 /\ Len(q.todo) \in Nat \ {0}
      /\ \A i \in DOMAIN rest : i + 1 \in DOMAIN q.todo /\ rest[i] = q.todo[i + 1]
      /\ \A i \in DOMAIN q.todo : i = 1 \/ (i - 1 \in DOMAIN rest /\ rest[i - 1] = q.todo[i])
      /\ Head(q.todo) = q.todo[1]
  BY ZenonT(60), <1>2, TailOf
<1>5. k \in {"loop", "task"} /\ (k = "loop" => rest = << >>) /\ (k = "task" => rest # << >>)
  BY ZenonT(60), <1>2, TailOf
<1> HIDE DEF k, rest, p
<1>6. p \in Process
  <2>1. 0 \in Int /\ FALSE \in BOOLEAN
    OBVIOUS
  <2>2. [q EXCEPT !.reply = None, !.todo = rest, !.left = 0, !.unassigned = FALSE,
                  !.retryable = FALSE, !.pc = k] \in Process
    BY ZenonT(30), <1>4, <1>5, <2>1, Onwards
  <2> QED BY ZenonT(30), <1>3, <2>2
<1>7. /\ p.pc = k /\ p.todo = rest /\ p.reply = None /\ p.connected = q.connected
      /\ p.epoch = q.epoch /\ p.refused = q.refused /\ p.published = q.published
  BY ZenonT(60), <1>3 DEF Process
<1>8. Fits(b, p)
  <2>1. HandsFit(p)
    BY <1>1, <1>4, <1>5, <1>7 DEF Fits, HandsFit, AtWork
  <2>2. RepliesFit(b, p)
    BY ZenonT(60), <1>7 DEF RepliesFit
  <2>3. Remembers(b, p)
    <3> SUFFICES ASSUME q.connected, NEW a \in Of(b, Active)
                 PROVE  \/ \E i \in DOMAIN rest : rest[i] = a
                        \/ a \in q.refused
      BY ZenonT(60), <1>7 DEF Remembers
    <3>1. proc[b].reply # None => proc[b].reply.given = << >>
      BY ZenonT(60), <1>1 DEF Fits, HandsFit
    <3>2. \/ \E i \in DOMAIN q.todo : q.todo[i] = a
          \/ a \in q.refused
      BY <1>1, <3>1 DEF Fits, Remembers
    <3>3. ASSUME NEW i \in DOMAIN q.todo, q.todo[i] = a
          PROVE  \/ \E j \in DOMAIN rest : rest[j] = a
                 \/ a \in q.refused
      <4>1. CASE i = 1
        BY ZenonT(60), <1>4, <3>3, <4>1
      <4>2. CASE i # 1
        BY ZenonT(60), <1>4, <3>3, <4>2
      <4> QED BY ZenonT(60), <4>1, <4>2
    <3> QED BY ZenonT(60), <3>2, <3>3
  <2>4. CountFits(b, p)
    <3>1. Due(p) = 0 /\ p.published \in Nat
      BY ZenonT(60), <1>5, <1>6, <1>7 DEF Due, Process
    <3> QED BY <1>7, <3>1 DEF CountFits
  <2>5. p.pc \notin {"off", "ended"} /\ Of(b, Active) # {} => p.epoch = epoch
    BY ZenonT(60), <1>1, <1>7 DEF Fits
  <2> QED BY ZenonT(60), <1>5, <1>7, <2>1, <2>2, <2>3, <2>4, <2>5 DEF Fits
<1>9. proc' = [proc EXCEPT ![b] = p] /\ UNCHANGED coordinator
  BY ZenonT(60) DEF Becomes, p
<1> QED BY ZenonT(60), <1>5, <1>6, <1>7, <1>8, <1>9, ProcessStep

\* What a process remembers of its refusals.
LEMMA RefusedIsKept ==
  ASSUME NEW b \in Boots, proc[b] \in Process, proc[b].todo # << >>, NEW r
  PROVE  /\ Refused(b, r) \in SUBSET Nat /\ proc[b].refused \subseteq Refused(b, r)
         /\ r.code \in ContentRefusals => Head(proc[b].todo) \in Refused(b, r)
<1>1. proc[b].refused \in SUBSET Nat /\ proc[b].todo \in Seq(Nat)
  BY ZenonT(60) DEF Process
<1>2. ASSUME NEW s \in Seq(Nat), s # << >> PROVE Head(s) \in Nat
  BY <1>2
<1>3. Head(proc[b].todo) \in Nat
  BY ZenonT(60), <1>1, <1>2
<1>4. Refused(b, r) = proc[b].refused \cup (IF r.code \in ContentRefusals THEN {Head(proc[b].todo)} ELSE {})
  BY DEF Refused, Hand
<1>5. CASE r.code \in ContentRefusals
  <2>1. Refused(b, r) = proc[b].refused \cup {Head(proc[b].todo)}
    BY ZenonT(60), <1>4, <1>5
  <2> QED BY ZenonT(60), <1>1, <1>3, <2>1
<1>6. CASE r.code \notin ContentRefusals
  <2>1. Refused(b, r) = proc[b].refused \cup {}
    BY ZenonT(60), <1>4, <1>6
  <2> QED BY ZenonT(60), <1>1, <1>6, <2>1
<1> QED BY ZenonT(60), <1>5, <1>6

\* fail_trial returns.
LEMMA FailReturnsFits ==
  ASSUME RuntimeInv, NEW b \in Boots, FailReturns(b)
  PROVE  RuntimeInv'
<1>1. PICK r \in Returns(b) : Becomes(b, NextAssignment([proc[b] EXCEPT !.refused = Refused(b, r)]))
  BY ZenonT(60) DEF FailReturns
<1> DEFINE more == Refused(b, r)
           q == [proc[b] EXCEPT !.refused = more]
<1>2. proc[b] \in Process /\ proc[b].pc \in {"fail", "give_up"} /\ Fits(b, proc[b])
  BY DEF RuntimeInv, RuntimeType, FailReturns
<1>3. proc[b].todo # << >>
  BY ZenonT(60), <1>2 DEF Fits, HandsFit, AtWork
<1>4. /\ more \in SUBSET Nat /\ proc[b].refused \subseteq more
      /\ r.code \in ContentRefusals => Head(proc[b].todo) \in more
  BY ZenonT(60), <1>2, <1>3, RefusedIsKept
<1>5. proc[b].connected => Head(proc[b].todo) \notin Of(b, Active) \/ Head(proc[b].todo) \in more
  <2>1. proc[b].connected => r = proc[b].reply /\ proc[b].reply # None
    BY ZenonT(60), <1>2, CallReturns DEF RuntimeInv
  <2> HIDE DEF more
  <2> QED BY ZenonT(60), <1>2, <1>4, <2>1 DEF Fits, RepliesFit
<1>6. Becomes(b, NextAssignment(q))
  BY ZenonT(60), <1>1
<1> HIDE DEF more
<1>7. q \in Process
  BY ZenonT(60), <1>2, <1>4 DEF Process
<1>8. /\ q.todo = proc[b].todo /\ q.connected = proc[b].connected /\ q.epoch = proc[b].epoch
      /\ q.refused = more /\ q.published = proc[b].published /\ q.published \in Nat
  BY <1>2 DEF Process
<1>9. /\ q.published <= Cardinality(Of(b, {"COMPLETED"}))
      /\ q.connected => q.published = Cardinality(Of(b, {"COMPLETED"}))
  <2>1. Due(proc[b]) = 0
    BY ZenonT(60), <1>2 DEF Due
  <2> QED BY <1>2, <1>8, <2>1 DEF Fits, CountFits
<1> HIDE DEF q
<1> QED BY ZenonT(60), <1>2, <1>4, <1>5, <1>6, <1>7, <1>8, <1>9, NextAssignmentFits

\* commit_trial returns.
LEMMA CommitReturnsFits ==
  ASSUME RuntimeInv, NEW b \in Boots, CommitReturns(b)
  PROVE  RuntimeInv'
<1>1. PICK r \in Returns(b) :
        Becomes(b, NextAssignment(IF r.code = "OK"
                                  THEN [proc[b] EXCEPT !.published = @ + 1]
                                  ELSE [proc[b] EXCEPT !.refused = Refused(b, r)]))
  BY ZenonT(60) DEF CommitReturns
<1>2. proc[b] \in Process /\ proc[b].pc = "commit" /\ Fits(b, proc[b]) /\ RuntimeType
  BY ZenonT(60) DEF RuntimeInv, RuntimeType, CommitReturns
<1>3. \/ r = proc[b].reply /\ proc[b].reply # None
      \/ proc[b].reply = None /\ ~proc[b].connected /\ r.code # "OK"
  BY ZenonT(60), <1>2, CallReturns
<1>4. Cardinality(Of(b, {"COMPLETED"})) \in Nat /\ proc[b].published \in Nat
  <2>1. Of(b, {"COMPLETED"}) \in SUBSET DOMAIN attempts
    BY ZenonT(60) DEF Of
  <2> QED BY ZenonT(60), <1>2, <2>1, FinitePositions DEF RuntimeType, Process
<1>5. CASE r.code = "OK"
  <2> DEFINE n == proc[b].published + 1
             q == [proc[b] EXCEPT !.published = n]
  <2>1. n \in Nat /\ Becomes(b, NextAssignment(q))
    BY <1>1, <1>4, <1>5
  <2>2. Due(proc[b]) = 1
    BY ZenonT(60), <1>2, <1>3, <1>5 DEF Due
  <2>3. n <= Cardinality(Of(b, {"COMPLETED"})) /\ (proc[b].connected => n = Cardinality(Of(b, {"COMPLETED"})))
    BY ZenonT(60), <1>2, <2>2 DEF Fits, CountFits
  <2>4. Head(proc[b].todo) \notin Of(b, Active)
    BY ZenonT(60), <1>2, <1>3, <1>5 DEF Fits, RepliesFit, ContentRefusals
  <2> HIDE DEF n
  <2>5. q \in Process
    BY ZenonT(60), <1>2, <2>1 DEF Process
  <2>6. /\ q.todo = proc[b].todo /\ q.connected = proc[b].connected /\ q.epoch = proc[b].epoch
        /\ q.refused = proc[b].refused /\ q.published = n
    BY <1>2 DEF Process
  <2> HIDE DEF q
  <2> QED BY ZenonT(60), <1>2, <2>1, <2>3, <2>4, <2>5, <2>6, NextAssignmentFits
<1>6. CASE r.code # "OK"
  <2> DEFINE more == Refused(b, r)
             q == [proc[b] EXCEPT !.refused = more]
  <2>1. Becomes(b, NextAssignment(q))
    BY ZenonT(60), <1>1, <1>6
  <2>2. Due(proc[b]) = 0
    BY ZenonT(60), <1>3, <1>6 DEF Due
  <2>3. /\ proc[b].published <= Cardinality(Of(b, {"COMPLETED"}))
        /\ proc[b].connected => proc[b].published = Cardinality(Of(b, {"COMPLETED"}))
    BY <1>2, <1>4, <2>2 DEF Fits, CountFits
  <2>4. proc[b].todo # << >>
    BY ZenonT(60), <1>2 DEF Fits, HandsFit, AtWork
  <2>5. /\ more \in SUBSET Nat /\ proc[b].refused \subseteq more
        /\ r.code \in ContentRefusals => Head(proc[b].todo) \in more
    BY ZenonT(60), <1>2, <2>4, RefusedIsKept
  <2> HIDE DEF more
  <2>6. proc[b].connected => Head(proc[b].todo) \notin Of(b, Active) \/ Head(proc[b].todo) \in more
    BY ZenonT(60), <1>2, <1>3, <2>5 DEF Fits, RepliesFit
  <2>7. q \in Process
    BY ZenonT(60), <1>2, <2>5 DEF Process
  <2>8. /\ q.todo = proc[b].todo /\ q.connected = proc[b].connected /\ q.epoch = proc[b].epoch
        /\ q.refused = more /\ q.published = proc[b].published
    BY <1>2 DEF Process
  <2> HIDE DEF q
  <2> QED BY ZenonT(60), <1>2, <2>1, <2>3, <2>5, <2>6, <2>7, <2>8, NextAssignmentFits
<1> QED BY ZenonT(60), <1>5, <1>6
-----------------------------------------------------------------------------
(***************************************************************************)
(* Processes that stop, die, lose their connection or are started.         *)
(***************************************************************************)

\* stop is set.
LEMMA StopFits ==
  ASSUME RuntimeInv, NEW b \in Boots, Stop(b)
  PROVE  RuntimeInv'
<1>1. proc[b].connected \in BOOLEAN
  BY ZenonT(60) DEF RuntimeInv, RuntimeType, Process
<1>2. Due(proc[b]) = 0 /\ proc[b].pc # "off"
  BY ZenonT(60) DEF Due, Stop
<1> QED BY ZenonT(60), <1>1, <1>2, GoneFits DEF Stop, Gone

\* The process dies.
LEMMA DieFits ==
  ASSUME RuntimeInv, NEW b \in Boots, Die(b)
  PROVE  RuntimeInv'
<1>1. proc[b].pc # "off" /\ UNCHANGED coordinator
  BY ZenonT(60) DEF Die, Running
<1>2. proc' = [proc EXCEPT ![b] = [Gone(b) EXCEPT !.connected = FALSE]]
  BY ZenonT(60) DEF Die
<1>3. [Gone(b) EXCEPT !.connected = FALSE] =
        [Off EXCEPT !.pc = "ended", !.owner = proc[b].owner, !.published = proc[b].published,
                    !.connected = FALSE]
  BY ZenonT(60) DEF Gone, Off
<1>4. FALSE \in BOOLEAN
  OBVIOUS
<1> QED BY ZenonT(60), <1>1, <1>2, <1>3, <1>4, GoneFits

\* The connection breaks.
LEMMA BreakFits ==
  ASSUME RuntimeInv, NEW b \in Boots, Break(b)
  PROVE  RuntimeInv'
<1> DEFINE q == proc[b]
<1>1. q \in Process /\ q.pc # "off" /\ Fits(b, q) /\ UNCHANGED coordinator
  BY DEF RuntimeInv, RuntimeType, Break, Running
<1>2. PICK r \in {q.reply, None} : proc' = [proc EXCEPT ![b].connected = FALSE, ![b].reply = r]
  BY ZenonT(60) DEF Break
<1> DEFINE p == [q EXCEPT !.connected = FALSE, !.reply = r]
<1>3. proc' = [proc EXCEPT ![b] = p]
  BY ZenonT(60), <1>2 DEF RuntimeInv, RuntimeType
<1>4. /\ p.pc = q.pc /\ p.todo = q.todo /\ p.reply = r /\ p.connected = FALSE /\ p.epoch = q.epoch
      /\ p.published = q.published
  BY <1>1 DEF Process
<1>5. p \in Process
  BY ZenonT(60), <1>1 DEF Process
<1> HIDE DEF p
<1>6. HandsFit(p) /\ RepliesFit(b, p)
  BY <1>1, <1>4 DEF Fits, HandsFit, RepliesFit
<1>7. CountFits(b, p)
  <2>1. /\ Cardinality(Of(b, {"COMPLETED"})) \in Nat /\ q.published \in Nat /\ Due(q) \in Nat /\ Due(p) \in Nat
        /\ Due(p) <= Due(q) /\ q.published + Due(q) <= Cardinality(Of(b, {"COMPLETED"}))
    <3>1. Cardinality(Of(b, {"COMPLETED"})) \in Nat /\ q.published \in Nat
      BY ZenonT(60), <1>1, OfFinite DEF RuntimeInv, Process
    <3>2. q.published + Due(q) <= Cardinality(Of(b, {"COMPLETED"}))
      BY ZenonT(60), <1>1 DEF Fits, CountFits
    <3>3. Due(q) \in {0, 1} /\ Due(p) \in {0, 1} /\ (Due(p) = 1 => Due(q) = 1)
      BY ZenonT(60), <1>4 DEF Due
    <3> QED BY <3>1, <3>2, <3>3
  <2>2. q.published + Due(p) <= Cardinality(Of(b, {"COMPLETED"}))
    BY ZenonT(60), <2>1, LessIsDue
  <2> QED BY ZenonT(60), <1>4, <2>2 DEF CountFits
<1>8. Fits(b, p)
  BY <1>1, <1>4, <1>6, <1>7 DEF Fits, Remembers
<1> QED BY ZenonT(60), <1>1, <1>3, <1>4, <1>5, <1>8, ProcessStep

\* A process is started: its boot identity is the first that was not used.
LEMMA CreateFits ==
  ASSUME RuntimeInv, NEW b \in Boots, NEW w \in Workers, Create(b, w), UNCHANGED coordinator
  PROVE  RuntimeInv'
<1> DEFINE p == [Off EXCEPT !.pc = "register", !.owner = w, !.connected = TRUE]
<1>1. proc' = [proc EXCEPT ![b] = p] /\ b = Cardinality(Started) + 1
  BY DEF Create
<1>2. /\ p.pc = "register" /\ p.todo = << >> /\ p.reply = None /\ p.published = 0 /\ p.epoch = 0
  BY DEF Off
<1>3. p \in Process
  <2>1. 0 \in Nat /\ TRUE \in BOOLEAN
    OBVIOUS
  <2> QED BY ZenonT(30), <2>1, Bare
<1> HIDE DEF p
<1>4. /\ b \in Nat \ {0} /\ MaxBoots \in Nat /\ Started \subseteq 1 .. MaxBoots
      /\ \A c \in Started : \A d \in 1 .. c : d \in Started
  BY Bounds DEF Boots, Started, RuntimeInv, StartedInOrder
<1>5. IsFiniteSet(Started) /\ Cardinality(Started) \in Nat
  <2>1. IsFiniteSet(1 .. MaxBoots)
    BY <1>4, FS_Interval
  <2>2. IsFiniteSet(Started)
    BY ZenonT(60), <1>4, <2>1, FS_Subset
  <2> QED BY ZenonT(60), <2>2, FS_CardinalityType
<1>6. b \notin Started
  <2> SUFFICES ASSUME b \in Started PROVE FALSE
    OBVIOUS
  <2>1. 1 .. b \subseteq Started
    BY <1>4
  <2>2. Cardinality(1 .. b) = b
    BY <1>4, FS_Interval
  <2>3. Cardinality(1 .. b) <= Cardinality(Started)
    BY ZenonT(60), <1>5, <2>1, FS_Subset
  <2> QED BY <1>1, <1>5, <2>2, <2>3
<1>7. ASSUME NEW c \in 1 .. b, c # b PROVE c \in Started
  <2> SUFFICES ASSUME c \notin Started PROVE FALSE
    OBVIOUS
  <2>1. c \in Nat \ {0} /\ c < b /\ c - 1 \in Nat
    BY <1>4, <1>7
  <2>2. Started \subseteq 1 .. c - 1
    <3> SUFFICES ASSUME NEW d \in Started, d >= c PROVE FALSE
      BY <1>4, <2>1
    <3>1. c \in 1 .. d
      BY <1>4, <2>1
    <3> QED BY <1>4, <3>1
  <2>3. IsFiniteSet(1 .. c - 1) /\ Cardinality(1 .. c - 1) = c - 1
    BY <2>1, FS_Interval
  <2>4. Cardinality(Started) <= c - 1
    BY ZenonT(60), <2>2, <2>3, FS_Subset
  <2> QED BY <1>1, <1>5, <2>1, <2>4
<1>8. Started' = Started \cup {b} /\ attempts' = attempts
  BY ZenonT(60), <1>1, <1>2 DEF Started, RuntimeInv, RuntimeType, coordinator
<1>9. StartedInOrder'
  BY <1>4, <1>7, <1>8 DEF RuntimeInv, StartedInOrder
<1>10. \A S : Of(b, S) = {}
  BY ZenonT(60), <1>6 DEF Of, RuntimeInv, StartedInOrder
<1>11. Fits(b, p)
  <2>1. HandsFit(p)
    BY <1>2 DEF HandsFit, AtWork
  <2>2. CountFits(b, p)
    <3>1. Cardinality(Of(b, {"COMPLETED"})) = 0
      BY ZenonT(60), <1>10, FS_EmptySet
    <3>2. Due(p) = 0
      BY ZenonT(60), <1>2 DEF Due
    <3> QED BY <1>2, <3>1, <3>2 DEF CountFits
  <2> QED BY ZenonT(60), <1>2, <1>10, <2>1, <2>2 DEF Fits, RepliesFit, Remembers
<1>12. ASSUME NEW c \in Boots PROVE Fits(c, proc'[c])
  BY ZenonT(60), <1>1, <1>11 DEF RuntimeInv, RuntimeType
<1>13. proc' \in [Boots -> Process]
  BY ZenonT(60), <1>1, <1>3 DEF RuntimeInv, RuntimeType
<1> QED BY <1>9, <1>12, <1>13, SameRecords

\* The processes that operators start.
LEMMA StartFits ==
  ASSUME RuntimeInv, Start \/ StartAnother
  PROVE  RuntimeInv'
<1>1. Holders \subseteq Workers
  <2> SUFFICES ASSUME NEW a \in DOMAIN attempts PROVE proc[attempts[a].boot].owner \in Workers
    BY DEF Holders
  <2>1. attempts[a] \in Attempt
    BY DEF RuntimeInv, RuntimeType
  <2>2. attempts[a].boot \in Boots
    BY ZenonT(60), <2>1 DEF Attempt
  <2>3. proc[attempts[a].boot] \in Process
    BY ZenonT(60), <2>2 DEF RuntimeInv, RuntimeType
  <2> QED BY ZenonT(60), <2>3 DEF Process
<1>2. Usual \in Workers
  BY ZenonT(60), ConstantsAssumption
<1>3. PICK b \in Boots, w \in Workers : Create(b, w) /\ UNCHANGED coordinator
  BY ZenonT(60), <1>1, <1>2 DEF Start, StartAnother, coordinator
<1> QED BY ZenonT(60), <1>3, CreateFits
-----------------------------------------------------------------------------
(***************************************************************************)
(* A step of the coordinator.                                              *)
(***************************************************************************)

\* Nothing new is opened or completed for the process of boot c.
Undisturbed(c) ==
  /\ DOMAIN attempts \subseteq DOMAIN attempts'
  /\ Of(c, Active)' \subseteq Of(c, Active)
  /\ Of(c, {"COMPLETED"})' = Of(c, {"COMPLETED"})

\* A process that fits and is not disturbed goes on to fit.
LEMMA UndisturbedFits ==
  ASSUME NEW c \in Boots, Fits(c, proc'[c]), Undisturbed(c), Of(c, Active)' # {} => epoch' = epoch
  PROVE  Fits(c, proc[c])'
<1> DEFINE p == proc'[c]
<1>1. HandsFit(proc[c])'
  BY ZenonT(60) DEF Fits, HandsFit, Undisturbed
<1>2. RepliesFit(c, proc[c])'
  <2>1. \A a : a \in Of(c, Active)' => a \in Of(c, Active)
    BY ZenonT(60) DEF Undisturbed
  <2> QED BY ZenonT(60), <2>1 DEF Fits, RepliesFit
<1>3. Remembers(c, proc[c])'
  <2>1. \A a : a \in Of(c, Active)' => a \in Of(c, Active)
    BY DEF Undisturbed
  <2> QED BY ZenonT(60), <2>1 DEF Fits, Remembers
<1>4. CountFits(c, proc[c])'
  BY ZenonT(60) DEF Fits, CountFits, Due, Undisturbed
<1> QED BY ZenonT(60), <1>1, <1>2, <1>3, <1>4 DEF Fits, Undisturbed

\* The records are right, and every process fits them.
LEMMA RecordsStep ==
  ASSUME RuntimeInv, RuntimeType', OpenMatched', ResultKept', WithinConcurrency', Started' = Started,
         \A a \in DOMAIN attempts' : attempts'[a].boot \in Started,
         \A c \in Boots : Fits(c, proc[c])'
  PROVE  RuntimeInv'
<1>1. StartedInOrder'
  BY ZenonT(60) DEF RuntimeInv, StartedInOrder
<1> QED BY ZenonT(60), <1>1 DEF RuntimeInv

\* A process with fewer open attempts stays within its share.
LEMMA StillWithin ==
  ASSUME RuntimeInv, \A c \in Boots : Of(c, Active)' \subseteq Of(c, Active)
  PROVE  WithinConcurrency'
<1> SUFFICES ASSUME NEW c \in Boots PROVE Cardinality(Of(c, Active)') <= Concurrency
  BY DEF WithinConcurrency
<1> DEFINE A == Of(c, Active)
           B == Of(c, Active)'
<1>1. IsFiniteSet(A) /\ Cardinality(A) \in Nat /\ Cardinality(A) <= Concurrency /\ B \subseteq A
  BY ZenonT(60), OfFinite DEF RuntimeInv, WithinConcurrency
<1> HIDE DEF A, B
<1>2. Cardinality(B) <= Cardinality(A) /\ Cardinality(B) \in Nat
  BY ZenonT(60), <1>1, FS_Subset, FS_CardinalityType
<1> QED BY <1>1, <1>2, Bounds DEF B

\* A call of b is answered with nothing given, and what that says of the attempt in hand is
\* so.
LEMMA Answered ==
  ASSUME RuntimeInv, NEW b \in Boots, proc[b].pc \in Calls, proc[b].reply = None, NEW code \in Codes,
         proc' = Answer(b, code, << >>),
         proc[b].pc = "commit" => code # "OK",
         proc[b].pc \in {"fail", "give_up", "commit"} =>
           Hand(b) \notin Of(b, Active) \/ code \in ContentRefusals
  PROVE  /\ proc' \in [Boots -> Process] /\ Started' = Started
         /\ \A c \in Boots : Fits(c, proc'[c])
<1> DEFINE q == proc[b]
           r == [code |-> code, given |-> << >>]
           p == [q EXCEPT !.reply = r]
<1>1. q \in Process /\ Fits(b, q) /\ q.pc # "off"
  BY ZenonT(60) DEF RuntimeInv, RuntimeType, Calls
<1>2. r \in Reply /\ r.code = code /\ r.given = << >>
  BY DEF Reply
<1>3. r # None
  BY ZenonT(60), <1>2, ConstantsAssumption DEF Reply
<1> HIDE DEF r
<1>4. proc' = [proc EXCEPT ![b] = p]
  BY DEF Answer, r, RuntimeInv, RuntimeType
<1>5. p \in Process
  BY ZenonT(60), <1>1, <1>2 DEF Process
<1>6. /\ p.pc = q.pc /\ p.todo = q.todo /\ p.reply = r /\ p.connected = q.connected /\ p.epoch = q.epoch
      /\ p.refused = q.refused /\ p.published = q.published
  BY <1>1 DEF Process
<1> HIDE DEF p
<1>7. Fits(b, p)
  <2>1. HandsFit(p)
    BY <1>1, <1>2, <1>6 DEF Fits, HandsFit
  <2>2. RepliesFit(b, p)
    BY ZenonT(60), <1>2, <1>6 DEF RepliesFit, Hand
  <2>3. Remembers(b, p)
    BY ZenonT(60), <1>1, <1>6 DEF Fits, Remembers
  <2>4. CountFits(b, p)
    BY ZenonT(60), <1>1, <1>2, <1>6 DEF Fits, CountFits, Due
  <2> QED BY ZenonT(60), <1>1, <1>6, <2>1, <2>2, <2>3, <2>4 DEF Fits
<1>8. ASSUME NEW c \in Boots PROVE Fits(c, proc'[c])
  BY ZenonT(60), <1>4, <1>7 DEF RuntimeInv, RuntimeType
<1>9. proc' \in [Boots -> Process]
  BY ZenonT(60), <1>4, <1>5 DEF RuntimeInv, RuntimeType
<1>10. Started' = Started
  BY ZenonT(60), <1>1, <1>4, <1>6 DEF Started, RuntimeInv, RuntimeType
<1> QED BY ZenonT(60), <1>8, <1>9, <1>10

\* A call is refused.
LEMMA RefuseFits ==
  ASSUME RuntimeInv, NEW b \in Boots, proc[b].pc \in Calls, proc[b].reply = None, NEW code \in Codes,
         proc' = Answer(b, code, << >>), UNCHANGED coordinator,
         proc[b].pc = "commit" => code # "OK",
         proc[b].pc \in {"fail", "give_up", "commit"} =>
           Hand(b) \notin Of(b, Active) \/ code \in ContentRefusals
  PROVE  RuntimeInv'
<1>1. /\ proc' \in [Boots -> Process] /\ Started' = Started
      /\ \A c \in Boots : Fits(c, proc'[c])
  BY ZenonT(60), Answered
<1>2. StartedInOrder'
  BY ZenonT(60), <1>1 DEF RuntimeInv, StartedInOrder, coordinator
<1> QED BY ZenonT(60), <1>1, <1>2, SameRecords
\* The attempts of some processes are abandoned: what was open of theirs is closed, its
\* trials are given back or failed, and nothing else changes.
LEMMA AbandonedRecords ==
  ASSUME RuntimeInv, NEW S \in SUBSET Boots, Abandoned(S)
  PROVE  /\ attempts' \in Seq(Attempt) /\ DOMAIN attempts' = DOMAIN attempts
         /\ trials' \in [Trials -> Trial]
         /\ \A a \in DOMAIN attempts :
              /\ attempts'[a].boot = attempts[a].boot /\ attempts'[a].trial = attempts[a].trial
              /\ attempts'[a].epoch = attempts[a].epoch
         /\ \A a \in DOMAIN attempts : attempts'[a].state \in Active =>
              /\ attempts[a].state \in Active /\ attempts[a].boot \notin S
              /\ trials'[attempts[a].trial] = trials[attempts[a].trial]
         /\ \A t \in Trials : trials'[t].state \in {"ASSIGNED", "OBSERVING"} =>
              /\ trials'[t].attempt \in DOMAIN attempts
              /\ attempts'[trials'[t].attempt].trial = t
              /\ attempts'[trials'[t].attempt].state \in Active
         /\ \A t \in Trials : trials'[t].state = "READY" => trials'[t].attempt = 0
         /\ ResultKept'
         /\ \A c \in Boots : Undisturbed(c)
         /\ \A c \in S : Of(c, Active)' = {}
<1> DEFINE lost(i) == attempts[i].boot \in S /\ attempts[i].state \in Active
<1>1. /\ attempts \in Seq(Attempt) /\ trials \in [Trials -> Trial] /\ OpenMatched /\ ResultKept
      /\ DOMAIN attempts = 1 .. Len(attempts) /\ Len(attempts) \in Nat
      /\ \A a \in DOMAIN attempts : attempts[a] \in Attempt
  BY DEF RuntimeInv, RuntimeType
<1>2. /\ attempts' = [i \in DOMAIN attempts |->
                        IF lost(i) THEN [attempts[i] EXCEPT !.state = "ABANDONED"] ELSE attempts[i]]
      /\ trials' = [t \in Trials |->
                      IF trials[t].attempt # 0 /\ trials[t].state \notin Terminal /\ lost(trials[t].attempt)
                      THEN IF trials[t].attempt_count < MaxAttempts
                           THEN [trials[t] EXCEPT !.state = "READY", !.attempt = 0]
                           ELSE [trials[t] EXCEPT !.state = "FAILED"]
                      ELSE trials[t]]
  BY ZenonT(60) DEF Abandoned
<1> HIDE DEF lost
<1>3. DOMAIN attempts' = DOMAIN attempts
  BY ZenonT(60), <1>2
<1>4. ASSUME NEW a \in DOMAIN attempts
      PROVE  /\ attempts'[a] \in Attempt
             /\ attempts'[a].boot = attempts[a].boot /\ attempts'[a].trial = attempts[a].trial
             /\ attempts'[a].epoch = attempts[a].epoch /\ attempts'[a].observations = attempts[a].observations
             /\ lost(a) => attempts'[a].state = "ABANDONED"
             /\ ~lost(a) => attempts'[a] = attempts[a]
  <2>1. attempts[a] \in Attempt
    BY <1>1
  <2>2. CASE lost(a)
    <3>1. attempts'[a] = [attempts[a] EXCEPT !.state = "ABANDONED"]
      BY ZenonT(60), <1>2, <2>2
    <3> QED BY ZenonT(60), <2>1, <2>2, <3>1 DEF Attempt
  <2>3. CASE ~lost(a)
    <3>1. attempts'[a] = attempts[a]
      BY ZenonT(60), <1>2, <2>3
    <3> QED BY ZenonT(60), <2>1, <2>3, <3>1
  <2> QED BY ZenonT(60), <2>2, <2>3
<1>5. attempts' \in Seq(Attempt)
  <2>1. attempts' = [i \in 1 .. Len(attempts) |-> attempts'[i]]
    BY ZenonT(60), <1>1, <1>2
  <2>2. \A i \in 1 .. Len(attempts) : attempts'[i] \in Attempt
    BY ZenonT(60), <1>1, <1>4
  <2> QED BY <1>1, <2>1, <2>2
<1>6. ASSUME NEW t \in Trials
      PROVE  /\ trials'[t] \in Trial
             /\ \/ trials'[t] = trials[t]
                     /\ ~(trials[t].attempt # 0 /\ trials[t].state \notin Terminal /\ lost(trials[t].attempt))
                \/ trials[t].state \notin Terminal /\ trials'[t].state = "READY" /\ trials'[t].attempt = 0
                \/ trials[t].state \notin Terminal /\ trials'[t].state = "FAILED"
  <2>1. trials[t] \in Trial
    BY ZenonT(60), <1>1
  <2> DEFINE gone == trials[t].attempt # 0 /\ trials[t].state \notin Terminal /\ lost(trials[t].attempt)
  <2>2. CASE gone /\ trials[t].attempt_count < MaxAttempts
    <3>1. trials'[t] = [trials[t] EXCEPT !.state = "READY", !.attempt = 0]
      BY ZenonT(60), <1>2, <2>2
    <3>2. "READY" \in {"READY", "ASSIGNED", "OBSERVING"} \cup Terminal /\ 0 \in Nat
      OBVIOUS
    <3>3. trials'[t].state = "READY" /\ trials'[t].attempt = 0
      BY ZenonT(60), <2>1, <3>1 DEF Trial
    <3>4. trials'[t] \in Trial
      <4> HIDE DEF gone
      <4> QED BY ZenonT(60), <2>1, <3>1, <3>2 DEF Trial
    <3> QED BY ZenonT(60), <2>2, <3>3, <3>4
  <2>3. CASE gone /\ ~(trials[t].attempt_count < MaxAttempts)
    <3>1. trials'[t] = [trials[t] EXCEPT !.state = "FAILED"]
      BY ZenonT(60), <1>2, <2>3
    <3>2. "FAILED" \in {"READY", "ASSIGNED", "OBSERVING"} \cup Terminal
      BY ZenonT(60) DEF Terminal
    <3> QED BY <2>1, <2>3, <3>1, <3>2 DEF Trial
  <2>4. CASE ~gone
    <3>1. trials'[t] = trials[t]
      BY ZenonT(60), <1>2, <2>4
    <3> QED BY ZenonT(60), <2>1, <2>4, <3>1
  <2> QED BY ZenonT(60), <2>2, <2>3, <2>4
<1>7. trials' \in [Trials -> Trial]
  <2>1. trials' = [t \in Trials |-> trials'[t]]
    BY ZenonT(60), <1>2
  <2> QED BY ZenonT(60), <1>6, <2>1
<1>8. ASSUME NEW a \in DOMAIN attempts, attempts'[a].state \in Active
      PROVE  /\ attempts[a].state \in Active /\ attempts[a].boot \notin S /\ attempts'[a] = attempts[a]
             /\ trials'[attempts[a].trial] = trials[attempts[a].trial]
  <2>1. ~lost(a) /\ attempts'[a] = attempts[a]
    BY ZenonT(60), <1>4, <1>8 DEF Active
  <2>2. attempts[a].state \in Active /\ attempts[a].boot \notin S
    BY ZenonT(60), <1>8, <2>1 DEF lost
  <2>3. attempts[a].trial \in Trials /\ trials[attempts[a].trial].attempt = a
    BY ZenonT(60), <1>1, <2>2 DEF OpenMatched, Attempt
  <2>4. ~(trials[attempts[a].trial].attempt # 0 /\ trials[attempts[a].trial].state \notin Terminal
            /\ lost(trials[attempts[a].trial].attempt))
    BY ZenonT(60), <2>1, <2>3
  <2> QED BY ZenonT(60), <1>2, <2>1, <2>2, <2>3, <2>4
<1>9. ASSUME NEW t \in Trials, trials'[t].state \in {"ASSIGNED", "OBSERVING"}
      PROVE  /\ trials'[t].attempt \in DOMAIN attempts
             /\ attempts'[trials'[t].attempt].trial = t
             /\ attempts'[trials'[t].attempt].state \in Active
  <2>1. /\ trials'[t] = trials[t]
        /\ ~(trials[t].attempt # 0 /\ trials[t].state \notin Terminal /\ lost(trials[t].attempt))
    BY ZenonT(60), <1>6, <1>9
  <2>2. /\ trials[t].attempt \in DOMAIN attempts
        /\ attempts[trials[t].attempt].trial = t /\ attempts[trials[t].attempt].state \in Active
    BY ZenonT(60), <1>1, <1>9, <2>1 DEF OpenMatched
  <2>3. trials[t].attempt # 0 /\ trials[t].state \notin Terminal
    BY <1>1, <1>9, <2>1, <2>2 DEF Terminal
  <2> QED BY ZenonT(60), <1>4, <2>1, <2>2, <2>3
<1>10. \A t \in Trials : trials'[t].state = "READY" => trials'[t].attempt = 0
  BY ZenonT(60), <1>1, <1>6 DEF OpenMatched
<1>11. ASSUME NEW a \in DOMAIN attempts, NEW X \in {Active, {"COMPLETED"}}, attempts'[a].state \in X
       PROVE  attempts[a].state \in X /\ ~lost(a)
  BY ZenonT(60), <1>4, <1>11 DEF Active
<1>12. ResultKept'
  <2> SUFFICES ASSUME NEW a \in DOMAIN attempts, attempts'[a].state = "COMPLETED"
               PROVE  /\ trials'[attempts'[a].trial].attempt = a
                      /\ trials'[attempts'[a].trial].state = "COMPLETED"
    BY ZenonT(60), <1>3 DEF ResultKept
  <2>1. attempts[a].state = "COMPLETED" /\ attempts'[a].trial = attempts[a].trial
    BY ZenonT(60), <1>4, <1>11
  <2>2. /\ trials[attempts[a].trial].attempt = a /\ trials[attempts[a].trial].state = "COMPLETED"
        /\ attempts[a].trial \in Trials
    BY ZenonT(60), <1>1, <2>1 DEF ResultKept, Attempt
  <2> QED BY ZenonT(60), <1>6, <2>1, <2>2 DEF Terminal
<1>13. ASSUME NEW c \in Boots PROVE Undisturbed(c)
  <2>1. Of(c, Active)' \subseteq Of(c, Active)
    BY ZenonT(60), <1>3, <1>4, <1>11 DEF Of
  <2>2. Of(c, {"COMPLETED"})' = Of(c, {"COMPLETED"})
    BY ZenonT(60), <1>3, <1>4, <1>11 DEF Of, lost, Active
  <2>3. \A a \in Of(c, Active)' : attempts'[a].observations = attempts[a].observations
    BY ZenonT(60), <1>3, <1>4 DEF Of
  <2> QED BY ZenonT(60), <1>3, <2>1, <2>2, <2>3 DEF Undisturbed
<1>14. ASSUME NEW c \in S PROVE Of(c, Active)' = {}
  BY <1>3, <1>4, <1>8 DEF Of
<1> QED BY ZenonT(60), <1>3, <1>4, <1>5, <1>7, <1>8, <1>9, <1>10, <1>12, <1>13, <1>14
\* register_worker: the earlier processes of the worker lose what they had open, and the new
\* one has nothing yet.
LEMMA RegisterFits ==
  ASSUME RuntimeInv, NEW b \in Boots, proc[b].pc = "register", proc[b].reply = None, RegisterWorker(b)
  PROVE  RuntimeInv'
<1> DEFINE others == {o \in Boots \ {b} : live[o] = "live" /\ proc[o].owner = proc[b].owner}
<1>1. proc[b].pc \in Calls /\ proc[b].pc \notin {"fail", "give_up", "commit"}
  BY ZenonT(60) DEF Calls
<1>2. CASE live[b] # "none"
  <2>1. UNCHANGED coordinator /\ \E code \in {"OK", "STALE_WORKER"} : proc' = Answer(b, code, << >>)
    BY ZenonT(60), <1>2 DEF RegisterWorker
  <2>2. PICK code \in Codes : proc' = Answer(b, code, << >>)
    BY ZenonT(60), <2>1 DEF Codes
  <2> QED BY ZenonT(60), <1>1, <2>1, <2>2, RefuseFits
<1>3. CASE live[b] = "none"
  <2>1. PICK code \in {"STALE_WORKER", "STALE_EPOCH", "LIMIT_EXCEEDED", "OK"} :
          /\ Abandoned(others)
          /\ live' = [o \in Boots |-> IF o \in others THEN "revoked"
                                      ELSE IF o = b /\ code = "OK" THEN "live" ELSE live[o]]
          /\ proc' = Answer(b, code, << >>)
          /\ epoch' = epoch
    <3> DEFINE known == {i \in DOMAIN workers : workers[i].boot = b}
               code == IF \E i \in known : workers[i].revoked THEN "STALE_WORKER"
                       ELSE IF \E i \in known : workers[i].epoch # epoch THEN "STALE_EPOCH"
                       ELSE IF Len(workers) >= MaxRegistered THEN "LIMIT_EXCEEDED"
                       ELSE "OK"
    <3>1. /\ Abandoned(others)
          /\ live' = [o \in Boots |-> IF o \in others THEN "revoked"
                                      ELSE IF o = b /\ code = "OK" THEN "live" ELSE live[o]]
          /\ proc' = Answer(b, code, << >>)
          /\ epoch' = epoch
      BY ZenonT(60), <1>3 DEF RegisterWorker
    <3>2. code \in {"STALE_WORKER", "STALE_EPOCH", "LIMIT_EXCEEDED", "OK"}
      OBVIOUS
    <3> HIDE DEF code, others
    <3> QED BY ZenonT(60), <3>1, <3>2
  <2>2. others \in SUBSET Boots /\ code \in Codes
    BY ZenonT(60) DEF Codes
  <2>3. /\ proc' \in [Boots -> Process] /\ Started' = Started
        /\ \A c \in Boots : Fits(c, proc'[c])
    BY ZenonT(60), <1>1, <2>1, <2>2, Answered
  <2>4. \A c \in Boots : live[c] = "live" /\ c \notin others => live'[c] = "live"
    BY ZenonT(60), <1>3, <2>1
  <2>5. live' \in [Boots -> {"none", "live", "revoked"}]
    BY <2>1 DEF RuntimeInv, RuntimeType
  <2> HIDE DEF others
  <2>6. /\ attempts' \in Seq(Attempt) /\ DOMAIN attempts' = DOMAIN attempts
        /\ trials' \in [Trials -> Trial]
        /\ \A a \in DOMAIN attempts :
             /\ attempts'[a].boot = attempts[a].boot /\ attempts'[a].trial = attempts[a].trial
             /\ attempts'[a].epoch = attempts[a].epoch
        /\ \A a \in DOMAIN attempts : attempts'[a].state \in Active =>
             /\ attempts[a].state \in Active /\ attempts[a].boot \notin others
             /\ trials'[attempts[a].trial] = trials[attempts[a].trial]
        /\ \A t \in Trials : trials'[t].state \in {"ASSIGNED", "OBSERVING"} =>
             /\ trials'[t].attempt \in DOMAIN attempts
             /\ attempts'[trials'[t].attempt].trial = t
             /\ attempts'[trials'[t].attempt].state \in Active
        /\ \A t \in Trials : trials'[t].state = "READY" => trials'[t].attempt = 0
        /\ ResultKept'
        /\ \A c \in Boots : Undisturbed(c)
    BY ZenonT(60), <2>1, <2>2, AbandonedRecords
  <2>7. RuntimeType'
    BY ZenonT(60), <2>1, <2>3, <2>5, <2>6 DEF RuntimeInv, RuntimeType
  <2>8. \A a \in DOMAIN attempts : attempts[a].boot \in Boots
    BY ZenonT(60) DEF RuntimeInv, StartedInOrder, Started
  <2>9. ASSUME NEW a \in DOMAIN attempts', attempts'[a].state \in Active
        PROVE  /\ live'[attempts'[a].boot] = "live" /\ attempts'[a].epoch = epoch'
               /\ trials'[attempts'[a].trial].attempt = a
               /\ trials'[attempts'[a].trial].state \in {"ASSIGNED", "OBSERVING"}
    <3>1. /\ a \in DOMAIN attempts /\ attempts[a].state \in Active /\ attempts[a].boot \notin others
          /\ trials'[attempts[a].trial] = trials[attempts[a].trial]
          /\ attempts'[a].boot = attempts[a].boot /\ attempts'[a].trial = attempts[a].trial
          /\ attempts'[a].epoch = attempts[a].epoch
      BY ZenonT(60), <2>6, <2>9
    <3>2. /\ live[attempts[a].boot] = "live" /\ attempts[a].epoch = epoch
          /\ trials[attempts[a].trial].attempt = a
          /\ trials[attempts[a].trial].state \in {"ASSIGNED", "OBSERVING"}
      BY ZenonT(60), <3>1 DEF RuntimeInv, OpenMatched
    <3> QED BY ZenonT(60), <2>1, <2>4, <2>8, <3>1, <3>2
  <2>10. OpenMatched'
    BY ZenonT(60), <2>6, <2>9 DEF OpenMatched
  <2>11. WithinConcurrency'
    BY ZenonT(60), <2>6, StillWithin DEF Undisturbed
  <2>12. \A c \in Boots : Fits(c, proc[c])'
    BY ZenonT(60), <2>1, <2>3, <2>6, UndisturbedFits
  <2>13. \A a \in DOMAIN attempts' : attempts'[a].boot \in Started
    BY ZenonT(60), <2>6 DEF RuntimeInv, StartedInOrder
  <2> QED BY ZenonT(60), <2>3, <2>6, <2>7, <2>10, <2>11, <2>12, <2>13, RecordsStep
<1> QED BY ZenonT(60), <1>2, <1>3

\* The coordinator restarts: nothing stays open, and every connection is gone.
LEMMA RestartFits ==
  ASSUME RuntimeInv, Restart
  PROVE  RuntimeInv'
<1>1. /\ epoch' = epoch + 1 /\ live' = [b \in Boots |-> "none"] /\ Abandoned(Boots)
      /\ proc' = [b \in Boots |-> [proc[b] EXCEPT !.connected = FALSE, !.reply = None]]
  BY ZenonT(60) DEF Restart
<1>2. /\ attempts' \in Seq(Attempt) /\ DOMAIN attempts' = DOMAIN attempts
      /\ trials' \in [Trials -> Trial]
      /\ \A a \in DOMAIN attempts : attempts'[a].boot = attempts[a].boot
      /\ \A t \in Trials : trials'[t].state \in {"ASSIGNED", "OBSERVING"} =>
           /\ trials'[t].attempt \in DOMAIN attempts
           /\ attempts'[trials'[t].attempt].trial = t
           /\ attempts'[trials'[t].attempt].state \in Active
      /\ \A t \in Trials : trials'[t].state = "READY" => trials'[t].attempt = 0
      /\ ResultKept'
      /\ \A c \in Boots : Undisturbed(c)
      /\ \A c \in Boots : Of(c, Active)' = {}
  <2>1. Boots \in SUBSET Boots
    OBVIOUS
  <2> QED BY ZenonT(60), <1>1, <2>1, AbandonedRecords
<1>3. ASSUME NEW b \in Boots
      PROVE  /\ proc'[b] \in Process /\ (proc'[b].pc = "off" <=> proc[b].pc = "off")
             /\ Fits(b, proc'[b])
  <2> DEFINE q == proc[b]
             p == [q EXCEPT !.connected = FALSE, !.reply = None]
  <2>1. q \in Process /\ Fits(b, q) /\ proc'[b] = p
    BY ZenonT(60), <1>1 DEF RuntimeInv, RuntimeType
  <2>2. /\ p.pc = q.pc /\ p.todo = q.todo /\ p.reply = None /\ p.connected = FALSE /\ p.epoch = q.epoch
        /\ p.published = q.published
    BY ZenonT(60), <2>1 DEF Process
  <2>3. p \in Process
    BY ZenonT(60), <2>1 DEF Process
  <2> HIDE DEF p
  <2>4. HandsFit(p) /\ RepliesFit(b, p)
    BY ZenonT(60), <2>1, <2>2 DEF Fits, HandsFit, RepliesFit
  <2>5. CountFits(b, p)
    <3>1. /\ Cardinality(Of(b, {"COMPLETED"})) \in Nat /\ q.published \in Nat /\ Due(q) \in Nat /\ Due(p) = 0
          /\ q.published + Due(q) <= Cardinality(Of(b, {"COMPLETED"}))
      BY ZenonT(60), <2>1, <2>2, OfFinite DEF RuntimeInv, Process, Due, Fits, CountFits
    <3> QED BY <2>2, <3>1 DEF CountFits
  <2>6. Fits(b, p)
    BY ZenonT(60), <2>1, <2>2, <2>4, <2>5 DEF Fits, Remembers
  <2> QED BY ZenonT(60), <2>1, <2>2, <2>3, <2>6
<1>4. Started' = Started
  BY ZenonT(60), <1>3 DEF Started
<1>5. RuntimeType'
  <2>1. proc' \in [Boots -> Process]
    BY ZenonT(60), <1>1, <1>3
  <2>2. epoch' \in Nat
    <3>1. epoch \in Nat
      BY ZenonT(30) DEF RuntimeInv, RuntimeType
    <3>2. epoch' = epoch + 1
      BY ZenonT(60), <1>1
    <3> QED BY <3>1, <3>2
  <2>3. live' \in [Boots -> {"none", "live", "revoked"}]
    BY ZenonT(60), <1>1
  <2> QED BY ZenonT(60), <1>2, <2>1, <2>2, <2>3 DEF RuntimeType
<1>6. \A a \in DOMAIN attempts' : attempts'[a].boot \in Boots /\ attempts'[a].boot \in Started
  BY ZenonT(60), <1>2 DEF RuntimeInv, StartedInOrder, Started
<1>7. \A a \in DOMAIN attempts' : attempts'[a].state \notin Active
  BY ZenonT(60), <1>2, <1>6 DEF Of
<1>8. OpenMatched'
  BY ZenonT(60), <1>2, <1>7 DEF OpenMatched
<1>9. WithinConcurrency'
  BY ZenonT(60), <1>2, StillWithin DEF Undisturbed
<1>10. \A c \in Boots : Fits(c, proc[c])'
  BY ZenonT(60), <1>2, <1>3, UndisturbedFits
<1> QED BY ZenonT(60), <1>2, <1>4, <1>5, <1>6, <1>8, <1>9, <1>10, RecordsStep
\* The assignment in hand of a process at work is an attempt.
LEMMA InHand ==
  ASSUME RuntimeInv, NEW b \in Boots, proc[b].pc \in AtWork
  PROVE  /\ Hand(b) \in DOMAIN attempts /\ attempts[Hand(b)] \in Attempt
         /\ 1 \in DOMAIN proc[b].todo /\ proc[b].todo[1] = Hand(b)
<1>1. proc[b].todo \in Seq(Nat) /\ proc[b].todo # << >>
  BY ZenonT(60) DEF RuntimeInv, RuntimeType, Process, Fits, HandsFit
<1>2. 1 \in DOMAIN proc[b].todo /\ proc[b].todo[1] = Hand(b)
  BY <1>1, TailOf DEF Hand
<1>3. Hand(b) \in DOMAIN attempts
  BY ZenonT(60), <1>2 DEF RuntimeInv, Fits, HandsFit
<1> QED BY <1>2, <1>3 DEF RuntimeInv, RuntimeType

\* check_envelope lets a call through only for an open attempt of the caller that is the
\* attempt of its trial.
LEMMA EnvelopeAccepted ==
  ASSUME RuntimeInv, NEW b \in Boots, proc[b].pc \in AtWork, check_envelope(b, Hand(b)) = "OK"
  PROVE  /\ Hand(b) \in Of(b, Active) /\ Hand(b) \in DOMAIN attempts /\ attempts[Hand(b)] \in Attempt
         /\ attempts[Hand(b)].boot = b /\ attempts[Hand(b)].trial \in Trials
         /\ trials[attempts[Hand(b)].trial].attempt = Hand(b) /\ trials \in [Trials -> Trial]
<1>1. Hand(b) \in DOMAIN attempts /\ attempts[Hand(b)] \in Attempt
  BY ZenonT(60), InHand
<1>2. attempts[Hand(b)].boot = b /\ attempts[Hand(b)].state \in Active
  BY ZenonT(60) DEF check_envelope
<1>3. trials[attempts[Hand(b)].trial].attempt = Hand(b)
  BY ZenonT(60) DEF check_envelope
<1>4. attempts[Hand(b)].trial \in Trials
  BY ZenonT(60), <1>1 DEF Attempt
<1>5. trials \in [Trials -> Trial]
  BY ZenonT(60) DEF RuntimeInv, RuntimeType
<1> QED BY ZenonT(60), <1>1, <1>2, <1>3, <1>4, <1>5 DEF Of

\* check_envelope refuses a process at work only when what it has in hand is not open.
LEMMA EnvelopeRefused ==
  ASSUME RuntimeInv, NEW b \in Boots, proc[b].pc \in AtWork, check_envelope(b, Hand(b)) # "OK"
  PROVE  Hand(b) \notin Of(b, Active) /\ check_envelope(b, Hand(b)) \in Codes
<1>1. check_envelope(b, Hand(b)) \in Codes
  <2>1. Current(b) \in Codes
    BY DEF Current, Codes
  <2>2. {"STALE_ATTEMPT", "STALE_WORKER", "STALE_EPOCH", "OK"} \subseteq Codes
    BY ZenonT(60) DEF Codes
  <2> QED BY ZenonT(60), <2>1, <2>2 DEF check_envelope
<1>2. ASSUME Hand(b) \in Of(b, Active) PROVE FALSE
  <2> DEFINE a == Hand(b)
  <2>1. a \in DOMAIN attempts /\ attempts[a].boot = b /\ attempts[a].state \in Active
    BY ZenonT(60), <1>2 DEF Of
  <2>2. /\ live[b] = "live" /\ attempts[a].epoch = epoch /\ trials[attempts[a].trial].attempt = a
        /\ trials[attempts[a].trial].state \in {"ASSIGNED", "OBSERVING"}
    BY <2>1 DEF RuntimeInv, OpenMatched
  <2>3. proc[b].epoch = epoch
    BY ZenonT(60), <1>2 DEF RuntimeInv, Fits, AtWork
  <2>4. Current(b) = "OK"
    BY ZenonT(60), <2>2, <2>3 DEF Current
  <2> QED BY ZenonT(60), <2>1, <2>2, <2>4 DEF check_envelope, Terminal
<1> QED BY ZenonT(60), <1>1, <1>2

\* One attempt of b is replaced: what that does to the attempts of every process.
LEMMA PointRecords ==
  ASSUME RuntimeType, NEW b \in Boots, NEW a \in Of(b, Active), NEW x \in Attempt,
         x.boot = b, attempts' = [attempts EXCEPT ![a] = x]
  PROVE  /\ attempts' \in Seq(Attempt) /\ DOMAIN attempts' = DOMAIN attempts
         /\ a \in DOMAIN attempts /\ attempts'[a] = x
         /\ \A o \in DOMAIN attempts \ {a} : attempts'[o] = attempts[o]
         /\ \A o \in DOMAIN attempts : attempts'[o].boot = attempts[o].boot
         /\ \A c \in Boots \ {b} : Undisturbed(c)
         /\ Of(b, Active)' \subseteq Of(b, Active)
         /\ x.state \notin Active => a \notin Of(b, Active)'
         /\ x.state # "COMPLETED" => Of(b, {"COMPLETED"})' = Of(b, {"COMPLETED"})
         /\ x.state = "COMPLETED" => Of(b, {"COMPLETED"})' = Of(b, {"COMPLETED"}) \cup {a}
         /\ a \notin Of(b, {"COMPLETED"})
<1>1. /\ attempts \in Seq(Attempt) /\ a \in DOMAIN attempts
      /\ attempts[a].boot = b /\ attempts[a].state \in Active
  BY ZenonT(60) DEF RuntimeType, Of
<1>2. DOMAIN attempts' = DOMAIN attempts /\ attempts'[a] = x
  BY ZenonT(60), <1>1
<1>3. \A o \in DOMAIN attempts \ {a} : attempts'[o] = attempts[o]
  BY ZenonT(60), <1>1
<1>4. attempts' \in Seq(Attempt)
  BY <1>1
<1>5. \A o \in DOMAIN attempts : attempts'[o].boot = attempts[o].boot
  BY ZenonT(60), <1>1, <1>2, <1>3
<1>6. ASSUME NEW c \in Boots \ {b} PROVE Undisturbed(c)
  <2>1. \A X : Of(c, X)' = Of(c, X)
    BY ZenonT(60), <1>1, <1>2, <1>3, <1>5 DEF Of
  <2>2. \A o \in Of(c, Active) : attempts'[o] = attempts[o]
    BY ZenonT(60), <1>1, <1>3 DEF Of
  <2> QED BY ZenonT(60), <1>2, <2>1, <2>2 DEF Undisturbed
<1>7. Of(b, Active)' \subseteq Of(b, Active) /\ (x.state \notin Active => a \notin Of(b, Active)')
  BY ZenonT(60), <1>1, <1>2, <1>3, <1>5 DEF Of
<1>8. a \notin Of(b, {"COMPLETED"})
  BY ZenonT(60), <1>1 DEF Of, Active
<1>9. x.state # "COMPLETED" => Of(b, {"COMPLETED"})' = Of(b, {"COMPLETED"})
  BY ZenonT(60), <1>1, <1>2, <1>3, <1>5, <1>8 DEF Of
<1>10. x.state = "COMPLETED" => Of(b, {"COMPLETED"})' = Of(b, {"COMPLETED"}) \cup {a}
  BY ZenonT(60), <1>1, <1>2, <1>3, <1>5 DEF Of
<1> QED BY ZenonT(60), <1>1, <1>2, <1>3, <1>4, <1>5, <1>6, <1>7, <1>8, <1>9, <1>10

\* The attempt in hand and its trial move together, in one of the ways of the three calls,
\* and the call is answered with success.
LEMMA PointFits ==
  ASSUME RuntimeInv, NEW b \in Boots, proc[b].reply = None, NEW x \in Attempt, NEW y \in Trial,
         Hand(b) \in Of(b, Active), x.boot = b, x.trial = attempts[Hand(b)].trial,
         x.epoch = attempts[Hand(b)].epoch,
         attempts' = [attempts EXCEPT ![Hand(b)] = x], trials' = [trials EXCEPT ![x.trial] = y],
         proc' = Answer(b, "OK", << >>), epoch' = epoch, live' = live,
         \/ /\ proc[b].pc = "publish" /\ x.state \in Active
            /\ y.state \in {"ASSIGNED", "OBSERVING"} /\ y.attempt = Hand(b)
         \/ /\ proc[b].pc \in {"fail", "give_up"} /\ x.state = "FAILED"
            /\ y.state = "FAILED" \/ (y.state = "READY" /\ y.attempt = 0)
         \/ /\ proc[b].pc = "commit" /\ x.state = "COMPLETED"
            /\ y.state = "COMPLETED" /\ y.attempt = Hand(b)
  PROVE  RuntimeInv'
<1> DEFINE a == Hand(b)
           t == x.trial
           q == proc[b]
           r == [code |-> "OK", given |-> << >>]
           p == [q EXCEPT !.reply = r]
<1>1. /\ RuntimeType /\ OpenMatched /\ ResultKept /\ q \in Process /\ Fits(b, q)
      /\ t \in Trials /\ trials \in [Trials -> Trial]
  BY ZenonT(60) DEF RuntimeInv, RuntimeType, Attempt
<1>2. /\ attempts' \in Seq(Attempt) /\ DOMAIN attempts' = DOMAIN attempts
      /\ a \in DOMAIN attempts /\ attempts'[a] = x
      /\ \A o \in DOMAIN attempts \ {a} : attempts'[o] = attempts[o]
      /\ \A o \in DOMAIN attempts : attempts'[o].boot = attempts[o].boot
      /\ \A c \in Boots \ {b} : Undisturbed(c)
      /\ Of(b, Active)' \subseteq Of(b, Active)
      /\ x.state \notin Active => a \notin Of(b, Active)'
      /\ x.state # "COMPLETED" => Of(b, {"COMPLETED"})' = Of(b, {"COMPLETED"})
      /\ x.state = "COMPLETED" => Of(b, {"COMPLETED"})' = Of(b, {"COMPLETED"}) \cup {a}
      /\ a \notin Of(b, {"COMPLETED"})
  BY ZenonT(60), <1>1, PointRecords
<1>3. /\ attempts[a].boot = b /\ attempts[a].state \in Active /\ attempts[a].trial = t
      /\ trials[t].attempt = a /\ trials[t].state \in {"ASSIGNED", "OBSERVING"}
      /\ live[b] = "live" /\ attempts[a].epoch = epoch
  BY <1>1 DEF Of, OpenMatched
<1>4. /\ trials' \in [Trials -> Trial] /\ trials'[t] = y
      /\ \A s \in Trials \ {t} : trials'[s] = trials[s]
  BY ZenonT(60), <1>1
<1>5. \A o \in DOMAIN attempts \ {a} : attempts[o].state \in Active \cup {"COMPLETED"} =>
        attempts[o].trial \in Trials \ {t} /\ trials[attempts[o].trial].attempt = o
  <2> SUFFICES ASSUME NEW o \in DOMAIN attempts \ {a}, attempts[o].state \in Active \cup {"COMPLETED"}
               PROVE  attempts[o].trial \in Trials \ {t} /\ trials[attempts[o].trial].attempt = o
    OBVIOUS
  <2>1. trials[attempts[o].trial].attempt = o
    BY ZenonT(60), <1>1 DEF OpenMatched, ResultKept
  <2>2. attempts[o] \in Attempt
    BY <1>1 DEF RuntimeType
  <2>3. attempts[o].trial \in Trials
    BY ZenonT(60), <2>2 DEF Attempt
  <2> QED BY ZenonT(60), <1>3, <2>1, <2>3
<1>6. OpenMatched'
  <2>1. ASSUME NEW o \in DOMAIN attempts', attempts'[o].state \in Active
        PROVE  /\ live'[attempts'[o].boot] = "live" /\ attempts'[o].epoch = epoch'
               /\ trials'[attempts'[o].trial].attempt = o
               /\ trials'[attempts'[o].trial].state \in {"ASSIGNED", "OBSERVING"}
    <3>1. CASE o = a
      <4>1. x.state \in Active /\ y.state \in {"ASSIGNED", "OBSERVING"} /\ y.attempt = a
        BY ZenonT(60), <1>2, <2>1, <3>1 DEF Active
      <4> QED BY <1>2, <1>3, <1>4, <3>1, <4>1
    <3>2. CASE o # a
      <4>1. o \in DOMAIN attempts \ {a} /\ attempts'[o] = attempts[o]
        BY ZenonT(60), <1>2, <3>2
      <4>2. trials'[attempts[o].trial] = trials[attempts[o].trial]
        BY ZenonT(60), <1>4, <1>5, <2>1, <4>1
      <4> QED BY <1>1, <2>1, <4>1, <4>2 DEF OpenMatched
    <3> QED BY ZenonT(60), <3>1, <3>2
  <2>2. ASSUME NEW s \in Trials, trials'[s].state \in {"ASSIGNED", "OBSERVING"}
        PROVE  /\ trials'[s].attempt \in DOMAIN attempts'
               /\ attempts'[trials'[s].attempt].trial = s
               /\ attempts'[trials'[s].attempt].state \in Active
    <3>1. CASE s = t
      BY ZenonT(60), <1>2, <1>4, <2>2, <3>1
    <3>2. CASE s # t
      <4>1. trials'[s] = trials[s]
        BY ZenonT(60), <1>4, <3>2
      <4>2. /\ trials[s].attempt \in DOMAIN attempts /\ attempts[trials[s].attempt].trial = s
            /\ attempts[trials[s].attempt].state \in Active
        BY ZenonT(60), <1>1, <2>2, <4>1 DEF OpenMatched
      <4>3. trials[s].attempt # a
        BY ZenonT(60), <1>3, <3>2, <4>2
      <4> QED BY ZenonT(60), <1>2, <4>1, <4>2, <4>3
    <3> QED BY ZenonT(60), <3>1, <3>2
  <2>3. ASSUME NEW s \in Trials, trials'[s].state = "READY" PROVE trials'[s].attempt = 0
    BY ZenonT(60), <1>1, <1>4, <2>3 DEF OpenMatched
  <2> QED BY ZenonT(60), <2>1, <2>2, <2>3 DEF OpenMatched
<1>7. ResultKept'
  <2> SUFFICES ASSUME NEW o \in DOMAIN attempts', attempts'[o].state = "COMPLETED"
               PROVE  trials'[attempts'[o].trial].attempt = o /\ trials'[attempts'[o].trial].state = "COMPLETED"
    BY ZenonT(60) DEF ResultKept
  <2>1. CASE o = a
    BY ZenonT(60), <1>2, <1>4, <2>1 DEF Active
  <2>2. CASE o # a
    <3>1. o \in DOMAIN attempts \ {a} /\ attempts'[o] = attempts[o]
      BY ZenonT(60), <1>2, <2>2
    <3>2. trials'[attempts[o].trial] = trials[attempts[o].trial]
      BY ZenonT(60), <1>4, <1>5, <3>1
    <3> QED BY <1>1, <3>1, <3>2 DEF ResultKept
  <2> QED BY ZenonT(60), <2>1, <2>2
<1>8. r \in Reply /\ r.code = "OK" /\ r.given = << >> /\ r # None
  <2>1. r \in Reply
    BY DEF Reply, Codes
  <2> QED BY ZenonT(60), <2>1, ConstantsAssumption DEF Reply
<1> HIDE DEF r
<1>9. proc' = [proc EXCEPT ![b] = p]
  BY ZenonT(60) DEF Answer, r, RuntimeInv, RuntimeType
<1>10. p \in Process
  BY ZenonT(60), <1>1, <1>8 DEF Process
<1>11. /\ p.pc = q.pc /\ p.todo = q.todo /\ p.reply = r /\ p.connected = q.connected /\ p.epoch = q.epoch
       /\ p.refused = q.refused /\ p.published = q.published
  BY ZenonT(60), <1>1 DEF Process
<1>12. q.pc \in AtWork /\ q.pc \in Calls /\ q.pc \notin {"off", "ended"} /\ q.pc # "claim"
  BY DEF AtWork, Calls
<1> HIDE DEF p
<1>13. proc'[b] = p /\ (\A c \in Boots \ {b} : proc'[c] = proc[c]) /\ proc' \in [Boots -> Process]
  BY ZenonT(60), <1>9, <1>10 DEF RuntimeInv, RuntimeType
<1>14. Started' = Started
  <2>1. proc'[b].pc = proc[b].pc
    BY ZenonT(60), <1>11, <1>13
  <2>2. \A c \in Boots : proc'[c].pc = proc[c].pc
    BY ZenonT(60), <1>13, <2>1
  <2> QED BY ZenonT(60), <2>2 DEF Started
<1>15. HandsFit(proc[b])'
  <2>1. HandsFit(q)
    BY ZenonT(60), <1>1 DEF Fits
  <2>2. \A i \in DOMAIN p.todo : p.todo[i] \in DOMAIN attempts'
    BY ZenonT(60), <1>2, <1>11, <2>1 DEF HandsFit
  <2>3. p.todo # << >> /\ p.pc \in Calls /\ p.pc \notin {"register", "claim", "loop"}
    BY ZenonT(60), <1>11, <1>12, <2>1 DEF HandsFit
  <2>4. p.reply.given = << >>
    BY ZenonT(60), <1>8, <1>11
  <2>5. \A i \in DOMAIN p.reply.given : p.reply.given[i] \in DOMAIN attempts'
    BY <2>4
  <2> QED BY ZenonT(60), <1>13, <2>2, <2>3, <2>4, <2>5 DEF HandsFit
<1>16. RepliesFit(b, proc[b])'
  <2>1. q.pc \in {"fail", "give_up", "commit"} => a \notin Of(b, Active)'
    BY ZenonT(60), <1>2 DEF Active
  <2> QED BY ZenonT(60), <1>11, <1>13, <2>1 DEF RepliesFit, Hand
<1>17. Remembers(b, proc[b])'
  <2> SUFFICES ASSUME q.connected, NEW o \in Of(b, Active)'
               PROVE  \/ \E i \in DOMAIN q.todo : q.todo[i] = o
                      \/ o \in q.refused
    BY SMTT(60), <1>11, <1>13 DEF Remembers
  <2>1. CASE o = a
    BY <1>12, <2>1, InHand
  <2>2. CASE o # a
    <3>1. o \in Of(b, Active) /\ attempts'[o] = attempts[o]
      BY ZenonT(60), <1>2, <2>2 DEF Of
    <3> QED BY ZenonT(60), <1>1, <1>12, <3>1 DEF Fits, Remembers
  <2> QED BY ZenonT(60), <2>1, <2>2
<1>18. CountFits(b, proc[b])'
  <2> DEFINE C == Of(b, {"COMPLETED"})
             D == Of(b, {"COMPLETED"})'
  <2>1. IsFiniteSet(C) /\ Cardinality(C) \in Nat /\ q.published \in Nat
    BY ZenonT(60), <1>1, OfFinite DEF Process
  <2>2. q.published <= Cardinality(C) /\ (q.connected => q.published = Cardinality(C))
    <3>1. Due(q) = 0
      BY ZenonT(60) DEF Due
    <3> QED BY <1>1, <2>1, <3>1 DEF Fits, CountFits
  <2>3. Cardinality(D) = Cardinality(C) + Due(p) /\ Due(p) \in Nat
    <3>1. CASE q.pc = "commit"
      <4>1. D = C \cup {a} /\ a \notin C
        BY ZenonT(60), <1>2, <3>1
      <4>2. Cardinality(C \cup {a}) = Cardinality(C) + 1
        BY ZenonT(60), <2>1, <4>1, FS_AddElement
      <4>3. Due(p) = 1
        BY ZenonT(60), <1>8, <1>11, <3>1 DEF Due
      <4> HIDE DEF C, D
      <4> QED BY <4>1, <4>2, <4>3
    <3>2. CASE q.pc # "commit"
      <4>1. D = C
        BY ZenonT(60), <1>2, <3>2 DEF Active
      <4>2. Due(p) = 0
        BY ZenonT(60), <1>11, <3>2 DEF Due
      <4> HIDE DEF C, D
      <4> QED BY <2>1, <4>1, <4>2
    <3> QED BY ZenonT(60), <3>1, <3>2
  <2>4. Due(proc[b])' = Due(p)
    BY ZenonT(60), <1>13 DEF Due
  <2>5. /\ q.published + Due(p) <= Cardinality(D)
        /\ q.connected => q.published + Due(p) = Cardinality(D)
    <3> HIDE DEF C, D
    <3> QED BY <2>1, <2>2, <2>3
  <2> QED BY ZenonT(60), <1>11, <1>13, <2>4, <2>5 DEF CountFits
<1>19. Fits(b, proc[b])'
  <2>1. Of(b, Active)' # {} => p.epoch = epoch'
    BY ZenonT(60), <1>1, <1>2, <1>11, <1>12 DEF Fits
  <2> QED BY ZenonT(60), <1>11, <1>12, <1>13, <1>15, <1>16, <1>17, <1>18, <2>1 DEF Fits
<1>20. ASSUME NEW c \in Boots \ {b} PROVE Fits(c, proc[c])'
  <2>1. Fits(c, proc'[c])
    BY ZenonT(60), <1>13 DEF RuntimeInv
  <2> QED BY ZenonT(60), <1>2, <2>1, UndisturbedFits
<1>21. WithinConcurrency'
  <2>1. \A c \in Boots : Of(c, Active)' \subseteq Of(c, Active)
    BY ZenonT(60), <1>2 DEF Undisturbed
  <2> QED BY ZenonT(60), <2>1, StillWithin
<1>22. RuntimeType'
  BY ZenonT(60), <1>1, <1>2, <1>4, <1>13 DEF RuntimeType
<1>23. \A o \in DOMAIN attempts' : attempts'[o].boot \in Started
  BY ZenonT(60), <1>2 DEF RuntimeInv, StartedInOrder
<1>24. \A c \in Boots : Fits(c, proc[c])'
  BY ZenonT(60), <1>19, <1>20
<1> QED BY ZenonT(60), <1>6, <1>7, <1>14, <1>21, <1>22, <1>23, <1>24, RecordsStep
\* publish_observation.
LEMMA PublishFits ==
  ASSUME RuntimeInv, NEW b \in Boots, proc[b].pc = "publish", proc[b].reply = None, PublishObservation(b)
  PROVE  RuntimeInv'
<1> DEFINE a == Hand(b)
<1>1. /\ proc[b].pc \in AtWork /\ proc[b].pc \in Calls /\ proc[b].pc \notin {"fail", "give_up", "commit"}
      /\ "INVALID_OBSERVATION" \in Codes
  BY ZenonT(60) DEF AtWork, Calls, Codes
<1>2. CASE /\ check_envelope(b, a) = "OK"
           /\ attempts' = [attempts EXCEPT ![a].observations = @ + 1, ![a].state = "RUNNING"]
           /\ trials' = [trials EXCEPT ![attempts[a].trial].state = "OBSERVING"]
           /\ proc' = Answer(b, "OK", << >>)
           /\ UNCHANGED <<epoch, live, workers, faults, spare>>
  <2> DEFINE n == attempts[a].observations + 1
             x == [attempts[a] EXCEPT !.observations = n, !.state = "RUNNING"]
             y == [trials[attempts[a].trial] EXCEPT !.state = "OBSERVING"]
  <2>1. a \in Of(b, Active)
    BY ZenonT(60), <1>1, <1>2, EnvelopeAccepted
  <2>2. /\ a \in DOMAIN attempts /\ attempts[a] \in Attempt /\ attempts[a].boot = b
        /\ trials[attempts[a].trial].attempt = a /\ attempts[a].trial \in Trials
        /\ trials \in [Trials -> Trial]
    BY ZenonT(60), <1>1, <1>2, EnvelopeAccepted
  <2>3. n \in Nat /\ "RUNNING" \in Active
    BY <2>2 DEF Attempt, Active
  <2>4. attempts' = [attempts EXCEPT ![a] = x] /\ trials' = [trials EXCEPT ![attempts[a].trial] = y]
    BY ZenonT(60), <1>2, <2>2 DEF RuntimeInv, RuntimeType
  <2> HIDE DEF n
  <2>5. /\ x \in Attempt /\ x.boot = b /\ x.trial = attempts[a].trial /\ x.epoch = attempts[a].epoch
        /\ x.state = "RUNNING"
    BY ZenonT(60), <2>2, <2>3 DEF Attempt
  <2>6. trials[attempts[a].trial] \in Trial
    BY <2>2
  <2>7. y \in Trial /\ y.state = "OBSERVING" /\ y.attempt = a
    BY ZenonT(60), <2>2, <2>6 DEF Trial
  <2>8. epoch' = epoch /\ live' = live /\ proc' = Answer(b, "OK", << >>)
    BY ZenonT(60), <1>2
  <2> HIDE DEF a, x, y
  <2> QED BY ZenonT(60), <2>1, <2>3, <2>4, <2>5, <2>7, <2>8, PointFits DEF a
<1>3. CASE check_envelope(b, a) = "OK" /\ Refuse(b, "INVALID_OBSERVATION")
  <2>1. proc' = Answer(b, "INVALID_OBSERVATION", << >>) /\ UNCHANGED coordinator
    BY ZenonT(60), <1>3 DEF Refuse
  <2> QED BY ZenonT(60), <1>1, <2>1, RefuseFits
<1>4. CASE check_envelope(b, a) # "OK" /\ Refuse(b, check_envelope(b, a))
  <2> DEFINE code == check_envelope(b, a)
  <2>1. proc' = Answer(b, code, << >>) /\ UNCHANGED coordinator /\ code \in Codes
    BY ZenonT(60), <1>1, <1>4, EnvelopeRefused DEF Refuse
  <2> HIDE DEF code
  <2> QED BY ZenonT(60), <1>1, <2>1, RefuseFits
<1> QED BY ZenonT(60), <1>2, <1>3, <1>4 DEF PublishObservation

\* fail_trial.
LEMMA FailFits ==
  ASSUME RuntimeInv, NEW b \in Boots, proc[b].pc \in {"fail", "give_up"}, proc[b].reply = None, FailTrial(b)
  PROVE  RuntimeInv'
<1> DEFINE a == Hand(b)
           t == attempts[a].trial
           retry_allowed == proc[b].retryable /\ trials[t].attempt_count < MaxAttempts
<1>1. proc[b].pc \in AtWork /\ proc[b].pc \in Calls
  BY ZenonT(60) DEF AtWork, Calls
<1>2. CASE /\ check_envelope(b, a) = "OK"
           /\ attempts' = [attempts EXCEPT ![a].state = "FAILED"]
           /\ trials' = [trials EXCEPT ![t].state = IF retry_allowed THEN "READY" ELSE "FAILED",
                                       ![t].attempt = IF retry_allowed THEN 0 ELSE @]
           /\ proc' = Answer(b, "OK", << >>)
           /\ UNCHANGED <<epoch, live, workers, faults, spare>>
  <2> DEFINE k == IF retry_allowed THEN "READY" ELSE "FAILED"
             m == IF retry_allowed THEN 0 ELSE trials[t].attempt
             x == [attempts[a] EXCEPT !.state = "FAILED"]
             y == [trials[t] EXCEPT !.state = k, !.attempt = m]
  <2>1. a \in Of(b, Active)
    BY ZenonT(60), <1>1, <1>2, EnvelopeAccepted
  <2>2. /\ a \in DOMAIN attempts /\ attempts[a] \in Attempt /\ attempts[a].boot = b
        /\ t \in Trials /\ trials \in [Trials -> Trial]
    BY ZenonT(60), <1>1, <1>2, EnvelopeAccepted
  <2>3. trials[t] \in Trial /\ trials[t].attempt \in Nat
    BY ZenonT(60), <2>2 DEF Trial
  <2>4. m \in Nat /\ (k = "FAILED" \/ (k = "READY" /\ m = 0))
    BY ZenonT(60), <2>3
  <2>5. attempts' = [attempts EXCEPT ![a] = x] /\ trials' = [trials EXCEPT ![t] = y]
    BY ZenonT(60), <1>2, <2>2 DEF RuntimeInv, RuntimeType
  <2> HIDE DEF k, m
  <2>6. /\ x \in Attempt /\ x.boot = b /\ x.trial = t /\ x.epoch = attempts[a].epoch
        /\ x.state = "FAILED"
    BY <2>2 DEF Attempt
  <2>7. y \in Trial /\ y.state = k /\ y.attempt = m
    BY ZenonT(60), <2>3, <2>4 DEF Trial, Terminal
  <2>8. epoch' = epoch /\ live' = live /\ proc' = Answer(b, "OK", << >>)
    BY <1>2
  <2> HIDE DEF a, x, y
  <2> QED BY ZenonT(60), <2>1, <2>4, <2>5, <2>6, <2>7, <2>8, PointFits DEF a
<1>3. CASE check_envelope(b, a) # "OK" /\ Refuse(b, check_envelope(b, a))
  <2> DEFINE code == check_envelope(b, a)
  <2>1. /\ proc' = Answer(b, code, << >>) /\ UNCHANGED coordinator /\ code \in Codes
        /\ Hand(b) \notin Of(b, Active)
    BY ZenonT(60), <1>1, <1>3, EnvelopeRefused DEF Refuse
  <2> HIDE DEF code
  <2> QED BY ZenonT(60), <1>1, <2>1, RefuseFits
<1>4. CASE check_envelope(b, a) = "OK" /\ proc[b].pc = "fail" /\ Refuse(b, "INVALID_ARGUMENT")
  <2>1. /\ proc' = Answer(b, "INVALID_ARGUMENT", << >>) /\ UNCHANGED coordinator
        /\ "INVALID_ARGUMENT" \in Codes /\ "INVALID_ARGUMENT" \in ContentRefusals
    BY ZenonT(60), <1>4 DEF Refuse, Codes, ContentRefusals
  <2> QED BY ZenonT(60), <1>1, <2>1, RefuseFits
<1> QED BY ZenonT(60), <1>2, <1>3, <1>4 DEF FailTrial

\* commit_trial.
LEMMA CommitFits ==
  ASSUME RuntimeInv, NEW b \in Boots, proc[b].pc = "commit", proc[b].reply = None, CommitTrial(b)
  PROVE  RuntimeInv'
<1> DEFINE a == Hand(b)
           t == attempts[a].trial
           code == IF check_envelope(b, a) # "OK" THEN check_envelope(b, a)
                   ELSE IF attempts[a].observations = 0 THEN "INSUFFICIENT_EVIDENCE" ELSE "OK"
<1>1. proc[b].pc \in AtWork /\ proc[b].pc \in Calls /\ proc[b].pc \notin {"fail", "give_up"}
  BY ZenonT(60) DEF AtWork, Calls
<1>2. CASE /\ code = "OK"
           /\ attempts' = [attempts EXCEPT ![a].state = "COMPLETED"]
           /\ trials' = [trials EXCEPT ![t].state = "COMPLETED"]
           /\ proc' = Answer(b, "OK", << >>)
           /\ UNCHANGED <<epoch, live, workers, faults, spare>>
  <2> DEFINE x == [attempts[a] EXCEPT !.state = "COMPLETED"]
             y == [trials[t] EXCEPT !.state = "COMPLETED"]
  <2>1. a \in Of(b, Active)
    BY ZenonT(60), <1>1, <1>2, EnvelopeAccepted
  <2>2. /\ a \in DOMAIN attempts /\ attempts[a] \in Attempt /\ attempts[a].boot = b
        /\ trials[t].attempt = a /\ t \in Trials /\ trials \in [Trials -> Trial]
    BY ZenonT(60), <1>1, <1>2, EnvelopeAccepted
  <2>3. trials[t] \in Trial /\ "COMPLETED" \in Terminal
    BY ZenonT(60), <2>2 DEF Terminal
  <2>4. attempts' = [attempts EXCEPT ![a] = x] /\ trials' = [trials EXCEPT ![t] = y]
    BY ZenonT(60), <1>2, <2>2 DEF RuntimeInv, RuntimeType
  <2>5. /\ x \in Attempt /\ x.boot = b /\ x.trial = t /\ x.epoch = attempts[a].epoch
        /\ x.state = "COMPLETED"
    BY ZenonT(60), <2>2 DEF Attempt
  <2>6. y \in Trial /\ y.state = "COMPLETED" /\ y.attempt = a
    BY ZenonT(60), <2>2, <2>3 DEF Trial
  <2>7. epoch' = epoch /\ live' = live /\ proc' = Answer(b, "OK", << >>)
    BY ZenonT(60), <1>2
  <2> HIDE DEF a, x, y
  <2> QED BY ZenonT(60), <2>1, <2>4, <2>5, <2>6, <2>7, PointFits DEF a
<1>3. CASE code # "OK" /\ Refuse(b, code)
  <2>1. code \in Codes /\ (Hand(b) \notin Of(b, Active) \/ code \in ContentRefusals)
    BY ZenonT(60), <1>1, <1>3, EnvelopeRefused DEF Codes, ContentRefusals
  <2>2. proc' = Answer(b, code, << >>) /\ UNCHANGED coordinator /\ code # "OK"
    BY ZenonT(60), <1>3 DEF Refuse
  <2> HIDE DEF code
  <2> QED BY ZenonT(60), <1>1, <2>1, <2>2, RefuseFits
<1>4. CASE code = "OK" /\ Refuse(b, "INVALID_ARGUMENT")
  <2>1. /\ proc' = Answer(b, "INVALID_ARGUMENT", << >>) /\ UNCHANGED coordinator
        /\ "INVALID_ARGUMENT" \in Codes /\ "INVALID_ARGUMENT" \in ContentRefusals
    BY ZenonT(60), <1>4 DEF Refuse, Codes, ContentRefusals
  <2> QED BY ZenonT(60), <1>1, <2>1, RefuseFits
<1> QED BY ZenonT(60), <1>2, <1>3, <1>4 DEF CommitTrial
\* claim_trials issues an attempt for each trial it gives, and nothing else changes.
LEMMA ClaimRecords ==
  ASSUME RuntimeInv, NEW b \in Boots, NEW n \in Nat, NEW given \in [1 .. n -> Trials],
         \A i, j \in 1 .. n : i < j => given[i] < given[j],
         attempts' = attempts \o [i \in 1 .. n |->
                                    [trial |-> given[i], boot |-> b, epoch |-> epoch, state |-> "ISSUED",
                                     observations |-> 0]],
         trials' = [t \in Trials |->
                      IF \E i \in 1 .. n : given[i] = t
                      THEN [state |-> "ASSIGNED",
                            attempt |-> Len(attempts) + (CHOOSE i \in 1 .. n : given[i] = t),
                            attempt_count |-> trials[t].attempt_count + 1]
                      ELSE trials[t]]
  PROVE  /\ attempts' \in Seq(Attempt) /\ DOMAIN attempts' = 1 .. Len(attempts) + n
         /\ DOMAIN attempts = 1 .. Len(attempts) /\ Len(attempts) \in Nat
         /\ \A a \in DOMAIN attempts : attempts'[a] = attempts[a]
         /\ \A i \in 1 .. n :
              attempts'[Len(attempts) + i] = [trial |-> given[i], boot |-> b, epoch |-> epoch,
                                              state |-> "ISSUED", observations |-> 0]
         /\ trials' \in [Trials -> Trial]
         /\ \A i \in 1 .. n : /\ trials'[given[i]].state = "ASSIGNED"
                              /\ trials'[given[i]].attempt = Len(attempts) + i
         /\ \A t \in Trials : (\A i \in 1 .. n : given[i] # t) => trials'[t] = trials[t]
<1> DEFINE L == Len(attempts)
           issued(i) == [trial |-> given[i], boot |-> b, epoch |-> epoch, state |-> "ISSUED",
                         observations |-> 0]
           fresh == [i \in 1 .. n |-> issued(i)]
<1>1. /\ attempts \in Seq(Attempt) /\ trials \in [Trials -> Trial] /\ epoch \in Nat
  BY ZenonT(60) DEF RuntimeInv, RuntimeType
<1>2. L \in Nat /\ DOMAIN attempts = 1 .. L
  BY <1>1
<1>3. \A i \in 1 .. n : issued(i) \in Attempt
  <2>1. "ISSUED" \in Active \cup {"COMPLETED", "FAILED", "ABANDONED"} /\ 0 \in Nat
    BY ZenonT(60) DEF Active
  <2> QED BY ZenonT(30), <1>1, <2>1 DEF Attempt
<1>4. attempts' = attempts \o fresh
  OBVIOUS
<1> HIDE DEF issued
<1>5. fresh \in Seq(Attempt) /\ Len(fresh) = n /\ \A i \in 1 .. n : fresh[i] = issued(i)
  BY <1>3
<1> HIDE DEF fresh
<1>6. /\ attempts' \in Seq(Attempt) /\ DOMAIN attempts' = 1 .. L + n
      /\ \A a \in 1 .. L + n : attempts'[a] = IF a <= L THEN attempts[a] ELSE fresh[a - L]
  <2> DEFINE all == attempts \o fresh
  <2>1. /\ all \in Seq(Attempt) /\ Len(all) = L + n
        /\ \A a \in 1 .. L + n : all[a] = IF a <= L THEN attempts[a] ELSE fresh[a - L]
    BY ZenonT(60), <1>1, <1>5, Joined
  <2> HIDE DEF all
  <2>2. DOMAIN all = 1 .. L + n
    BY <2>1
  <2>3. attempts' = all
    BY ZenonT(60), <1>4 DEF all
  <2> QED BY ZenonT(60), <2>1, <2>2, <2>3
<1> HIDE DEF L
<1>7. \A a \in DOMAIN attempts : attempts'[a] = attempts[a]
  BY <1>2, <1>6
<1>8. ASSUME NEW i \in 1 .. n PROVE attempts'[L + i] = issued(i)
  <2>1. L + i \in 1 .. L + n /\ ~(L + i <= L) /\ (L + i) - L = i
    BY <1>2
  <2>2. attempts'[L + i] = fresh[(L + i) - L]
    BY ZenonT(60), <1>6, <2>1
  <2> QED BY ZenonT(60), <1>5, <2>1, <2>2
<1>9. \A i, j \in 1 .. n : given[i] = given[j] => i = j
  <2> SUFFICES ASSUME NEW i \in 1 .. n, NEW j \in 1 .. n, given[i] = given[j] PROVE i = j
    OBVIOUS
  <2>1. given[i] \in Nat
    BY ZenonT(60), Bounds
  <2>2. ~(i < j) /\ ~(j < i)
    <3> DEFINE g == given[i]
               h == given[j]
    <3>1. (i < j => g < h) /\ (j < i => h < g) /\ g = h /\ g \in Nat
      BY ZenonT(60), <2>1
    <3> HIDE DEF g, h
    <3> QED BY <3>1
  <2> QED BY <2>2
<1>10. ASSUME NEW i \in 1 .. n
       PROVE  trials'[given[i]].state = "ASSIGNED" /\ trials'[given[i]].attempt = L + i
  <2>1. (CHOOSE k \in 1 .. n : given[k] = given[i]) = i
    BY ZenonT(60), <1>9
  <2>2. given[i] \in Trials
    OBVIOUS
  <2>3. trials'[given[i]] = [state |-> "ASSIGNED",
                             attempt |-> L + (CHOOSE k \in 1 .. n : given[k] = given[i]),
                             attempt_count |-> trials[given[i]].attempt_count + 1]
    BY ZenonT(60), <2>2 DEF L
  <2> QED BY ZenonT(60), <2>1, <2>3
<1>11. ASSUME NEW t \in Trials PROVE trials'[t] \in Trial
  <2>1. trials[t] \in Trial
    BY ZenonT(60), <1>1
  <2>2. CASE \E i \in 1 .. n : given[i] = t
    <3> DEFINE m == L + (CHOOSE i \in 1 .. n : given[i] = t)
               k == trials[t].attempt_count + 1
    <3>1. (CHOOSE i \in 1 .. n : given[i] = t) \in 1 .. n
      BY ZenonT(60), <2>2
    <3>2. m \in Nat
      BY <1>2, <3>1
    <3>3. k \in Nat /\ "ASSIGNED" \in {"READY", "ASSIGNED", "OBSERVING"} \cup Terminal
      BY <2>1 DEF Trial
    <3>4. trials'[t] = [state |-> "ASSIGNED", attempt |-> m, attempt_count |-> k]
      BY ZenonT(60), <2>2 DEF L
    <3> HIDE DEF m, k
    <3> QED BY <3>2, <3>3, <3>4 DEF Trial
  <2>3. CASE ~ \E i \in 1 .. n : given[i] = t
    BY ZenonT(60), <2>1, <2>3
  <2> QED BY ZenonT(60), <2>2, <2>3
<1>12. trials' \in [Trials -> Trial]
  <2>1. trials' = [t \in Trials |-> trials'[t]]
    OBVIOUS
  <2> QED BY ZenonT(60), <1>11, <2>1
<1>13. ASSUME NEW t \in Trials, \A i \in 1 .. n : given[i] # t PROVE trials'[t] = trials[t]
  BY <1>13
<1> QED BY ZenonT(60), <1>2, <1>6, <1>7, <1>8, <1>10, <1>12, <1>13 DEF L, issued
\* claim_trials: the process gets no more than it may have, and its reply names what it got.
LEMMA ClaimFits ==
  ASSUME RuntimeInv, NEW b \in Boots, proc[b].pc = "claim", proc[b].reply = None, ClaimTrials(b)
  PROVE  RuntimeInv'
<1> DEFINE ready == {t \in Trials : trials[t].state = "READY" /\ trials[t].attempt_count < MaxAttempts}
           budget == IF Current(b) = "OK" THEN Slots(b) ELSE 0
           L == Len(attempts)
           q == proc[b]
<1> DEFINE Claims(n, given) ==
        /\ n <= budget
        /\ \A i, j \in 1 .. n : i < j => given[i] < given[j]
        /\ attempts' = attempts \o [i \in 1 .. n |->
                                      [trial |-> given[i], boot |-> b, epoch |-> epoch, state |-> "ISSUED",
                                       observations |-> 0]]
        /\ trials' = [t \in Trials |->
                        IF \E i \in 1 .. n : given[i] = t
                        THEN [state |-> "ASSIGNED",
                              attempt |-> L + (CHOOSE i \in 1 .. n : given[i] = t),
                              attempt_count |-> trials[t].attempt_count + 1]
                        ELSE trials[t]]
        /\ proc' = Answer(b, Current(b), [i \in 1 .. n |-> L + i])
        /\ epoch' = epoch /\ live' = live
<1>0. PICK n \in 0 .. Concurrency : \E given \in [1 .. n -> ready] : Claims(n, given)
  BY ZenonT(60) DEF ClaimTrials
<1>1. PICK given \in [1 .. n -> ready] : Claims(n, given)
  BY ZenonT(60), <1>0
<1> DEFINE gave == [i \in 1 .. n |-> L + i]
           r == [code |-> Current(b), given |-> gave]
           p == [q EXCEPT !.reply = r]
<1>2. n \in Nat /\ given \in [1 .. n -> Trials] /\ \A i \in 1 .. n : trials[given[i]].state = "READY"
  BY Bounds
<1>3. /\ attempts' \in Seq(Attempt) /\ DOMAIN attempts' = 1 .. L + n
      /\ DOMAIN attempts = 1 .. L /\ L \in Nat
      /\ \A a \in DOMAIN attempts : attempts'[a] = attempts[a]
      /\ \A i \in 1 .. n :
           attempts'[L + i] = [trial |-> given[i], boot |-> b, epoch |-> epoch,
                               state |-> "ISSUED", observations |-> 0]
      /\ trials' \in [Trials -> Trial]
      /\ \A i \in 1 .. n : trials'[given[i]].state = "ASSIGNED" /\ trials'[given[i]].attempt = L + i
      /\ \A t \in Trials : (\A i \in 1 .. n : given[i] # t) => trials'[t] = trials[t]
  BY ZenonT(60), <1>1, <1>2, ClaimRecords
<1>4. n > 0 => Current(b) = "OK"
  BY <1>1, <1>2
<1>5. /\ RuntimeType /\ OpenMatched /\ ResultKept /\ q \in Process /\ Fits(b, q) /\ q.pc = "claim"
      /\ q.todo = << >> /\ q.reply = None
  BY ZenonT(60) DEF RuntimeInv, RuntimeType, Fits, HandsFit
<1> HIDE DEF L, ready, budget
<1>6. ASSUME NEW i \in 1 .. n
      PROVE  /\ L + i \in DOMAIN attempts' /\ L + i \notin DOMAIN attempts
             /\ attempts'[L + i].trial = given[i] /\ attempts'[L + i].boot = b
             /\ attempts'[L + i].epoch = epoch /\ attempts'[L + i].state = "ISSUED"
  <2>1. L + i \in 1 .. L + n /\ L + i \notin 1 .. L
    BY ZenonT(60), <1>2, <1>3, AddedPositions
  <2>2. attempts'[L + i] = [trial |-> given[i], boot |-> b, epoch |-> epoch,
                            state |-> "ISSUED", observations |-> 0]
    BY ZenonT(30), <1>3
  <2>3. L + i \in DOMAIN attempts' /\ L + i \notin DOMAIN attempts
    BY ZenonT(60), <1>3, <2>1
  <2> QED BY <2>2, <2>3
<1>7. ASSUME NEW a \in DOMAIN attempts'
      PROVE  a \in DOMAIN attempts \/ \E i \in 1 .. n : a = L + i
  <2>1. \A x \in 1 .. L + n : x \in 1 .. L \/ \E i \in 1 .. n : x = L + i
    BY ZenonT(60), <1>2, <1>3, AddedPositions
  <2> QED BY ZenonT(60), <1>3, <2>1
<1>8. DOMAIN attempts \subseteq DOMAIN attempts'
  BY ZenonT(60), <1>2, <1>3, AddedPositions
<1>9. ASSUME NEW a \in DOMAIN attempts, attempts[a].state \in Active \cup {"COMPLETED"}
      PROVE  trials'[attempts[a].trial] = trials[attempts[a].trial]
  <2>1. attempts[a] \in Attempt
    BY <1>5 DEF RuntimeType
  <2>2. attempts[a].trial \in Trials
    BY ZenonT(60), <2>1 DEF Attempt
  <2>3. trials[attempts[a].trial].state # "READY"
    BY ZenonT(60), <1>5, <1>9 DEF OpenMatched, ResultKept
  <2>4. \A i \in 1 .. n : given[i] # attempts[a].trial
    BY ZenonT(60), <1>2, <2>3
  <2> QED BY ZenonT(60), <1>3, <2>2, <2>4
<1>10. OpenMatched'
  <2>1. ASSUME NEW a \in DOMAIN attempts', attempts'[a].state \in Active
        PROVE  /\ live'[attempts'[a].boot] = "live" /\ attempts'[a].epoch = epoch'
               /\ trials'[attempts'[a].trial].attempt = a
               /\ trials'[attempts'[a].trial].state \in {"ASSIGNED", "OBSERVING"}
    <3>1. CASE a \in DOMAIN attempts
      <4>1. attempts'[a] = attempts[a] /\ attempts[a].state \in Active
        BY ZenonT(60), <1>3, <2>1, <3>1
      <4>2. /\ live[attempts[a].boot] = "live" /\ attempts[a].epoch = epoch
            /\ trials[attempts[a].trial].attempt = a
            /\ trials[attempts[a].trial].state \in {"ASSIGNED", "OBSERVING"}
        BY ZenonT(60), <1>5, <3>1, <4>1 DEF OpenMatched
      <4> QED BY ZenonT(60), <1>1, <1>9, <3>1, <4>1, <4>2
    <3>2. ASSUME NEW i \in 1 .. n, a = L + i
          PROVE  /\ live'[attempts'[a].boot] = "live" /\ attempts'[a].epoch = epoch'
                 /\ trials'[attempts'[a].trial].attempt = a
                 /\ trials'[attempts'[a].trial].state \in {"ASSIGNED", "OBSERVING"}
      <4>1. n > 0
        BY <1>2, <3>2
      <4>2. live[b] = "live"
        BY ZenonT(60), <1>4, <4>1 DEF Current
      <4>3. /\ attempts'[a].trial = given[i] /\ attempts'[a].boot = b /\ attempts'[a].epoch = epoch
        BY ZenonT(60), <1>6, <3>2
      <4>4. trials'[given[i]].state = "ASSIGNED" /\ trials'[given[i]].attempt = a
        BY ZenonT(30), <1>3, <3>2
      <4>5. epoch' = epoch /\ live' = live
        BY ZenonT(60), <1>1
      <4> QED BY ZenonT(60), <4>2, <4>3, <4>4, <4>5
    <3> QED BY ZenonT(60), <1>7, <3>1, <3>2
  <2>2. ASSUME NEW t \in Trials, trials'[t].state \in {"ASSIGNED", "OBSERVING"}
        PROVE  /\ trials'[t].attempt \in DOMAIN attempts'
               /\ attempts'[trials'[t].attempt].trial = t
               /\ attempts'[trials'[t].attempt].state \in Active
    <3>1. ASSUME NEW i \in 1 .. n, given[i] = t
          PROVE  /\ trials'[t].attempt \in DOMAIN attempts'
                 /\ attempts'[trials'[t].attempt].trial = t
                 /\ attempts'[trials'[t].attempt].state \in Active
      BY ZenonT(60), <1>3, <1>6, <3>1 DEF Active
    <3>2. CASE \A i \in 1 .. n : given[i] # t
      <4>1. trials'[t] = trials[t]
        BY ZenonT(60), <1>3, <3>2
      <4>2. /\ trials[t].attempt \in DOMAIN attempts /\ attempts[trials[t].attempt].trial = t
            /\ attempts[trials[t].attempt].state \in Active
        BY ZenonT(60), <1>5, <2>2, <4>1 DEF OpenMatched
      <4> QED BY ZenonT(60), <1>3, <1>8, <4>1, <4>2
    <3> QED BY ZenonT(60), <3>1, <3>2
  <2>3. ASSUME NEW t \in Trials, trials'[t].state = "READY" PROVE trials'[t].attempt = 0
    <3>1. \A i \in 1 .. n : given[i] # t
      BY ZenonT(60), <1>3, <2>3
    <3>2. trials'[t] = trials[t]
      BY ZenonT(60), <1>3, <3>1
    <3> QED BY ZenonT(60), <1>5, <2>3, <3>2 DEF OpenMatched
  <2> QED BY ZenonT(60), <2>1, <2>2, <2>3 DEF OpenMatched
<1>11. ResultKept'
  <2> SUFFICES ASSUME NEW a \in DOMAIN attempts', attempts'[a].state = "COMPLETED"
               PROVE  trials'[attempts'[a].trial].attempt = a /\ trials'[attempts'[a].trial].state = "COMPLETED"
    BY ZenonT(60) DEF ResultKept
  <2>1. a \in DOMAIN attempts
    BY ZenonT(60), <1>6, <1>7
  <2>2. attempts'[a] = attempts[a]
    BY ZenonT(60), <1>3, <2>1
  <2> QED BY <1>5, <1>9, <2>1, <2>2 DEF ResultKept
<1>12. /\ \A c \in Boots \ {b} : Of(c, Active)' = Of(c, Active)
       /\ \A c \in Boots : Of(c, {"COMPLETED"})' = Of(c, {"COMPLETED"})
  <2>1. ASSUME NEW c \in Boots, NEW X, c # b \/ "ISSUED" \notin X PROVE Of(c, X)' = Of(c, X)
    <3>1. ASSUME NEW a \in Of(c, X)' PROVE a \in Of(c, X)
      <4>1. a \in DOMAIN attempts' /\ attempts'[a].boot = c /\ attempts'[a].state \in X
        BY ZenonT(60), <3>1 DEF Of
      <4>2. a \in DOMAIN attempts
        BY ZenonT(60), <1>6, <1>7, <2>1, <4>1
      <4> QED BY ZenonT(60), <1>3, <4>1, <4>2 DEF Of
    <3>2. ASSUME NEW a \in Of(c, X) PROVE a \in Of(c, X)'
      BY ZenonT(60), <1>3, <1>8, <3>2 DEF Of
    <3> QED BY ZenonT(60), <3>1, <3>2
  <2> QED BY ZenonT(60), <2>1
<1>13. Of(b, Active)' \subseteq Of(b, Active) \cup (L + 1 .. L + n)
  <2> SUFFICES ASSUME NEW a \in Of(b, Active)', a \notin Of(b, Active) PROVE a \in L + 1 .. L + n
    OBVIOUS
  <2>1. a \in DOMAIN attempts' /\ attempts'[a].boot = b /\ attempts'[a].state \in Active
    BY ZenonT(60) DEF Of
  <2>2. a \notin DOMAIN attempts
    BY ZenonT(60), <1>3, <2>1 DEF Of
  <2>3. PICK i \in 1 .. n : a = L + i
    BY ZenonT(60), <1>7, <2>1, <2>2
  <2> QED BY <1>2, <1>3, <2>3
<1>14. WithinConcurrency'
  <2> SUFFICES ASSUME NEW c \in Boots PROVE Cardinality(Of(c, Active)') <= Concurrency
    BY ZenonT(60) DEF WithinConcurrency
  <2>1. CASE c # b
    BY ZenonT(60), <1>12, <2>1 DEF RuntimeInv, WithinConcurrency
  <2>2. CASE c = b
    <3> DEFINE A == Of(b, Active)
               B == Of(b, Active)'
               F == L + 1 .. L + n
    <3>1. IsFiniteSet(A) /\ Cardinality(A) \in Nat /\ Cardinality(A) <= Concurrency
      BY ZenonT(60), <1>5, OfFinite DEF RuntimeInv, WithinConcurrency
    <3>2. IsFiniteSet(F) /\ Cardinality(F) = n
      BY ZenonT(60), <1>2, <1>3, AddedPositions
    <3>3. n + Cardinality(A) <= Concurrency
      <4>1. CASE n = 0
        BY <3>1, <4>1
      <4>2. CASE n > 0
        <5>1. n <= Slots(b)
          BY ZenonT(60), <1>1, <1>4, <4>2 DEF budget
        <5>2. Slots(b) = Concurrency - Cardinality(A)
          BY ZenonT(60) DEF Slots, Of
        <5> HIDE DEF A
        <5> QED BY ZenonT(60), <1>2, <3>1, <5>1, <5>2, SlotsLeft, Bounds
      <4> QED BY <1>2, <4>1, <4>2
    <3>4. B \subseteq A \cup F
      BY ZenonT(60), <1>13
    <3> HIDE DEF A, B, F
    <3>5. /\ IsFiniteSet(A \cup F)
          /\ Cardinality(A \cup F) = Cardinality(A) + Cardinality(F) - Cardinality(A \cap F)
      BY ZenonT(60), <3>1, <3>2, FS_Union
    <3>6. IsFiniteSet(A \cap F) /\ Cardinality(A \cap F) \in Nat
      BY ZenonT(60), <3>1, FS_Intersection, FS_CardinalityType
    <3>7. IsFiniteSet(B) /\ Cardinality(B) <= Cardinality(A \cup F) /\ Cardinality(B) \in Nat
      BY ZenonT(60), <3>4, <3>5, FS_Subset, FS_CardinalityType
    <3>8. Cardinality(B) <= Concurrency
      BY ZenonT(60), <1>2, <3>1, <3>2, <3>3, <3>5, <3>6, <3>7, UnionFits, Bounds
    <3> QED BY ZenonT(60), <2>2, <3>8 DEF B
  <2> QED BY ZenonT(60), <2>1, <2>2
<1>15. gave \in Seq(Nat) /\ DOMAIN gave = 1 .. n /\ (n = 0 => gave = << >>)
       /\ \A i \in 1 .. n : gave[i] = L + i
  BY <1>2, <1>3
<1> HIDE DEF gave
<1>16. r \in Reply /\ r.code = Current(b) /\ r.given = gave /\ r # None
  <2>1. Current(b) \in Codes
    BY ZenonT(60) DEF Current, Codes
  <2>2. r \in Reply
    BY ZenonT(60), <1>15, <2>1 DEF Reply
  <2> QED BY ZenonT(60), <2>2, ConstantsAssumption DEF Reply
<1> HIDE DEF r
<1>17. proc' = [proc EXCEPT ![b] = p]
  BY ZenonT(60), <1>1, <1>5 DEF Answer, r, gave, RuntimeType
<1>18. p \in Process
  BY ZenonT(60), <1>5, <1>16 DEF Process
<1>19. /\ p.pc = q.pc /\ p.todo = q.todo /\ p.reply = r /\ p.connected = q.connected /\ p.epoch = q.epoch
       /\ p.refused = q.refused /\ p.published = q.published
  BY <1>5 DEF Process
<1> HIDE DEF p
<1>20. proc'[b] = p /\ (\A c \in Boots \ {b} : proc'[c] = proc[c]) /\ proc' \in [Boots -> Process]
  BY ZenonT(60), <1>5, <1>17, <1>18 DEF RuntimeType
<1>21. Started' = Started /\ b \in Started
  BY ZenonT(60), <1>5, <1>19, <1>20 DEF Started
<1>22. HandsFit(proc[b])'
  <2>1. \A i \in DOMAIN r.given : r.given[i] \in DOMAIN attempts'
    BY ZenonT(60), <1>6, <1>15, <1>16
  <2>2. r.code # "OK" => r.given = << >>
    BY <1>2, <1>4, <1>15, <1>16
  <2> QED BY SMTT(60), <1>5, <1>19, <1>20, <2>1, <2>2 DEF HandsFit, AtWork, Calls
<1>23. RepliesFit(b, proc[b])'
  BY ZenonT(60), <1>5, <1>19, <1>20 DEF RepliesFit
<1>24. Remembers(b, proc[b])'
  <2> SUFFICES ASSUME q.connected, NEW a \in Of(b, Active)'
               PROVE  \/ \E i \in DOMAIN gave : gave[i] = a
                      \/ a \in q.refused
    BY ZenonT(60), <1>16, <1>19, <1>20 DEF Remembers
  <2>1. a \in DOMAIN attempts' /\ attempts'[a].boot = b /\ attempts'[a].state \in Active
    BY ZenonT(60) DEF Of
  <2>2. CASE a \in DOMAIN attempts
    <3>1. a \in Of(b, Active) /\ attempts'[a] = attempts[a]
      BY ZenonT(60), <1>3, <2>1, <2>2 DEF Of
    <3> QED BY <1>5, <3>1 DEF Fits, Remembers
  <2>3. ASSUME NEW i \in 1 .. n, a = L + i PROVE \E j \in DOMAIN gave : gave[j] = a
    BY ZenonT(60), <1>15, <2>3
  <2> QED BY ZenonT(60), <1>7, <2>1, <2>2, <2>3
<1>25. CountFits(b, proc[b])'
  <2>1. Due(q) = 0 /\ Due(p) = 0
    BY ZenonT(60), <1>5, <1>19 DEF Due
  <2>2. Due(proc[b])' = Due(p)
    BY ZenonT(60), <1>20 DEF Due
  <2> QED BY ZenonT(60), <1>5, <1>12, <1>19, <1>20, <2>1, <2>2 DEF Fits, CountFits
<1>26. Of(b, Active)' # {} => p.epoch = epoch'
  <2>1. CASE n = 0
    <3>1. L + 1 .. L + n = {}
      BY <1>3, <2>1
    <3> QED BY ZenonT(60), <1>1, <1>5, <1>13, <1>19, <3>1 DEF Fits
  <2>2. CASE n > 0
    BY ZenonT(60), <1>1, <1>4, <1>19, <2>2 DEF Current
  <2> QED BY <1>2, <2>1, <2>2
<1>27. Fits(b, proc[b])'
  BY ZenonT(60), <1>5, <1>19, <1>20, <1>22, <1>23, <1>24, <1>25, <1>26 DEF Fits
<1>28. ASSUME NEW c \in Boots \ {b} PROVE Fits(c, proc[c])'
  <2>1. Fits(c, proc'[c])
    BY ZenonT(60), <1>20 DEF RuntimeInv
  <2>2. Undisturbed(c)
    BY ZenonT(60), <1>3, <1>8, <1>12 DEF Undisturbed, Of
  <2> QED BY ZenonT(60), <1>1, <2>1, <2>2, UndisturbedFits
<1>29. \A c \in Boots : Fits(c, proc[c])'
  BY ZenonT(60), <1>27, <1>28
<1>30. RuntimeType'
  BY ZenonT(60), <1>1, <1>3, <1>5, <1>20 DEF RuntimeType
<1>31. \A a \in DOMAIN attempts' : attempts'[a].boot \in Started
  BY <1>3, <1>6, <1>7, <1>21 DEF RuntimeInv, StartedInOrder
<1> QED BY ZenonT(60), <1>10, <1>11, <1>14, <1>21, <1>29, <1>30, <1>31, RecordsStep

-----------------------------------------------------------------------------
(***************************************************************************)
(* The invariant and the properties it gives.                              *)
(***************************************************************************)

\* A request is handled.
LEMMA HandleFits ==
  ASSUME RuntimeInv, NEW b \in Boots, Handle(b)
  PROVE  RuntimeInv'
<1>1. proc[b].reply = None
  BY ZenonT(60) DEF Handle
<1>2. CASE proc[b].pc = "register" /\ RegisterWorker(b)
  BY ZenonT(60), <1>1, <1>2, RegisterFits
<1>3. CASE proc[b].pc = "claim" /\ ClaimTrials(b)
  BY ZenonT(60), <1>1, <1>3, ClaimFits
<1>4. CASE proc[b].pc = "publish" /\ PublishObservation(b)
  BY ZenonT(60), <1>1, <1>4, PublishFits
<1>5. CASE proc[b].pc \in {"fail", "give_up"} /\ FailTrial(b)
  BY ZenonT(60), <1>1, <1>5, FailFits
<1>6. CASE proc[b].pc = "commit" /\ CommitTrial(b)
  BY ZenonT(60), <1>1, <1>6, CommitFits
<1> QED BY ZenonT(60), <1>2, <1>3, <1>4, <1>5, <1>6 DEF Handle

\* The trials of a plan.
LEMMA Plans ==
  \A x \in {Ready, Cancelled} : x \in Trial /\ x.state \in {"READY", "CANCELLED"} /\ x.attempt = 0
BY DEF Ready, Cancelled, Trial, Terminal

\* The coordinator has no work yet and no process is started.
LEMMA InitRuntime ==
  ASSUME Init
  PROVE  RuntimeInv
<1>1. attempts = << >> /\ DOMAIN attempts = {} /\ attempts \in Seq(Attempt)
  BY DEF Init
<1>2. proc = [b \in Boots |-> Off] /\ Off \in Process
  <2>1. Usual \in Workers /\ 0 \in Nat /\ FALSE \in BOOLEAN
    BY ZenonT(60), ConstantsAssumption
  <2> QED BY ZenonT(30), <2>1, Bare DEF Init
<1>3. trials \in [Trials -> {Ready, Cancelled}]
  BY ZenonT(60) DEF Init
<1>4. RuntimeType
  <2>1. trials \in [Trials -> Trial]
    BY ZenonT(60), <1>3, Plans
  <2>2. epoch \in Nat /\ live \in [Boots -> {"none", "live", "revoked"}]
    BY ZenonT(60) DEF Init
  <2> QED BY ZenonT(60), <1>1, <1>2, <2>1, <2>2 DEF RuntimeType
<1>5. OpenMatched /\ ResultKept
  <2>1. \A t \in Trials : trials[t].state \in {"READY", "CANCELLED"} /\ trials[t].attempt = 0
    BY ZenonT(60), <1>3, Plans
  <2> QED BY <1>1, <2>1 DEF OpenMatched, ResultKept
<1>6. \A c, S : Of(c, S) = {}
  BY ZenonT(60), <1>1 DEF Of
<1>7. Cardinality({}) = 0
  BY ZenonT(60), FS_EmptySet
<1>8. WithinConcurrency
  BY <1>6, <1>7, Bounds DEF WithinConcurrency
<1>9. /\ Off.pc = "off" /\ Off.todo = << >> /\ Off.reply = None /\ Off.published = 0 /\ Off.connected = FALSE
  BY ZenonT(60) DEF Off
<1>10. Started = {}
  BY ZenonT(60), <1>2, <1>9 DEF Started
<1>11. StartedInOrder
  BY ZenonT(60), <1>1, <1>10 DEF StartedInOrder
<1>12. ASSUME NEW b \in Boots PROVE Fits(b, Off)
  <2>1. HandsFit(Off)
    <3>1. "off" \notin AtWork /\ DOMAIN << >> = {}
      BY DEF AtWork
    <3> QED BY ZenonT(60), <1>9, <3>1 DEF HandsFit
  <2>2. CountFits(b, Off)
    <3>1. Due(Off) = 0 /\ Cardinality(Of(b, {"COMPLETED"})) = 0
      BY ZenonT(60), <1>6, <1>7, <1>9 DEF Due
    <3>2. 0 + 0 = 0 /\ 0 <= 0
      OBVIOUS
    <3> QED BY ZenonT(60), <1>9, <3>1, <3>2 DEF CountFits
  <2> QED BY ZenonT(60), <1>6, <1>9, <2>1, <2>2 DEF Fits, RepliesFit, Remembers
<1>13. \A b \in Boots : Fits(b, proc[b])
  BY <1>2, <1>12
<1> QED BY ZenonT(60), <1>4, <1>5, <1>8, <1>11, <1>13 DEF RuntimeInv

\* Every step keeps the invariant.
LEMMA NextRuntime ==
  ASSUME RuntimeInv, [Next]_vars
  PROVE  RuntimeInv'
<1>1. ASSUME NEW b \in Boots, Handle(b) PROVE RuntimeInv'
  BY ZenonT(60), <1>1, HandleFits
<1>2. ASSUME NEW b \in Boots, WorkerStep(b) PROVE RuntimeInv'
  <2>1. CASE RegisterReturns(b) \/ Loop(b) \/ ClaimReturns(b) \/ RunTask(b)
    BY ZenonT(60), <2>1, RegisterReturnsFits, LoopFits, ClaimReturnsFits, RunTaskFits
  <2>2. CASE PublishReturns(b) \/ FailReturns(b) \/ CommitReturns(b)
    BY ZenonT(60), <2>2, PublishReturnsFits, FailReturnsFits, CommitReturnsFits
  <2> QED BY ZenonT(60), <1>2, <2>1, <2>2 DEF WorkerStep
<1>3. ASSUME NEW b \in Boots, Stop(b) \/ Die(b) \/ Break(b) PROVE RuntimeInv'
  BY ZenonT(60), <1>3, StopFits, DieFits, BreakFits
<1>4. CASE Start \/ StartAnother
  BY ZenonT(60), <1>4, StartFits
<1>5. CASE Restart
  BY ZenonT(60), <1>5, RestartFits
<1>6. CASE UNCHANGED vars
  <2>1. UNCHANGED coordinator /\ proc' = proc /\ attempts' = attempts
    BY ZenonT(60), <1>6 DEF vars, coordinator
  <2>2. StartedInOrder'
    BY ZenonT(60), <2>1 DEF RuntimeInv, StartedInOrder, Started
  <2>3. proc' \in [Boots -> Process] /\ \A c \in Boots : Fits(c, proc'[c])
    BY ZenonT(60), <2>1 DEF RuntimeInv, RuntimeType
  <2> QED BY ZenonT(60), <2>1, <2>2, <2>3, SameRecords
<1> QED BY ZenonT(60), <1>1, <1>2, <1>3, <1>4, <1>5, <1>6 DEF Next

\* In every reachable state the records of the coordinator agree with each other, and every
\* process fits them.
THEOREM RuntimeAgrees == Spec => []RuntimeInv
<1>1. Init => RuntimeInv
  BY ZenonT(60), InitRuntime
<1>2. RuntimeInv /\ [Next]_vars => RuntimeInv'
  BY ZenonT(60), NextRuntime
<1> QED BY <1>1, <1>2, PTL DEF Spec

\* Whatever processes are replaced, die or come back late, and however often the
\* coordinator restarts: an open attempt belongs to a live process and to a trial at work,
\* a trial at work has an open attempt, and no process has more of them than it may.
THEOREM OpenWorkIsLive == Spec => []OpenIsLive
<1>1. RuntimeInv => OpenIsLive
  BY DEF RuntimeInv, OpenMatched, WithinConcurrency, OpenIsLive
<1> QED BY <1>1, RuntimeAgrees, PTL

\* A trial has one result.
THEOREM TrialHasOneResult == Spec => []OneResult
<1>1. ASSUME RuntimeInv PROVE OneResult
  <2> SUFFICES ASSUME NEW a \in DOMAIN attempts, attempts[a].state = "COMPLETED"
               PROVE  /\ trials[attempts[a].trial] =
                           [trials[attempts[a].trial] EXCEPT !.state = "COMPLETED", !.attempt = a]
                      /\ \A o \in DOMAIN attempts \ {a} :
                           attempts[o].trial = attempts[a].trial => attempts[o].state \notin Active \cup {"COMPLETED"}
    BY ZenonT(60) DEF OneResult
  <2>1. attempts[a] \in Attempt
    BY <1>1 DEF RuntimeInv, RuntimeType
  <2>2. attempts[a].trial \in Trials
    BY ZenonT(60), <2>1 DEF Attempt
  <2>3. trials[attempts[a].trial] \in Trial
    BY ZenonT(60), <1>1, <2>2 DEF RuntimeInv, RuntimeType
  <2>4. trials[attempts[a].trial].attempt = a /\ trials[attempts[a].trial].state = "COMPLETED"
    BY ZenonT(60), <1>1 DEF RuntimeInv, ResultKept
  <2>5. trials[attempts[a].trial] =
          [trials[attempts[a].trial] EXCEPT !.state = "COMPLETED", !.attempt = a]
    BY ZenonT(60), <2>3, <2>4 DEF Trial
  <2>6. ASSUME NEW o \in DOMAIN attempts, attempts[o].state \in Active \cup {"COMPLETED"}
        PROVE  trials[attempts[o].trial].attempt = o
    BY ZenonT(60), <1>1, <2>6 DEF RuntimeInv, OpenMatched, ResultKept
  <2> QED BY ZenonT(60), <2>4, <2>5, <2>6
<1> QED BY <1>1, RuntimeAgrees, PTL

\* published_trials counts completed trials, and misses one only with its reply.
THEOREM PublishedCountsCompleted == Spec => []PublishedIsCompleted
<1>1. ASSUME RuntimeInv PROVE PublishedIsCompleted
  <2> SUFFICES ASSUME NEW b \in Boots
               PROVE  /\ proc[b].published <= Cardinality(Of(b, {"COMPLETED"}))
                      /\ proc[b].connected =>
                           proc[b].published = Cardinality(Of(b, {"COMPLETED"})) - Due(proc[b])
    BY ZenonT(60) DEF PublishedIsCompleted, Due
  <2> DEFINE n == proc[b].published
             d == Due(proc[b])
             m == Cardinality(Of(b, {"COMPLETED"}))
  <2>1. n \in Nat /\ d \in Nat /\ m \in Nat
    BY ZenonT(60), <1>1, OfFinite DEF RuntimeInv, RuntimeType, Process, Due
  <2>2. n + d <= m /\ (proc[b].connected => n + d = m)
    BY ZenonT(60), <1>1 DEF RuntimeInv, Fits, CountFits
  <2> HIDE DEF n, d, m
  <2>3. n <= m /\ (proc[b].connected => n = m - d)
    BY <2>1, <2>2
  <2> QED BY ZenonT(60), <2>3 DEF n, d, m
<1> QED BY <1>1, RuntimeAgrees, PTL

\* A process whose connection holds does not forget an assignment.
THEOREM AssignmentsAreRemembered == Spec => []NothingForgotten
<1>1. RuntimeInv => NothingForgotten
  BY ZenonT(60) DEF RuntimeInv, Fits, Remembers, NothingForgotten, Running
<1> QED BY <1>1, RuntimeAgrees, PTL
=============================================================================
