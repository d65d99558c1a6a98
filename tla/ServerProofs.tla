----------------------------- MODULE ServerProofs -----------------------------
(***************************************************************************)
(* For any number of threads, clients and requests, and whether or not     *)
(* closing the listener ends an accept: stop never touches a connection    *)
(* that was destroyed, and once it has joined the threads the server is    *)
(* quiet.                                                                  *)
(***************************************************************************)
EXTENDS Server, TLAPS

\* The places of a thread that holds a connection.
Holding == {"serve", "receive", "dispatch", "send", "erase", "close"}

\* The server still has this connection: the accept thread is about to queue it, it is
\* in the queue, or a thread of the pool holds it.
Held(c) ==
  \/ accept_at = "push" /\ accepted = c
  \/ c \in Range(pending_)
  \/ \E t \in Pool : serving[t] = c /\ at[t] \in Holding

\* The variables the argument reads hold values of their types.
ServerType ==
  /\ pending_ \in Seq(Clients) /\ backlog \in Seq(Clients)
  /\ at \in [Pool -> {"lock", "sleep", "waiting", "done"} \cup Holding]
  /\ serving \in [Pool -> Clients \cup {Nobody}]
  /\ sock \in [Clients -> {"none", "open", "closed"}]
  /\ accepted \in Clients \cup {Nobody}
  /\ accept_at = "push" => accepted \in Clients

\* A connection that is open has somebody who will close it.
OpenIsHeld == \A c \in Clients : sock[c] = "open" => Held(c)

\* What stop_server has established when it is there: the flag is up from its first
\* statement on, the queue is empty once it was cleared under the lock, and a join
\* returns when the thread has ended.
StopProgress ==
  /\ stop_at # "running" => stopping_
  /\ stop_at \in {"notify", "join_accept", "join_pool", "stopped"} => pending_ = << >>
  /\ stop_at \in {"join_pool", "stopped"} => accept_at = "done"
  /\ stop_at = "stopped" => \A t \in Pool : at[t] = "done"

ServerInv == ServerType /\ ActiveIsOwned /\ OpenIsHeld /\ StopProgress

-----------------------------------------------------------------------------
\* What push_back does to the set of queued connections.
LEMMA RangeAppend ==
  ASSUME NEW S, NEW q \in Seq(S), NEW x \in S
  PROVE  Append(q, x) \in Seq(S) /\ Range(Append(q, x)) = Range(q) \cup {x}
<1>1. /\ Append(q, x) \in Seq(S) /\ Len(Append(q, x)) = Len(q) + 1
      /\ \A i \in 1 .. Len(q) : Append(q, x)[i] = q[i]
      /\ Append(q, x)[Len(q) + 1] = x
  OBVIOUS
<1>2. /\ DOMAIN q = 1 .. Len(q) /\ Len(q) \in Nat
      /\ DOMAIN Append(q, x) = 1 .. Len(q) + 1
  BY <1>1
<1>3. DOMAIN Append(q, x) = DOMAIN q \cup {Len(q) + 1}
  BY <1>2
<1> QED BY <1>1, <1>2, <1>3 DEF Range

\* What front and pop_front do to it.
LEMMA RangeTail ==
  ASSUME NEW S, NEW q \in Seq(S), q # << >>
  PROVE  /\ Head(q) \in S /\ Tail(q) \in Seq(S)
         /\ Range(q) = Range(Tail(q)) \cup {Head(q)}
<1>1. /\ Head(q) \in S /\ Tail(q) \in Seq(S) /\ Head(q) = q[1]
      /\ Len(q) \in Nat \ {0} /\ Len(Tail(q)) = Len(q) - 1
      /\ \A i \in 1 .. Len(q) - 1 : Tail(q)[i] = q[i + 1]
  OBVIOUS
<1>2. DOMAIN q = 1 .. Len(q) /\ DOMAIN Tail(q) = 1 .. Len(q) - 1
  BY <1>1
<1>3. ASSUME NEW x \in Range(q) PROVE x \in Range(Tail(q)) \cup {Head(q)}
  <2>1. PICK i \in 1 .. Len(q) : x = q[i]
    BY <1>2, <1>3 DEF Range
  <2>2. CASE i = 1
    BY <1>1, <2>1, <2>2
  <2>3. CASE i # 1
    <3>1. i - 1 \in 1 .. Len(q) - 1 /\ (i - 1) + 1 = i
      BY <1>1, <2>1, <2>3
    <3>2. Tail(q)[i - 1] = x
      BY <1>1, <2>1, <3>1
    <3> QED BY <1>2, <3>1, <3>2 DEF Range
  <2> QED BY <2>2, <2>3
<1>4. ASSUME NEW x \in Range(Tail(q)) \cup {Head(q)} PROVE x \in Range(q)
  <2>1. CASE x = Head(q)
    <3>1. 1 \in DOMAIN q
      BY <1>1, <1>2
    <3> QED BY <1>1, <2>1, <3>1 DEF Range
  <2>2. CASE x \in Range(Tail(q))
    <3>1. PICK i \in 1 .. Len(q) - 1 : x = Tail(q)[i]
      BY <1>2, <2>2 DEF Range
    <3>2. i + 1 \in DOMAIN q /\ x = q[i + 1]
      BY <1>1, <1>2, <3>1
    <3> QED BY <3>2 DEF Range
  <2> QED BY <1>4, <2>1, <2>2
<1> QED BY <1>1, <1>3, <1>4

\* Nothing is queued in an empty queue.
LEMMA RangeEmpty == Range(<< >>) = {}
  BY DEF Range

-----------------------------------------------------------------------------
\* After start nobody has connected and every thread is on its way to the lock.
LEMMA InitServer == Init => ServerInv
<1> SUFFICES ASSUME Init PROVE ServerInv
  OBVIOUS
<1>1. ServerType
  BY ServerAssumption DEF Init, ServerType, Holding
<1>2. ActiveIsOwned /\ OpenIsHeld /\ StopProgress
  BY DEF Init, ActiveIsOwned, OpenIsHeld, StopProgress
<1> QED BY <1>1, <1>2 DEF ServerInv

\* The accept thread: a connection it has taken is closed by it or queued.
LEMMA AcceptKeeps == ServerInv /\ AcceptThread => ServerInv'
<1> SUFFICES ASSUME ServerInv, AcceptThread PROVE ServerInv'
  OBVIOUS
<1>1. CASE AcceptLoop
  BY <1>1 DEF AcceptLoop, PoolSide, StopSide, Net, ServerInv, ServerType, ActiveIsOwned, OpenIsHeld,
              StopProgress, Held
<1>2. CASE AcceptOne
  <2>1. UNCHANGED <<pending_, active_, mutex_, PoolSide, StopSide, Net>> /\ accept_at = "accept"
    BY <1>2 DEF AcceptOne
  <2>2. ActiveIsOwned' /\ StopProgress'
    BY <2>1 DEF PoolSide, StopSide, ServerInv, ActiveIsOwned, StopProgress
  <2>3. CASE accept_at' = "push"
    <3>1. /\ backlog # << >> /\ accepted' = Head(backlog) /\ backlog' = Tail(backlog)
          /\ sock' = [sock EXCEPT ![Head(backlog)] = "open"]
      BY <1>2, <2>3 DEF AcceptOne
    <3>2. Head(backlog) \in Clients /\ Tail(backlog) \in Seq(Clients)
      BY <3>1, RangeTail DEF ServerInv, ServerType
    <3>3. ServerType'
      BY <2>1, <3>1, <3>2 DEF PoolSide, ServerInv, ServerType
    <3>4. OpenIsHeld'
      BY <2>1, <2>3, <3>1, <3>2 DEF PoolSide, ServerInv, ServerType, OpenIsHeld, Held
    <3> QED BY <2>2, <3>3, <3>4 DEF ServerInv
  <2>4. CASE accept_at' # "push"
    <3>1. accept_at' = "done" /\ UNCHANGED <<accepted, backlog, sock>>
      BY <1>2, <2>4 DEF AcceptOne
    <3> QED BY <2>1, <2>2, <3>1 DEF PoolSide, ServerInv, ServerType, OpenIsHeld, Held
  <2> QED BY <2>3, <2>4
<1>3. CASE AcceptPush
  <2>1. UNCHANGED <<active_, mutex_, backlog, PoolSide, StopSide, Net>> /\ accept_at = "push"
        /\ accepted' = Nobody /\ accepted \in Clients
    BY <1>3 DEF AcceptPush, ServerInv, ServerType
  <2>2. ActiveIsOwned'
    BY <2>1 DEF PoolSide, ServerInv, ActiveIsOwned
  <2>3. CASE stopping_
    <3>1. sock' = [sock EXCEPT ![accepted] = "closed"] /\ accept_at' = "done" /\ UNCHANGED pending_
      BY <1>3, <2>3 DEF AcceptPush
    <3>2. ServerType' /\ StopProgress'
      BY <2>1, <3>1 DEF PoolSide, StopSide, ServerInv, ServerType, StopProgress
    <3>3. OpenIsHeld'
      BY <2>1, <3>1 DEF PoolSide, ServerInv, ServerType, OpenIsHeld, Held
    <3> QED BY <2>2, <3>2, <3>3 DEF ServerInv
  <2>4. CASE ~stopping_
    <3>1. pending_' = Append(pending_, accepted) /\ accept_at' = "notify" /\ UNCHANGED sock
      BY <1>3, <2>4 DEF AcceptPush
    <3>2. pending_' \in Seq(Clients) /\ Range(pending_') = Range(pending_) \cup {accepted}
      BY <2>1, <3>1, RangeAppend DEF ServerInv, ServerType
    <3>3. ServerType'
      BY <2>1, <3>1, <3>2 DEF PoolSide, ServerInv, ServerType
    <3>4. StopProgress'
      BY <2>1, <2>4 DEF StopSide, ServerInv, StopProgress
    <3>5. OpenIsHeld'
      BY <2>1, <3>1, <3>2 DEF PoolSide, ServerInv, OpenIsHeld, Held
    <3> QED BY <2>2, <3>3, <3>4, <3>5 DEF ServerInv
  <2> QED BY <2>3, <2>4
<1>4. CASE AcceptNotify
  <2>1. /\ accept_at = "notify" /\ accept_at' = "loop"
        /\ UNCHANGED <<pending_, active_, mutex_, accepted, backlog, serving, StopSide, Net, sock>>
        /\ \/ at' = at
           \/ \E t \in Waiters : at' = Awake({t})
    BY <1>4 DEF AcceptNotify
  <2>2. /\ at' \in [Pool -> {"lock", "sleep", "waiting", "done"} \cup Holding]
        /\ \A t \in Pool : at'[t] = at[t] \/ (at[t] = "waiting" /\ at'[t] = "lock")
    BY <2>1 DEF Waiters, Awake, ServerInv, ServerType
  <2>3. ServerType' /\ StopProgress'
    BY <2>1, <2>2 DEF StopSide, ServerInv, ServerType, StopProgress
  <2>4. ActiveIsOwned' /\ OpenIsHeld'
    BY <2>1, <2>2 DEF ServerInv, ActiveIsOwned, OpenIsHeld, Held, Holding
  <2> QED BY <2>3, <2>4 DEF ServerInv
<1> QED BY <1>1, <1>2, <1>3, <1>4 DEF AcceptThread

\* A thread of the pool that goes on with the connection it holds, if it holds one,
\* leaves the others to their holders.
LEMMA ThreadGoesOn ==
  ASSUME ServerInv, NEW t \in Pool, NEW p \in Holding \cup {"waiting", "sleep"}, Go(t, p),
         at[t] \in Holding => p \in Holding, at[t] # "done",
         at[t] \in Holding \ {"close"} /\ serving[t] \in active_' => p \in Holding \ {"close"},
         active_' \subseteq active_,
         UNCHANGED <<pending_, serving, accept_at, accepted, backlog, stopping_, stop_at, sock>>
  PROVE  ServerInv'
<1>1. /\ at' \in [Pool -> {"lock", "sleep", "waiting", "done"} \cup Holding]
      /\ at'[t] = p /\ \A u \in Pool : u # t => at'[u] = at[u]
  BY DEF Go, ServerInv, ServerType
<1>2. ServerType'
  BY <1>1 DEF ServerInv, ServerType
<1>3. StopProgress'
  BY DEF ServerInv, StopProgress
<1>4. ActiveIsOwned'
  BY <1>1 DEF ServerInv, ActiveIsOwned, Holding
<1>5. OpenIsHeld'
  BY <1>1 DEF ServerInv, OpenIsHeld, Held
<1> QED BY <1>2, <1>3, <1>4, <1>5 DEF ServerInv

\* A thread of the pool: it enters a connection in active_ with taking it over, and
\* takes it out before it destroys it.
LEMMA PoolKeeps == ASSUME ServerInv, NEW t \in Pool, PoolThread(t) PROVE ServerInv'
<1>0. at \in [Pool -> {"lock", "sleep", "waiting", "done"} \cup Holding]
  BY DEF ServerInv, ServerType
<1>1. CASE Check(t)
  <2>1. at[t] = "lock" /\ UNCHANGED <<AcceptSide, StopSide, Net, sock>>
    BY <1>1 DEF Check
  <2>2. stop_at # "stopped"
    BY <2>1 DEF ServerInv, StopProgress
  <2>3. CASE pending_ = << >> /\ ~stopping_
    <3>1. Go(t, "sleep") /\ UNCHANGED <<pending_, active_, serving>>
      BY <1>1, <2>3 DEF Check
    <3> QED BY <2>1, <3>1, ThreadGoesOn DEF AcceptSide, StopSide, Holding
  <2>4. CASE pending_ = << >> /\ stopping_
    <3>1. Go(t, "done") /\ UNCHANGED <<pending_, active_, serving>>
      BY <1>1, <2>4 DEF Check
    <3>2. /\ at' \in [Pool -> {"lock", "sleep", "waiting", "done"} \cup Holding]
          /\ at'[t] = "done" /\ \A u \in Pool : u # t => at'[u] = at[u]
      BY <1>0, <3>1 DEF Go
    <3>3. ServerType' /\ StopProgress'
      BY <2>1, <3>1, <3>2 DEF AcceptSide, StopSide, ServerInv, ServerType, StopProgress
    <3>4. ActiveIsOwned' /\ OpenIsHeld'
      BY <2>1, <3>1, <3>2 DEF AcceptSide, ServerInv, ActiveIsOwned, OpenIsHeld, Held, Holding
    <3> QED BY <3>3, <3>4 DEF ServerInv
  <2>5. CASE pending_ # << >>
    <3>1. /\ serving' = [serving EXCEPT ![t] = Head(pending_)]
          /\ pending_' = Tail(pending_) /\ active_' = active_ \cup {Head(pending_)}
          /\ Go(t, "serve")
      BY <1>1, <2>5 DEF Check
    <3>2. /\ Head(pending_) \in Clients /\ pending_' \in Seq(Clients)
          /\ Range(pending_) = Range(pending_') \cup {Head(pending_)}
      BY <2>5, <3>1, RangeTail DEF ServerInv, ServerType
    <3>3. /\ at' \in [Pool -> {"lock", "sleep", "waiting", "done"} \cup Holding]
          /\ at'[t] = "serve" /\ \A u \in Pool : u # t => at'[u] = at[u]
      BY <1>0, <3>1 DEF Go, Holding
    <3>4. /\ serving' \in [Pool -> Clients \cup {Nobody}]
          /\ serving'[t] = Head(pending_) /\ \A u \in Pool : u # t => serving'[u] = serving[u]
      BY <3>1, <3>2 DEF ServerInv, ServerType
    <3>5. ServerType'
      BY <2>1, <3>2, <3>3, <3>4 DEF AcceptSide, ServerInv, ServerType
    <3>6. StopProgress'
      BY <2>1, <2>2, <2>5 DEF AcceptSide, StopSide, ServerInv, StopProgress
    <3>7. ActiveIsOwned'
      BY <2>1, <3>1, <3>3, <3>4 DEF ServerInv, ActiveIsOwned
    <3>8. OpenIsHeld'
      BY <2>1, <3>2, <3>3, <3>4 DEF AcceptSide, ServerInv, OpenIsHeld, Held, Holding
    <3> QED BY <3>5, <3>6, <3>7, <3>8 DEF ServerInv
  <2> QED BY <2>3, <2>4, <2>5
<1>2. CASE Sleep(t)
  BY <1>2, ThreadGoesOn DEF Sleep, AcceptSide, StopSide, Holding
<1>3. CASE Serve(t)
  BY <1>3, ThreadGoesOn DEF Serve, AcceptSide, StopSide, Holding
<1>4. CASE Receive(t)
  BY <1>4, ThreadGoesOn DEF Receive, AcceptSide, StopSide, Holding
<1>5. CASE Dispatch(t)
  BY <1>5, ThreadGoesOn DEF Dispatch, AcceptSide, Holding
<1>6. CASE Send(t)
  BY <1>6, ThreadGoesOn DEF Send, AcceptSide, StopSide, Holding
<1>7. CASE Erase(t)
  BY <1>7, ThreadGoesOn DEF Erase, AcceptSide, StopSide, Holding
<1>8. CASE Close(t)
  <2>1. /\ at[t] = "close" /\ Go(t, "lock")
        /\ sock' = [c \in Clients |-> IF c = serving[t] THEN "closed" ELSE sock[c]]
        /\ serving' = [serving EXCEPT ![t] = Nobody]
        /\ UNCHANGED <<pending_, active_, mutex_, AcceptSide, StopSide, Net>>
    BY <1>8 DEF Close
  <2>2. /\ at' \in [Pool -> {"lock", "sleep", "waiting", "done"} \cup Holding]
        /\ at'[t] = "lock" /\ \A u \in Pool : u # t => at'[u] = at[u]
    BY <1>0, <2>1 DEF Go
  <2>3. /\ serving' \in [Pool -> Clients \cup {Nobody}]
        /\ \A u \in Pool : u # t => serving'[u] = serving[u]
    BY <2>1 DEF ServerInv, ServerType
  <2>4. ServerType'
    BY <2>1, <2>2, <2>3 DEF AcceptSide, ServerInv, ServerType
  <2>5. StopProgress'
    BY <2>1 DEF AcceptSide, StopSide, ServerInv, StopProgress
  <2>6. ActiveIsOwned'
    BY <2>1, <2>2, <2>3 DEF ServerInv, ActiveIsOwned
  <2>7. OpenIsHeld'
    BY <2>1, <2>2, <2>3 DEF AcceptSide, ServerInv, OpenIsHeld, Held
  <2> QED BY <2>4, <2>5, <2>6, <2>7 DEF ServerInv
<1> QED BY <1>1, <1>2, <1>3, <1>4, <1>5, <1>6, <1>7, <1>8 DEF PoolThread

\* stop_server: what it clears under the lock stays cleared, because the flag went up
\* before.
LEMMA StopKeeps == ServerInv /\ (StopBegins \/ StopThread) => ServerInv'
<1> SUFFICES ASSUME ServerInv, StopBegins \/ StopThread PROVE ServerInv'
  OBVIOUS
<1>1. CASE StopBegins
  BY <1>1 DEF StopBegins, StopTo, AcceptSide, PoolSide, ServerInv, ServerType, ActiveIsOwned,
              OpenIsHeld, StopProgress, Held
<1>2. CASE CloseListener
  BY <1>2 DEF CloseListener, StopTo, PoolSide, ServerInv, ServerType, ActiveIsOwned,
              OpenIsHeld, StopProgress, Held
<1>3. CASE CloseConnections
  <2>1. /\ stop_at = "connections" /\ stop_at' = "notify" /\ pending_' = << >>
        /\ sock' = [c \in Clients |->
                      IF c \in active_ \/ c \in Range(pending_) THEN "closed" ELSE sock[c]]
        /\ UNCHANGED <<active_, stopping_, AcceptSide, PoolSide>>
    BY <1>3 DEF CloseConnections, StopTo
  <2>2. ServerType'
    BY <2>1 DEF AcceptSide, PoolSide, ServerInv, ServerType
  <2>3. ActiveIsOwned' /\ StopProgress'
    BY <2>1 DEF PoolSide, ServerInv, ActiveIsOwned, StopProgress
  <2>4. OpenIsHeld'
    BY <2>1 DEF AcceptSide, PoolSide, ServerInv, OpenIsHeld, Held
  <2> QED BY <2>2, <2>3, <2>4 DEF ServerInv
<1>4. CASE NotifyAll
  <2>1. /\ stop_at = "notify" /\ stop_at' = "join_accept" /\ at' = Awake(Waiters)
        /\ UNCHANGED <<pending_, active_, stopping_, AcceptSide, serving, sock>>
    BY <1>4 DEF NotifyAll, StopTo
  <2>2. /\ at' \in [Pool -> {"lock", "sleep", "waiting", "done"} \cup Holding]
        /\ \A t \in Pool : at'[t] = at[t] \/ (at[t] = "waiting" /\ at'[t] = "lock")
    BY <2>1 DEF Waiters, Awake, ServerInv, ServerType
  <2>3. ServerType' /\ StopProgress'
    BY <2>1, <2>2 DEF AcceptSide, ServerInv, ServerType, StopProgress
  <2>4. ActiveIsOwned' /\ OpenIsHeld'
    BY <2>1, <2>2 DEF AcceptSide, ServerInv, ActiveIsOwned, OpenIsHeld, Held, Holding
  <2> QED BY <2>3, <2>4 DEF ServerInv
<1>5. CASE JoinAccept
  BY <1>5 DEF JoinAccept, StopTo, AcceptSide, PoolSide, ServerInv, ServerType, ActiveIsOwned,
              OpenIsHeld, StopProgress, Held
<1>6. CASE JoinPool
  BY <1>6 DEF JoinPool, StopTo, AcceptSide, PoolSide, ServerInv, ServerType, ActiveIsOwned,
              OpenIsHeld, StopProgress, Held
<1> QED BY <1>1, <1>2, <1>3, <1>4, <1>5, <1>6 DEF StopThread

\* Clients reach nothing but the backlog of the listener.
LEMMA ClientKeeps ==
  ASSUME ServerInv, NEW c \in Clients, Connect(c) \/ Request(c) \/ Leave(c)
  PROVE  ServerInv'
<1>1. UNCHANGED <<pending_, active_, accept_at, accepted, PoolSide, StopSide, sock>>
  BY DEF Connect, Request, Leave, AcceptSide
<1>2. backlog' \in Seq(Clients)
  <2>1. backlog' = backlog \/ backlog' = Append(backlog, c)
    BY DEF Connect, Request, Leave, AcceptSide
  <2>2. backlog \in Seq(Clients) /\ Append(backlog, c) \in Seq(Clients)
    BY RangeAppend DEF ServerInv, ServerType
  <2> QED BY <2>1, <2>2
<1> QED
  BY <1>1, <1>2 DEF PoolSide, StopSide, ServerInv, ServerType, ActiveIsOwned, OpenIsHeld,
                    StopProgress, Held

\* The inductive invariant holds in every behaviour.
LEMMA ServerInvariance == Spec => []ServerInv
<1>1. Init => ServerInv
  BY InitServer
<1>2. ServerInv /\ [Next]_vars => ServerInv'
  <2> SUFFICES ASSUME ServerInv, [Next]_vars PROVE ServerInv'
    OBVIOUS
  <2>1. CASE Next
    BY <2>1, AcceptKeeps, PoolKeeps, StopKeeps, ClientKeeps DEF Next
  <2>2. CASE UNCHANGED vars
    BY <2>2 DEF vars, ServerInv, ServerType, ActiveIsOwned, OpenIsHeld, StopProgress, Held
  <2> QED BY <2>1, <2>2
<1> QED BY <1>1, <1>2, PTL DEF Spec

-----------------------------------------------------------------------------
\* stop_server never closes a connection that its thread has destroyed: every pointer in
\* active_ is that of a connection some thread of the pool still owns.
THEOREM ActivePointersOwned == Spec => []ActiveIsOwned
<1>1. ServerInv => ActiveIsOwned
  BY DEF ServerInv
<1> QED BY <1>1, ServerInvariance, PTL

\* The state is saved after everybody has stopped: no thread serves a request, no
\* connection is queued, and none that was ever accepted is open, the one included that
\* the accept thread took while the stop was under way.
THEOREM StopLeavesQuiet == Spec => []StoppedIsQuiet
<1>1. ServerInv => StoppedIsQuiet
  <2> SUFFICES ASSUME ServerInv, stop_at = "stopped"
               PROVE  /\ active_ = {} /\ pending_ = << >> /\ accept_at = "done"
                      /\ \A t \in Pool : at[t] = "done"
                      /\ \A c \in Clients : sock[c] # "open"
    BY DEF StoppedIsQuiet
  <2>1. pending_ = << >> /\ accept_at = "done" /\ \A t \in Pool : at[t] = "done"
    BY DEF ServerInv, StopProgress
  <2>2. active_ = {}
    BY <2>1 DEF ServerInv, ActiveIsOwned
  <2>3. ASSUME NEW c \in Clients PROVE ~Held(c)
    BY <2>1, RangeEmpty DEF Held, Holding
  <2> QED BY <2>1, <2>2, <2>3 DEF ServerInv, OpenIsHeld
<1> QED BY <1>1, ServerInvariance, PTL
=============================================================================
