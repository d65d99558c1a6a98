-------------------------------- MODULE Server --------------------------------
(***************************************************************************)
(* The control plane: CoordinatorServerRuntime with its accept thread, its *)
(* fixed pool of threads and its queue of connections, and the stop that   *)
(* has to end all of them while clients are connected, are connecting, are *)
(* silent or are waiting for an answer.                                    *)
(*                                                                         *)
(* Threads interleave between the statements that touch shared state.      *)
(* mutex_ is explicit, because stopping_ is set without it: whether a      *)
(* thread can miss the wake-up of stop depends on where stop takes the     *)
(* lock.  What dispatch does to the coordinator is module Coordinator; here*)
(* it is a step that may be slow and that a shutdown request goes through. *)
(*                                                                         *)
(* A connection is the identity of its client; every client connects once. *)
(***************************************************************************)
EXTENDS Naturals, Sequences, FiniteSets, SequencesExt

CONSTANTS
  Pool,             \* the threads of pool_
  Clients,
  Nobody,           \* no thread and no client
  MaxRequests,      \* bound: requests of one client
  CloseWakesAccept  \* closing the listener ends an accept that waits on it

ASSUME ServerAssumption ==
  /\ Pool # {} /\ Nobody \notin Pool \cup Clients
  /\ MaxRequests \in Nat /\ CloseWakesAccept \in BOOLEAN

VARIABLES
  stopping_, pending_, active_, mutex_,
  listener,      \* "open" or "closed"
  backlog,       \* connections the system has completed and nobody accepted
  accept_at,     \* where the accept thread is
  accepted,      \* the connection accept_one returned
  at,            \* where each thread of the pool is
  serving,       \* the connection each of them holds
  stop_at,       \* where the thread is that owns the server
  shutdown_flagged,
  client,        \* "new", "idle", "waiting" for a reply, or "gone"
  inbox,         \* clients whose request was sent and not handled
  sock,          \* the server's end of a connection: "none", "open" or "closed"
  left           \* requests each client may still send

vars == <<stopping_, pending_, active_, mutex_, listener, backlog, accept_at, accepted, at,
          serving, stop_at, shutdown_flagged, client, inbox, sock, left>>

Net == <<client, inbox, left>>
AcceptSide == <<accept_at, accepted, backlog>>
PoolSide == <<at, serving>>
StopSide == <<stopping_, stop_at, shutdown_flagged, listener>>

\* After start: everything runs and nobody has connected.
Init ==
  /\ stopping_ = FALSE /\ pending_ = << >> /\ active_ = {} /\ mutex_ = Nobody
  /\ listener = "open" /\ backlog = << >>
  /\ accept_at = "loop" /\ accepted = Nobody
  /\ at = [t \in Pool |-> "lock"] /\ serving = [t \in Pool |-> Nobody]
  /\ stop_at = "running" /\ shutdown_flagged = FALSE
  /\ client = [c \in Clients |-> "new"] /\ inbox = {}
  /\ sock = [c \in Clients |-> "none"]
  /\ left = [c \in Clients |-> MaxRequests]

-----------------------------------------------------------------------------
(***************************************************************************)
(* accept_loop.  accept_one refuses a closed listener before it waits.     *)
(***************************************************************************)
AcceptLoop ==
  /\ accept_at = "loop"
  /\ accept_at' = IF stopping_ \/ listener = "closed" THEN "done" ELSE "accept"
  /\ UNCHANGED <<pending_, active_, mutex_, accepted, backlog, PoolSide, StopSide, Net, sock>>

\* Any error of accept ends the loop for good, also one that has nothing to do with a
\* stop.
AcceptOne ==
  /\ accept_at = "accept"
  /\ \/ /\ listener = "open" /\ backlog # << >>
        /\ accepted' = Head(backlog) /\ backlog' = Tail(backlog)
        /\ sock' = [sock EXCEPT ![Head(backlog)] = "open"]
        /\ accept_at' = "push"
     \/ /\ listener = "open" \/ CloseWakesAccept
        /\ accept_at' = "done" /\ UNCHANGED <<accepted, backlog, sock>>
  /\ UNCHANGED <<pending_, active_, mutex_, PoolSide, StopSide, Net>>

\* AcceptPush with a mistake: the flag is not asked again under the lock.
PushUnasked ==
  /\ accept_at = "push" /\ mutex_ = Nobody
  /\ pending_' = Append(pending_, accepted)
  /\ accept_at' = "notify" /\ accepted' = Nobody
  /\ UNCHANGED <<active_, mutex_, backlog, PoolSide, StopSide, Net, sock>>

\* Under the lock: a stop that has begun wins, and the connection is closed.
AcceptPush ==
  /\ accept_at = "push" /\ mutex_ = Nobody
  /\ \/ /\ stopping_
        /\ sock' = [sock EXCEPT ![accepted] = "closed"]
        /\ accept_at' = "done" /\ UNCHANGED pending_
     \/ /\ ~stopping_
        /\ pending_' = Append(pending_, accepted)
        /\ accept_at' = "notify" /\ UNCHANGED sock
  /\ accepted' = Nobody
  /\ UNCHANGED <<active_, mutex_, backlog, PoolSide, StopSide, Net>>

Waiters == {t \in Pool : at[t] = "waiting"}

Awake(T) == [t \in Pool |-> IF t \in T THEN "lock" ELSE at[t]]

\* AcceptNotify with a mistake: nobody is told of the connection.
NotifyNobody ==
  /\ accept_at = "notify" /\ accept_at' = "loop" /\ UNCHANGED at
  /\ UNCHANGED <<pending_, active_, mutex_, accepted, backlog, serving, StopSide, Net, sock>>

\* notify_one wakes one thread, if one waits.
AcceptNotify ==
  /\ accept_at = "notify" /\ accept_at' = "loop"
  /\ \/ Waiters = {} /\ UNCHANGED at
     \/ \E t \in Waiters : at' = Awake({t})
  /\ UNCHANGED <<pending_, active_, mutex_, accepted, backlog, serving, StopSide, Net, sock>>

AcceptThread == AcceptLoop \/ AcceptOne \/ AcceptPush \/ AcceptNotify

-----------------------------------------------------------------------------
(***************************************************************************)
(* worker_loop.                                                            *)
(***************************************************************************)
Go(t, where) == at' = [at EXCEPT ![t] = where]

\* The predicate of the wait, and what follows it under the lock.  A thread that will
\* wait still holds the lock when it has evaluated the predicate.
Check(t) ==
  /\ at[t] = "lock" /\ mutex_ = Nobody
  /\ \/ /\ ~stopping_ /\ pending_ = << >>
        /\ Go(t, "sleep") /\ mutex_' = t /\ UNCHANGED <<pending_, active_, serving>>
     \/ /\ stopping_ /\ pending_ = << >>
        /\ Go(t, "done") /\ UNCHANGED <<mutex_, pending_, active_, serving>>
     \/ /\ pending_ # << >>
        /\ serving' = [serving EXCEPT ![t] = Head(pending_)]
        /\ pending_' = Tail(pending_) /\ active_' = active_ \cup {Head(pending_)}
        /\ Go(t, "serve") /\ UNCHANGED mutex_
  /\ UNCHANGED <<AcceptSide, StopSide, Net, sock>>

\* The wait gives the lock back and begins to listen for a notification.
Sleep(t) ==
  /\ at[t] = "sleep"
  /\ mutex_' = Nobody /\ Go(t, "waiting")
  /\ UNCHANGED <<pending_, active_, serving, AcceptSide, StopSide, Net, sock>>

Serve(t) ==
  /\ at[t] = "serve"
  /\ Go(t, IF stopping_ THEN "erase" ELSE "receive")
  /\ UNCHANGED <<pending_, active_, mutex_, serving, AcceptSide, StopSide, Net, sock>>

\* receive_frame waits for a request.  It fails when either end is closed; a frame that
\* is cut or damaged is refused like a closed connection.
Receive(t) ==
  LET c == serving[t]
  IN  /\ at[t] = "receive"
      /\ \/ /\ sock[c] = "open" /\ c \in inbox
            /\ Go(t, "dispatch") /\ UNCHANGED inbox
         \/ /\ sock[c] = "closed" \/ client[c] = "gone"
            /\ Go(t, "erase") /\ inbox' = inbox \ {c}
      /\ UNCHANGED <<pending_, active_, mutex_, serving, AcceptSide, StopSide, client, left, sock>>

\* The handler runs; a request of type SHUTDOWN raises the flag that the owner
\* waits for.
Dispatch(t) ==
  LET c == serving[t]
  IN  /\ at[t] = "dispatch" /\ Go(t, "send")
      /\ shutdown_flagged' \in {shutdown_flagged, TRUE}
      /\ inbox' = inbox \ {c}
      /\ UNCHANGED <<pending_, active_, mutex_, serving, AcceptSide, stopping_, stop_at, listener,
                     client, left, sock>>

\* The reply is lost when either end is closed meanwhile.
Send(t) ==
  LET c == serving[t]
  IN  /\ at[t] = "send"
      /\ \/ /\ sock[c] = "open" /\ client[c] = "waiting"
            /\ client' = [client EXCEPT ![c] = "idle"] /\ Go(t, "serve")
         \/ /\ sock[c] = "closed" \/ client[c] = "gone"
            /\ Go(t, "erase") /\ UNCHANGED client
      /\ UNCHANGED <<pending_, active_, mutex_, serving, AcceptSide, StopSide, inbox, left, sock>>

\* Erase with a mistake: the connection is closed and destroyed first.
CloseFirst(t) ==
  /\ at[t] = "erase" /\ mutex_ = Nobody
  /\ Go(t, "close") /\ serving' = [serving EXCEPT ![t] = Nobody]
  /\ sock' = [sock EXCEPT ![serving[t]] = "closed"]
  /\ UNCHANGED <<pending_, active_, mutex_, AcceptSide, StopSide, Net>>

Erase(t) ==
  /\ at[t] = "erase" /\ mutex_ = Nobody
  /\ active_' = active_ \ {serving[t]} /\ Go(t, "close")
  /\ UNCHANGED <<pending_, mutex_, serving, AcceptSide, StopSide, Net, sock>>

\* close, and the connection is destroyed at the end of the loop body.
Close(t) ==
  /\ at[t] = "close" /\ Go(t, "lock")
  /\ sock' = [c \in Clients |-> IF c = serving[t] THEN "closed" ELSE sock[c]]
  /\ serving' = [serving EXCEPT ![t] = Nobody]
  /\ UNCHANGED <<pending_, active_, mutex_, AcceptSide, StopSide, Net>>

PoolThread(t) ==
  \/ Check(t) \/ Sleep(t) \/ Serve(t) \/ Receive(t) \/ Dispatch(t) \/ Send(t)
  \/ Erase(t) \/ Close(t)

-----------------------------------------------------------------------------
(***************************************************************************)
(* stop_server, in the thread that owns the server.  It may be called at   *)
(* any time, and is called once a shutdown was requested.                  *)
(***************************************************************************)
StopTo(where) == stop_at' = where

StopBegins ==
  /\ stop_at = "running" /\ stopping_' = TRUE /\ StopTo("listener")
  /\ UNCHANGED <<pending_, active_, mutex_, listener, shutdown_flagged, AcceptSide, PoolSide, Net, sock>>

\* The system resets the connections that nobody accepted.
CloseListener ==
  /\ stop_at = "listener" /\ listener' = "closed" /\ StopTo("connections")
  /\ backlog' = << >>
  /\ inbox' = inbox \ Range(backlog)
  /\ UNCHANGED <<pending_, active_, mutex_, stopping_, shutdown_flagged, accept_at, accepted, PoolSide,
                 client, left, sock>>

\* CloseConnections with a mistake: the lock is not taken.
NoLockInStop ==
  /\ stop_at = "connections"
  /\ sock' = [c \in Clients |->
                IF c \in active_ \/ c \in Range(pending_) THEN "closed" ELSE sock[c]]
  /\ pending_' = << >> /\ inbox' = inbox \ Range(pending_) /\ StopTo("notify")
  /\ UNCHANGED <<active_, mutex_, stopping_, listener, shutdown_flagged, AcceptSide, PoolSide,
                 client, left>>

\* Under the lock: connections that are served are closed, queued ones destroyed.
CloseConnections ==
  /\ stop_at = "connections" /\ mutex_ = Nobody
  /\ sock' = [c \in Clients |->
                IF c \in active_ \/ c \in Range(pending_) THEN "closed" ELSE sock[c]]
  /\ pending_' = << >> /\ inbox' = inbox \ Range(pending_) /\ StopTo("notify")
  /\ UNCHANGED <<active_, mutex_, stopping_, listener, shutdown_flagged, AcceptSide, PoolSide,
                 client, left>>

NotifyAll ==
  /\ stop_at = "notify" /\ at' = Awake(Waiters) /\ StopTo("join_accept")
  /\ UNCHANGED <<pending_, active_, mutex_, stopping_, listener, shutdown_flagged, AcceptSide,
                 serving, Net, sock>>

JoinAccept ==
  /\ stop_at = "join_accept" /\ accept_at = "done" /\ StopTo("join_pool")
  /\ UNCHANGED <<pending_, active_, mutex_, stopping_, listener, shutdown_flagged, AcceptSide,
                 PoolSide, Net, sock>>

\* All threads are joined; the state is saved after that.
JoinPool ==
  /\ stop_at = "join_pool" /\ (\A t \in Pool : at[t] = "done") /\ StopTo("stopped")
  /\ UNCHANGED <<pending_, active_, mutex_, stopping_, listener, shutdown_flagged, AcceptSide,
                 PoolSide, Net, sock>>

StopThread == CloseListener \/ CloseConnections \/ NotifyAll \/ JoinAccept \/ JoinPool

-----------------------------------------------------------------------------
(***************************************************************************)
(* The clients: one request at a time, gone whenever they like.            *)
(***************************************************************************)
Connect(c) ==
  /\ client[c] = "new" /\ listener = "open"
  /\ client' = [client EXCEPT ![c] = "idle"] /\ backlog' = Append(backlog, c)
  /\ UNCHANGED <<pending_, active_, mutex_, accept_at, accepted, PoolSide, StopSide,
                 inbox, left, sock>>

Request(c) ==
  /\ client[c] = "idle" /\ left[c] > 0
  /\ client' = [client EXCEPT ![c] = "waiting"]
  /\ inbox' = inbox \cup {c}
  /\ left' = [left EXCEPT ![c] = @ - 1]
  /\ UNCHANGED <<pending_, active_, mutex_, AcceptSide, PoolSide, StopSide, sock>>

Leave(c) ==
  /\ client[c] \in {"idle", "waiting"}
  /\ client' = [client EXCEPT ![c] = "gone"] /\ left' = [left EXCEPT ![c] = 0]
  /\ UNCHANGED <<pending_, active_, mutex_, AcceptSide, PoolSide, StopSide, inbox, sock>>

-----------------------------------------------------------------------------
Next ==
  \/ AcceptThread
  \/ \E t \in Pool : PoolThread(t)
  \/ StopBegins \/ StopThread
  \/ \E c \in Clients : Connect(c) \/ Request(c) \/ Leave(c)

\* Every thread that can go on does so; the owner of the server stops it once a
\* shutdown was requested.  Clients owe nothing: they may stay connected and silent.
Fairness ==
  /\ WF_vars(AcceptThread) /\ \A t \in Pool : WF_vars(PoolThread(t))
  /\ WF_vars(StopThread) /\ WF_vars(shutdown_flagged /\ StopBegins)

Spec == Init /\ [][Next]_vars /\ Fairness

-----------------------------------------------------------------------------
(***************************************************************************)
(* Properties.                                                             *)
(***************************************************************************)

\* The pointers in active_ are those of connections that a thread still owns: stop,
\* which closes them under the lock, never touches one that was destroyed.
ActiveIsOwned ==
  \A c \in active_ : \E t \in Pool :
    serving[t] = c /\ at[t] \in {"serve", "receive", "dispatch", "send", "erase"}

\* When stop_server goes on to save the state, no thread serves a request and no
\* connection that was accepted is open or queued: one that was accepted during the stop
\* is closed by the accept thread itself.
StoppedIsQuiet ==
  stop_at = "stopped" =>
    /\ active_ = {} /\ pending_ = << >> /\ accept_at = "done" /\ \A t \in Pool : at[t] = "done"
    /\ \A c \in Clients : sock[c] # "open"

\* A stop comes to its end, and so does a server whose shutdown was requested over the
\* network, whatever the clients do and wherever the threads are: nobody sleeps through
\* the stop, and no silent client holds it up.
StopEnds == stop_at # "running" \/ shutdown_flagged ~> stop_at = "stopped"

Free(t) == at[t] \in {"lock", "sleep", "waiting"}

\* The first connection of the queue does not wait while a thread of the pool is free:
\* no notification is lost between the accept thread and the pool.
HeadIsTaken ==
  \A c \in Clients :
    (pending_ # << >> /\ Head(pending_) = c /\ \E t \in Pool : Free(t))
      ~> ~(pending_ # << >> /\ Head(pending_) = c)

=============================================================================
