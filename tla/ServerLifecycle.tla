--------------------------- MODULE ServerLifecycle ---------------------------
(***************************************************************************)
(* Who may call start(), stop() and the destructor of a server, and which  *)
(* of these calls return (bhttp/server_http.hpp:420-507; start() and       *)
(* stop() of bhttp/server_ws.hpp are the same).                            *)
(*                                                                         *)
(* start() opens the acceptor under start_stop_mutex, makes the threads of *)
(* the pool, releases the mutex while the caller runs the io_service with  *)
(* them, takes it again and joins them with the mutex held.  A thread that *)
(* runs the io_service runs the user's handlers, each inside the           *)
(* ScopeRunner (ScopeRunner.tla), and a handler may call stop() or, on an  *)
(* io_service of the user's, destroy the server.  The connections are left *)
(* to HttpServer.tla and WsServer.tla.                                     *)
(*                                                                         *)
(* What the language forbids is not modelled: no start() or stop() of a    *)
(* server that is being destroyed, no destructor while a user's thread is  *)
(* in start() or stop(), and no start() from inside a handler.             *)
(***************************************************************************)
EXTENDS Integers, FiniteSets

CONSTANTS Users,      \* threads of the user's that call start(), stop() and the destructor
          Pool,       \* the thread_pool_size - 1 threads that start() makes; on an
                      \* io_service of the user's, the threads that run it
          MaxCalls,   \* bound: calls of start(), stop() and the destructor
          MaxEvents   \* bound: handlers that run

ASSUME ThreadsAssumption ==
  /\ Users \cap Pool = {} /\ "none" \notin Users \cup Pool
  /\ {MaxCalls, MaxEvents} \subseteq Nat

Threads == Users \cup Pool

VARIABLES internal,    \* internal_io_service
          acceptor,    \* "none", "open" or "closed"
          stopped,     \* io_service->stopped()
          mutex,       \* who keeps start_stop_mutex from one step to the next
          at,          \* by thread, where it is
          holders,     \* the threads in a handler, with its SharedLock
          owner,       \* "alive", "closed" after handler_runner->stop(), "gone"
          overlapped,  \* history: a start() began before another had returned
          crashed,     \* std::terminate() was called
          calls, events

vars == <<internal, acceptor, stopped, mutex, at, holders, owner, overlapped, crashed,
          calls, events>>

UserPlaces == {"idle", "startLock", "run", "handler", "relock", "join", "stopLock",
               "spin", "finalLock"}
PoolPlaces == {"none", "run", "handler", "stopLock", "spin", "finalLock", "exited"}

TypeOK ==
  /\ internal \in BOOLEAN /\ stopped \in BOOLEAN /\ overlapped \in BOOLEAN /\ crashed \in BOOLEAN
  /\ acceptor \in {"none", "open", "closed"}
  /\ mutex \in Threads \cup {"none"}
  /\ at \in [Threads -> UserPlaces \cup PoolPlaces]
  /\ holders \subseteq Threads
  /\ owner \in {"alive", "closed", "gone"}
  /\ calls \in 0..MaxCalls /\ events \in 0..MaxEvents

Init ==
  /\ internal \in BOOLEAN
  /\ acceptor = "none" /\ mutex = "none" /\ owner = "alive"
  /\ stopped = FALSE /\ overlapped = FALSE /\ crashed = FALSE
  /\ at = [t \in Threads |-> IF t \in Users THEN "idle" ELSE IF internal THEN "none" ELSE "run"]
  /\ holders = {}
  /\ calls = 0 /\ events = 0

-----------------------------------------------------------------------------
Goes(t, place) == at' = [at EXCEPT ![t] = place]

\* Threads between the first lock of start() and its return.
Starting == {t \in Users : at[t] \in {"run", "relock", "join"} \/ t \in holders}

\* `threads` has elements that are not joined.
Joinable == internal /\ \E p \in Pool : at[p] # "none"

\* A user's thread calls start(), stop() or the destructor.
Call(t, place) ==
  /\ ~crashed /\ t \in Users /\ at[t] = "idle" /\ calls < MaxCalls
  /\ Goes(t, place)
  /\ calls' = calls + 1
  /\ UNCHANGED <<internal, acceptor, stopped, mutex, holders, owner, overlapped, crashed, events>>

\* The object exists, and nobody destroys it.
Usable == owner = "alive" /\ \A u \in Threads : at[u] # "spin"

CallStart(t) == Usable /\ Call(t, "startLock")

CallStop(t) == Usable /\ Call(t, "stopLock")

UsersIdle == \A u \in Users : at[u] = "idle"

CallDestroy(t) == Usable /\ UsersIdle /\ Call(t, "spin")

-----------------------------------------------------------------------------
(* start() *)

\* The acceptor is open already, or the port is taken: open() or bind() throws,
\* and the acceptor is left open.
StartThrows(t) ==
  /\ ~crashed /\ at[t] = "startLock" /\ mutex = "none"
  /\ acceptor' = "open"
  /\ Goes(t, "idle")
  /\ UNCHANGED <<internal, stopped, mutex, holders, owner, overlapped, crashed, calls, events>>

\* threads.clear() destroys threads that nobody has joined.
ClearThrows(t) ==
  /\ ~crashed /\ at[t] = "startLock" /\ mutex = "none" /\ acceptor # "open" /\ Joinable
  /\ crashed' = TRUE
  /\ overlapped' = (overlapped \/ Starting # {})
  /\ UNCHANGED <<internal, acceptor, stopped, mutex, at, holders, owner, calls, events>>

\* accept(), the io_service is restarted, the pool is made and the mutex is
\* released; on an io_service of the user's start() returns here.
StartKeepsLock(t) ==     \* mutant: the mutex is not released before run()
  /\ ~crashed /\ at[t] = "startLock" /\ mutex = "none" /\ acceptor # "open" /\ ~Joinable
  /\ acceptor' = "open"
  /\ overlapped' = (overlapped \/ Starting # {})
  /\ IF internal
       THEN /\ stopped' = FALSE
            /\ mutex' = t
            /\ at' = [u \in Threads |-> IF u \in Pool \cup {t} THEN "run" ELSE at[u]]
       ELSE Goes(t, "idle") /\ UNCHANGED <<stopped, mutex>>
  /\ UNCHANGED <<internal, holders, owner, crashed, calls, events>>

Start(t) ==
  /\ ~crashed /\ at[t] = "startLock" /\ mutex = "none" /\ acceptor # "open" /\ ~Joinable
  /\ acceptor' = "open"
  /\ overlapped' = (overlapped \/ Starting # {})
  /\ IF internal
       THEN /\ stopped' = FALSE
            /\ at' = [u \in Threads |-> IF u \in Pool \cup {t} THEN "run" ELSE at[u]]
       ELSE Goes(t, "idle") /\ UNCHANGED stopped
  /\ UNCHANGED <<internal, mutex, holders, owner, crashed, calls, events>>

\* io_service->run() returns when the io_service is stopped.
RunReturns(t) ==
  /\ ~crashed /\ at[t] = "run" /\ stopped
  /\ Goes(t, IF t \in Pool THEN "exited" ELSE "relock")
  /\ UNCHANGED <<internal, acceptor, stopped, mutex, holders, owner, overlapped, crashed,
                 calls, events>>

Relock(t) ==
  /\ ~crashed /\ at[t] = "relock" /\ mutex = "none"
  /\ mutex' = t
  /\ Goes(t, "join")
  /\ UNCHANGED <<internal, acceptor, stopped, holders, owner, overlapped, crashed, calls, events>>

\* All threads are joined, and start() returns.
JoinFirstOnly(t) ==     \* mutant: only one thread of the pool is joined
  /\ ~crashed /\ at[t] = "join"
  /\ \E p \in Pool :
       /\ at[p] = "exited"
       /\ at' = [at EXCEPT ![t] = "idle", ![p] = "none"]
  /\ mutex' = "none"
  /\ UNCHANGED <<internal, acceptor, stopped, holders, owner, overlapped, crashed, calls, events>>

Join(t) ==
  /\ ~crashed /\ at[t] = "join"
  /\ \A p \in Pool : at[p] \in {"exited", "none"}
  /\ at' = [u \in Threads |-> IF u = t THEN "idle" ELSE IF u \in Pool THEN "none" ELSE at[u]]
  /\ mutex' = "none"
  /\ UNCHANGED <<internal, acceptor, stopped, holders, owner, overlapped, crashed, calls, events>>

-----------------------------------------------------------------------------
(* Handlers *)

\* A handler is let in by continue_lock().
RunHandler(t) ==
  /\ ~crashed /\ at[t] = "run" /\ ~stopped /\ owner = "alive" /\ events < MaxEvents
  /\ Goes(t, "handler")
  /\ holders' = holders \cup {t}
  /\ events' = events + 1
  /\ UNCHANGED <<internal, acceptor, stopped, mutex, owner, overlapped, crashed, calls>>

HandlerReturns(t) ==
  /\ ~crashed /\ at[t] = "handler"
  /\ Goes(t, "run")
  /\ holders' = holders \ {t}
  /\ UNCHANGED <<internal, acceptor, stopped, mutex, owner, overlapped, crashed, calls, events>>

HandlerCalls(t, place) ==
  /\ ~crashed /\ at[t] = "handler" /\ calls < MaxCalls
  /\ Goes(t, place)
  /\ calls' = calls + 1
  /\ UNCHANGED <<internal, acceptor, stopped, mutex, holders, owner, overlapped, crashed, events>>

\* ScopeRunner lets a handler of a server that is being destroyed go on.
HandlerStops(t) == HandlerCalls(t, "stopLock")

\* start() has returned, and no other thread uses the server but in handlers.
HandlerDestroys(t) == ~internal /\ Usable /\ UsersIdle /\ HandlerCalls(t, "spin")

-----------------------------------------------------------------------------
(* stop() and the destructor *)

\* stop(), under the mutex: the acceptor is closed, and the server's own io_service stopped.
StopsAll ==
  /\ ~crashed /\ mutex = "none"
  /\ acceptor' = IF acceptor = "open" THEN "closed" ELSE acceptor
  /\ stopped' = (stopped \/ (internal /\ acceptor # "none"))

Stop(t) ==
  /\ at[t] = "stopLock" /\ StopsAll
  /\ Goes(t, IF t \in holders THEN "handler" ELSE "idle")
  /\ UNCHANGED <<internal, mutex, holders, owner, overlapped, crashed, calls, events>>

\* handler_runner->stop() spins until nobody is in a handler.
CloseScope(t) ==
  /\ ~crashed /\ at[t] = "spin" /\ holders = {}
  /\ owner' = "closed"
  /\ Goes(t, "finalLock")
  /\ UNCHANGED <<internal, acceptor, stopped, mutex, holders, overlapped, crashed, calls, events>>

\* The destructor's stop().
Destroy(t) ==
  /\ at[t] = "finalLock" /\ StopsAll
  /\ owner' = "gone"
  /\ Goes(t, "idle")
  /\ UNCHANGED <<internal, mutex, holders, overlapped, crashed, calls, events>>

-----------------------------------------------------------------------------
Calls(t) == CallStart(t) \/ CallStop(t) \/ CallDestroy(t)

\* What a thread does once it has the processor: no choice of the user's.
Proceeds(t) ==
  \/ StartThrows(t) \/ ClearThrows(t) \/ Start(t) \/ RunReturns(t) \/ Relock(t) \/ Join(t)
  \/ HandlerReturns(t) \/ Stop(t) \/ CloseScope(t) \/ Destroy(t)

Next ==
  \E t \in Threads :
    Calls(t) \/ Proceeds(t) \/ RunHandler(t) \/ HandlerStops(t) \/ HandlerDestroys(t)

Spec == Init /\ [][Next]_vars

\* A thread that can proceed does, and std::mutex lets a thread that waits in at last.
\* Nothing obliges anyone to call, or a handler to be run.
Fairness == \A t \in Threads : SF_vars(Proceeds(t))

FairSpec == Spec /\ Fairness

-----------------------------------------------------------------------------
(* Properties *)

\* A server can be started again as soon as start() has returned, whoever stopped
\* it and however often.  std::terminate() is called only when a start() begins
\* before an earlier one has returned, though stop() has.
OrderlyRestart == crashed => overlapped

\* The one deadlock: a thread of the pool is in a handler that calls stop(), and
\* start() joins it with the mutex held.
JoinsStopper == mutex # "none" /\ \E p \in Pool : at[p] = "stopLock"

\* Every stop() and destructor returns, and every start() whose io_service is
\* stopped, but for that deadlock, and for a destructor called in a handler,
\* which waits for its own lock.
CallsReturn ==
  \A t \in Threads :
    (at[t] \in {"startLock", "stopLock", "relock", "join", "spin", "finalLock"})
      ~> \/ at[t] \in {"idle", "run", "handler"}
         \/ JoinsStopper
         \/ at[t] = "spin" /\ t \in holders
         \/ crashed

=============================================================================
