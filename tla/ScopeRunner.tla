----------------------------- MODULE ScopeRunner -----------------------------
(***************************************************************************)
(* SimpleWeb::ScopeRunner (bhttp/utility.hpp:429-473): one atomic long     *)
(* that every asio handler of a server or client raises before it touches  *)
(* its owner (continue_lock) and lowers when it returns (~SharedLock), and *)
(* that the owner's destructor sets to -1 (stop) before it frees anything. *)
(*                                                                         *)
(* Each atomic access of the code is one step, so handlers and destructors *)
(* interleave as the threads of an io_context do.  A spurious failure of   *)
(* compare_exchange_weak leaves the state as it was: it is a stuttering    *)
(* step, and needs no action.                                              *)
(***************************************************************************)
EXTENDS Integers, FiniteSets

CONSTANTS Handlers,   \* handler invocations that call continue_lock()
          Stoppers,   \* threads that call stop(): destructors of the owner
          Recurring   \* the handlers whose operation is started again when
                      \* they return, as a keep-alive read is

ASSUME HandlersAssumption ==
  /\ IsFiniteSet(Handlers)
  /\ Recurring \subseteq Handlers

VARIABLES count,      \* ScopeRunner::count
          handlerAt,  \* where a handler is in continue_lock() and after it
          expected,   \* the local variable `expected` of its continue_lock()
          stopperAt   \* where a thread is in stop()

vars == <<count, handlerAt, expected, stopperAt>>

HandlerPlaces == {"idle", "trying", "inside", "refused", "done"}
StopperPlaces == {"idle", "stopping", "stopped"}

Inside == {h \in Handlers : handlerAt[h] = "inside"}

\* No lock is released that was not taken: the count is never below -1.
TypeOK ==
  /\ count \in Nat \cup {-1}
  /\ handlerAt \in [Handlers -> HandlerPlaces]
  /\ expected \in [Handlers -> Int]
  /\ stopperAt \in [Stoppers -> StopperPlaces]

Init ==
  /\ count = 0
  /\ handlerAt = [h \in Handlers |-> "idle"]
  /\ expected = [h \in Handlers |-> 0]
  /\ stopperAt = [s \in Stoppers |-> "idle"]

-----------------------------------------------------------------------------
(* continue_lock() *)

\* long expected = count;
LoadCount(h) ==
  /\ handlerAt[h] = "idle"
  /\ expected' = [expected EXCEPT ![h] = count]
  /\ handlerAt' = [handlerAt EXCEPT ![h] = "trying"]
  /\ UNCHANGED <<count, stopperAt>>

\* The exchange succeeds: the handler holds a SharedLock.
TakeLockUnchecked(h) ==   \* mutant: the loop forgets `expected >= 0`
  /\ handlerAt[h] = "trying"
  /\ count = expected[h]
  /\ count' = count + 1
  /\ handlerAt' = [handlerAt EXCEPT ![h] = "inside"]
  /\ UNCHANGED <<expected, stopperAt>>

TakeLock(h) ==
  /\ handlerAt[h] = "trying"
  /\ expected[h] >= 0
  /\ count = expected[h]
  /\ count' = count + 1
  /\ handlerAt' = [handlerAt EXCEPT ![h] = "inside"]
  /\ UNCHANGED <<expected, stopperAt>>

\* The exchange fails and stores the value it saw into `expected`.
RetryLockStale(h) ==      \* mutant: `expected` keeps the value first loaded
  /\ handlerAt[h] = "trying"
  /\ expected[h] >= 0
  /\ count # expected[h]
  /\ UNCHANGED vars

RetryLock(h) ==
  /\ handlerAt[h] = "trying"
  /\ expected[h] >= 0
  /\ count # expected[h]
  /\ expected' = [expected EXCEPT ![h] = count]
  /\ UNCHANGED <<count, handlerAt, stopperAt>>

\* expected < 0: nullptr, and the handler returns at once.
Refuse(h) ==
  /\ handlerAt[h] = "trying"
  /\ expected[h] < 0
  /\ handlerAt' = [handlerAt EXCEPT ![h] = "refused"]
  /\ UNCHANGED <<count, expected, stopperAt>>

\* ~SharedLock(), at the end of the handler.
UnlockForgotten(h) ==     \* mutant: the destructor leaves count alone
  /\ handlerAt[h] = "inside"
  /\ handlerAt' = [handlerAt EXCEPT ![h] =
                     IF h \in Recurring THEN "idle" ELSE "done"]
  /\ UNCHANGED <<count, expected, stopperAt>>

Unlock(h) ==
  /\ handlerAt[h] = "inside"
  /\ count' = count - 1
  /\ handlerAt' = [handlerAt EXCEPT ![h] =
                     IF h \in Recurring THEN "idle" ELSE "done"]
  /\ UNCHANGED <<expected, stopperAt>>

-----------------------------------------------------------------------------
(* stop() *)

\* long expected = 0; and the loop is entered.
CallStop(s) ==
  /\ stopperAt[s] = "idle"
  /\ stopperAt' = [stopperAt EXCEPT ![s] = "stopping"]
  /\ UNCHANGED <<count, handlerAt, expected>>

\* count.compare_exchange_weak(0, -1) succeeds.
CloseScopeEarly(s) ==     \* mutant: closes with one lock still out
  /\ stopperAt[s] = "stopping"
  /\ count \in {0, 1}
  /\ count' = -1
  /\ stopperAt' = [stopperAt EXCEPT ![s] = "stopped"]
  /\ UNCHANGED <<handlerAt, expected>>

CloseScope(s) ==
  /\ stopperAt[s] = "stopping"
  /\ count = 0
  /\ count' = -1
  /\ stopperAt' = [stopperAt EXCEPT ![s] = "stopped"]
  /\ UNCHANGED <<handlerAt, expected>>

\* It fails on a negative count: somebody else has closed the scope.
\* (On a positive one `expected` is reset to 0 and the loop spins.)
FindClosed(s) ==
  /\ stopperAt[s] = "stopping"
  /\ count < 0
  /\ stopperAt' = [stopperAt EXCEPT ![s] = "stopped"]
  /\ UNCHANGED <<count, handlerAt, expected>>

-----------------------------------------------------------------------------
HandlerStep(h) == LoadCount(h) \/ TakeLock(h) \/ RetryLock(h) \/ Refuse(h) \/ Unlock(h)

StopperStep(s) == CallStop(s) \/ CloseScope(s) \/ FindClosed(s)

Next ==
  \/ \E h \in Handlers : HandlerStep(h)
  \/ \E s \in Stoppers : StopperStep(s)

Spec == Init /\ [][Next]_vars

\* A thread in the middle of continue_lock(), of a handler or of stop() is
\* not descheduled for ever.  Nothing obliges a handler to run or a
\* destructor to be called, so LoadCount and CallStop are not fair.
Fairness ==
  /\ \A h \in Handlers : WF_vars(TakeLock(h) \/ RetryLock(h) \/ Refuse(h)) /\ WF_vars(Unlock(h))
  /\ \A s \in Stoppers : WF_vars(CloseScope(s) \/ FindClosed(s))

FairSpec == Spec /\ Fairness

-----------------------------------------------------------------------------
(* Properties *)

\* "Blocks until all shared locks are released, then prevents future shared
\* locks" (utility.hpp:463): once any stop() has returned, the destructor
\* frees the owner, and no handler is between continue_lock() and the release
\* of its lock, now or ever.
NoHandlerAfterStop ==
  (\E s \in Stoppers : stopperAt[s] = "stopped") => Inside = {}

\* The count is exact: the number of locks out while the scope is open, and
\* -1 only with none out.  It is what makes the two exchanges safe, and the
\* inductive invariant of ScopeRunnerProofs.
CountIsExact ==
  \/ count = Cardinality(Inside)
  \/ count = -1 /\ Inside = {}

\* The scope never opens again: a late handler, or a second destructor
\* call that finds the count negative, cannot let anybody in.
NeverReopens == [][count = -1 => count' = -1]_vars

\* The counter protocol implements the gate.
Gate == INSTANCE ScopeGate WITH holders <- Inside, closed <- (count = -1)
ImplementsGate == Gate!Spec

\* Every stop() returns: the destructor of a server or client does not hang on
\* a counter lowered too rarely.  Only handlers that recur for ever starve it.
StopReturns ==
  \A s \in Stoppers :
    \/ stopperAt[s] = "stopping" ~> stopperAt[s] = "stopped"
    \/ []<>(Inside \cap Recurring # {})

\* continue_lock() decides: the exchange loop does not spin on a stale value,
\* though other handlers that recur for ever may get in its way each time.
ContinueLockDecides ==
  \A h \in Handlers :
    \/ handlerAt[h] = "trying" ~> handlerAt[h] \in {"inside", "refused"}
    \/ []<>(Inside \cap Recurring # {})

=============================================================================
