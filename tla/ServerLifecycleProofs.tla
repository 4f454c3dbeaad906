------------------------ MODULE ServerLifecycleProofs ------------------------
(***************************************************************************)
(* That a server which has been stopped can be started again, whatever the *)
(* number of threads: the threads of a pool are joined before start()      *)
(* returns, so only a start() inside another finds any in its way.         *)
(***************************************************************************)
EXTENDS ServerLifecycle, TLAPS

\* While a thread of the pool is not joined, the start() that made it goes on.
PoolHasOwner == Joinable => Starting # {}

IInv == TypeOK /\ PoolHasOwner /\ OrderlyRestart

USE DEF Threads

-----------------------------------------------------------------------------
(* What the steps of one thread do to the threads of start(). *)

\* A thread that is not made or joined leaves the pool joinable or not as it is.
LEMMA StepKeepsPool ==
  ASSUME TypeOK, PoolHasOwner, NEW t \in Threads, NEW place \in UserPlaces \cup PoolPlaces,
         at' = [at EXCEPT ![t] = place], at[t] # "none", internal' = internal,
         t \in Starting => t \in Starting', \A u \in Users \ {t} : u \in holders <=> u \in holders'
  PROVE  PoolHasOwner'
<1>1. Joinable' => Joinable
  BY DEF Joinable, TypeOK
<1>2. \A u \in Starting \ {t} : u \in Starting'
  BY DEF Starting, TypeOK
<1> QED  BY <1>1, <1>2 DEF PoolHasOwner

LEMMA InitInv == Init => IInv
<1> SUFFICES ASSUME Init PROVE IInv
  OBVIOUS
<1>1. at \in [Threads -> UserPlaces \cup PoolPlaces]
  <2>1. \A t \in Threads :
          (IF t \in Users THEN "idle" ELSE IF internal THEN "none" ELSE "run") \in UserPlaces \cup PoolPlaces
    BY DEF UserPlaces, PoolPlaces
  <2> QED  BY <2>1 DEF Init
<1>2. TypeOK
  <2>1. internal \in BOOLEAN /\ stopped \in BOOLEAN /\ overlapped \in BOOLEAN /\ crashed \in BOOLEAN
    BY DEF Init
  <2>2. calls \in 0..MaxCalls /\ events \in 0..MaxEvents
    BY ThreadsAssumption DEF Init
  <2> QED  BY <1>1, <2>1, <2>2 DEF Init, TypeOK
<1>3. ~Joinable
  <2>1. CASE internal
    <3>1. \A p \in Pool : at[p] = "none"
      BY <2>1, ThreadsAssumption DEF Init
    <3> QED  BY <3>1 DEF Joinable
  <2>2. CASE ~internal
    BY <2>2 DEF Joinable
  <2> QED  BY <2>1, <2>2
<1> QED  BY <1>2, <1>3 DEF IInv, PoolHasOwner, OrderlyRestart, Init

LEMMA NextInv == IInv /\ [Next]_vars => IInv'
<1> SUFFICES ASSUME IInv, [Next]_vars PROVE IInv'
  OBVIOUS
<1> USE DEF IInv
<1>0. CASE UNCHANGED vars
  BY <1>0 DEF vars, TypeOK, PoolHasOwner, OrderlyRestart, Joinable, Starting
<1> SUFFICES ASSUME NEW t \in Threads,
                    Calls(t) \/ Proceeds(t) \/ RunHandler(t) \/ HandlerStops(t) \/ HandlerDestroys(t)
             PROVE  IInv'
  BY <1>0 DEF Next
<1> USE ThreadsAssumption
<1>1. ASSUME NEW place \in {"startLock", "stopLock", "spin"}, Call(t, place) PROVE IInv'
  <2>1. TypeOK' /\ OrderlyRestart'
    BY <1>1 DEF Call, Goes, TypeOK, OrderlyRestart, UserPlaces, PoolPlaces
  <2>2. PoolHasOwner'
    BY <1>1, StepKeepsPool DEF Call, Goes, UserPlaces, PoolPlaces, Starting, TypeOK
  <2> QED  BY <2>1, <2>2
<1>2. CASE StartThrows(t)
  <2>1. TypeOK' /\ OrderlyRestart'
    BY <1>2 DEF StartThrows, Goes, TypeOK, OrderlyRestart, UserPlaces, PoolPlaces
  <2>2. PoolHasOwner'
    BY <1>2, StepKeepsPool DEF StartThrows, Goes, UserPlaces, PoolPlaces, Starting, TypeOK
  <2> QED  BY <2>1, <2>2
<1>3. CASE ClearThrows(t)
  <2>1. Starting # {} /\ Starting' = Starting /\ Joinable' = Joinable
    BY <1>3 DEF ClearThrows, PoolHasOwner, Starting, Joinable
  <2>2. overlapped' = TRUE
    BY <1>3, <2>1 DEF ClearThrows
  <2> QED  BY <1>3, <2>1, <2>2 DEF ClearThrows, TypeOK, OrderlyRestart, PoolHasOwner
<1>4. CASE Start(t)
  <2>1. TypeOK'
    <3>1. overlapped' \in BOOLEAN
      BY <1>4 DEF Start
    <3> QED  BY <1>4, <3>1 DEF Start, Goes, TypeOK, UserPlaces, PoolPlaces
  <2>2. OrderlyRestart'
    BY <1>4 DEF Start, OrderlyRestart
  <2>3. PoolHasOwner'
    <3>1. CASE internal
      <4>1. at[t] = "startLock" /\ ~Joinable
        BY <1>4 DEF Start
      <4>2. t \in Users
        BY <4>1, <3>1 DEF Joinable, TypeOK
      <4>3. t \in Starting'
        BY <1>4, <3>1, <4>2 DEF Start, Starting, TypeOK
      <4> QED  BY <4>3 DEF PoolHasOwner
    <3>2. CASE ~internal
      BY <1>4, <3>2 DEF Start, PoolHasOwner, Joinable
    <3> QED  BY <3>1, <3>2
  <2> QED  BY <2>1, <2>2, <2>3
<1>5. CASE RunReturns(t)
  <2>1. TypeOK' /\ OrderlyRestart'
    BY <1>5 DEF RunReturns, Goes, TypeOK, OrderlyRestart, UserPlaces, PoolPlaces
  <2>2. PoolHasOwner'
    BY <1>5, StepKeepsPool DEF RunReturns, Goes, UserPlaces, PoolPlaces, Starting, TypeOK
  <2> QED  BY <2>1, <2>2
<1>6. CASE Relock(t)
  <2>1. TypeOK' /\ OrderlyRestart'
    BY <1>6 DEF Relock, Goes, TypeOK, OrderlyRestart, UserPlaces, PoolPlaces
  <2>2. PoolHasOwner'
    BY <1>6, StepKeepsPool DEF Relock, Goes, UserPlaces, PoolPlaces, Starting, TypeOK
  <2> QED  BY <2>1, <2>2
<1>7. CASE RunHandler(t)
  <2>1. TypeOK' /\ OrderlyRestart'
    BY <1>7 DEF RunHandler, Goes, TypeOK, OrderlyRestart, UserPlaces, PoolPlaces
  <2>2. PoolHasOwner'
    BY <1>7, StepKeepsPool DEF RunHandler, Goes, UserPlaces, PoolPlaces, Starting, TypeOK
  <2> QED  BY <2>1, <2>2
<1>8. CASE HandlerReturns(t)
  <2>1. TypeOK' /\ OrderlyRestart'
    BY <1>8 DEF HandlerReturns, Goes, TypeOK, OrderlyRestart, UserPlaces, PoolPlaces
  <2>2. PoolHasOwner'
    BY <1>8, StepKeepsPool DEF HandlerReturns, Goes, UserPlaces, PoolPlaces, Starting, TypeOK
  <2> QED  BY <2>1, <2>2
<1>9. CASE Stop(t)
  <2>1. TypeOK' /\ OrderlyRestart'
    BY <1>9 DEF Stop, StopsAll, Goes, TypeOK, OrderlyRestart, UserPlaces, PoolPlaces
  <2>2. PoolHasOwner'
    BY <1>9, StepKeepsPool DEF Stop, StopsAll, Goes, UserPlaces, PoolPlaces, Starting, TypeOK
  <2> QED  BY <2>1, <2>2
<1>10. CASE CloseScope(t)
  <2>1. TypeOK' /\ OrderlyRestart'
    BY <1>10 DEF CloseScope, Goes, TypeOK, OrderlyRestart, UserPlaces, PoolPlaces
  <2>2. PoolHasOwner'
    BY <1>10, StepKeepsPool DEF CloseScope, Goes, UserPlaces, PoolPlaces, Starting, TypeOK
  <2> QED  BY <2>1, <2>2
<1>11. CASE Destroy(t)
  <2>1. TypeOK' /\ OrderlyRestart'
    BY <1>11 DEF Destroy, StopsAll, Goes, TypeOK, OrderlyRestart, UserPlaces, PoolPlaces
  <2>2. PoolHasOwner'
    BY <1>11, StepKeepsPool DEF Destroy, StopsAll, Goes, UserPlaces, PoolPlaces, Starting, TypeOK
  <2> QED  BY <2>1, <2>2
<1>12. ASSUME NEW place \in {"stopLock", "spin"}, HandlerCalls(t, place) PROVE IInv'
  <2>1. TypeOK' /\ OrderlyRestart'
    BY <1>12 DEF HandlerCalls, Goes, TypeOK, OrderlyRestart, UserPlaces, PoolPlaces
  <2>2. PoolHasOwner'
    BY <1>12, StepKeepsPool DEF HandlerCalls, Goes, UserPlaces, PoolPlaces, Starting, TypeOK
  <2> QED  BY <2>1, <2>2
<1>13. CASE Join(t)
  <2>1. TypeOK' /\ OrderlyRestart'
    BY <1>13 DEF Join, TypeOK, OrderlyRestart, UserPlaces, PoolPlaces
  <2>2. PoolHasOwner'
    <3>1. CASE internal
      <4>1. t \notin Pool
        BY <1>13 DEF Join
      <4>2. \A p \in Pool : at'[p] = "none"
        BY <1>13, <4>1 DEF Join
      <4> QED  BY <4>2 DEF PoolHasOwner, Joinable
    <3>2. CASE ~internal
      BY <1>13, <3>2 DEF Join, PoolHasOwner, Joinable
    <3> QED  BY <3>1, <3>2
  <2> QED  BY <2>1, <2>2
<1> QED
  BY <1>1, <1>2, <1>3, <1>4, <1>5, <1>6, <1>7, <1>8, <1>9, <1>10, <1>11, <1>12, <1>13
  DEF Calls, Proceeds, CallStart, CallStop, CallDestroy, HandlerStops, HandlerDestroys

-----------------------------------------------------------------------------
LEMMA Invariance == Spec => []IInv
BY InitInv, NextInv, PTL DEF Spec

\* Types, for any number of threads and calls.
THEOREM TypeCorrect == Spec => []TypeOK
<1>1. IInv => TypeOK
  BY DEF IInv
<1> QED  BY <1>1, Invariance, PTL

\* The process terminates only when a start() begins before an earlier one has returned
\* (server_http.hpp:475): a server that has been stopped can be started again.
THEOREM RestartIsOrderly == Spec => []OrderlyRestart
<1>1. IInv => OrderlyRestart
  BY DEF IInv
<1> QED  BY <1>1, Invariance, PTL

=============================================================================
