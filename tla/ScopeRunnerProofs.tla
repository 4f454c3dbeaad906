-------------------------- MODULE ScopeRunnerProofs --------------------------
(***************************************************************************)
(* Proofs about ScopeRunner, for any finite set of handlers and any set of *)
(* destructors.  The inductive invariant is TypeOK /\ CountIsExact plus    *)
(* the fact that a returned stop() leaves a closed count.                  *)
(***************************************************************************)
EXTENDS ScopeRunner, FiniteSetTheorems, TLAPS

StoppedIsClosed == \A s \in Stoppers : stopperAt[s] = "stopped" => count = -1

IInv == TypeOK /\ CountIsExact /\ StoppedIsClosed

-----------------------------------------------------------------------------
(* What the set of handlers inside does when one comes or goes. *)

LEMMA InsideFinite ==
  /\ IsFiniteSet(Inside)
  /\ Cardinality(Inside) \in Nat
  /\ Cardinality(Inside) = 0 <=> Inside = {}
<1>1. Inside \subseteq Handlers
  BY DEF Inside
<1>2. IsFiniteSet(Inside)
  BY <1>1, HandlersAssumption, FS_Subset
<1>. QED
  BY <1>2, FS_CardinalityType, FS_EmptySet

LEMMA InsideGrows ==
  ASSUME TypeOK, NEW h \in Handlers, handlerAt[h] # "inside",
         handlerAt' = [handlerAt EXCEPT ![h] = "inside"]
  PROVE  /\ Inside' = Inside \cup {h}
         /\ Cardinality(Inside') = Cardinality(Inside) + 1
<1>1. Inside' = Inside \cup {h}
  BY DEF Inside, TypeOK
<1>2. h \notin Inside
  BY DEF Inside
<1>. QED
  BY <1>1, <1>2, InsideFinite, FS_AddElement

LEMMA UnlockShrinks ==
  ASSUME TypeOK, NEW h \in Handlers, Unlock(h)
  PROVE  /\ Inside' = Inside \ {h}
         /\ h \in Inside
         /\ Cardinality(Inside') = Cardinality(Inside) - 1
<1>1. Inside' = Inside \ {h}
  BY DEF Inside, TypeOK, Unlock
<1>2. h \in Inside
  BY DEF Inside, Unlock
<1>. QED
  BY <1>1, <1>2, InsideFinite, FS_RemoveElement

LEMMA InsideStays ==
  ASSUME TypeOK, NEW h \in Handlers, NEW place, place # "inside",
         handlerAt[h] # "inside",
         handlerAt' = [handlerAt EXCEPT ![h] = place]
  PROVE  Inside' = Inside
BY DEF Inside, TypeOK

-----------------------------------------------------------------------------
(* The invariant. *)

LEMMA InitIInv == Init => IInv
<1>. SUFFICES ASSUME Init PROVE IInv
  OBVIOUS
<1>1. TypeOK
  BY DEF Init, TypeOK, HandlerPlaces, StopperPlaces
<1>2. Inside = {}
  BY DEF Init, Inside
<1>3. CountIsExact
  BY <1>2, InsideFinite DEF Init, CountIsExact
<1>4. StoppedIsClosed
  BY DEF Init, StoppedIsClosed
<1>. QED
  BY <1>1, <1>3, <1>4 DEF IInv

\* Each conjunct of the invariant is kept by each step.
LEMMA NextTypeOK == IInv /\ [Next]_vars => TypeOK'
<1>. SUFFICES ASSUME IInv, [Next]_vars PROVE TypeOK'
  OBVIOUS
<1>0. TypeOK /\ CountIsExact
  BY DEF IInv
<1>1. ASSUME NEW h \in Handlers, LoadCount(h) \/ TakeLock(h) \/ RetryLock(h) \/ Refuse(h)
      PROVE  TypeOK'
  BY <1>0, <1>1 DEF LoadCount, TakeLock, RetryLock, Refuse, TypeOK, HandlerPlaces
<1>2. ASSUME NEW h \in Handlers, Unlock(h) PROVE TypeOK'
  <2>1. h \in Inside
    BY <1>0, <1>2, UnlockShrinks
  <2>2. count \in Nat \ {0}
    BY <1>0, <2>1, InsideFinite DEF CountIsExact
  <2>. QED
    BY <1>0, <1>2, <2>2 DEF Unlock, TypeOK, HandlerPlaces
<1>3. ASSUME NEW s \in Stoppers, StopperStep(s) PROVE TypeOK'
  BY <1>0, <1>3 DEF StopperStep, CallStop, CloseScope, FindClosed, TypeOK, StopperPlaces
<1>4. CASE UNCHANGED vars
  BY <1>0, <1>4 DEF vars, TypeOK
<1>. QED
  BY <1>1, <1>2, <1>3, <1>4 DEF Next, HandlerStep

LEMMA NextCountIsExact == IInv /\ [Next]_vars => CountIsExact'
<1>. SUFFICES ASSUME IInv, [Next]_vars PROVE CountIsExact'
  OBVIOUS
<1>0. TypeOK /\ CountIsExact
  BY DEF IInv
<1>1. ASSUME NEW h \in Handlers, LoadCount(h) PROVE CountIsExact'
  <2>1. Inside' = Inside
    BY <1>0, <1>1, InsideStays DEF LoadCount
  <2>. QED
    BY <1>0, <1>1, <2>1 DEF LoadCount, CountIsExact
<1>2. ASSUME NEW h \in Handlers, TakeLock(h) PROVE CountIsExact'
  <2>1. count = Cardinality(Inside)
    BY <1>0, <1>2 DEF TakeLock, CountIsExact, TypeOK
  <2>2. Cardinality(Inside') = Cardinality(Inside) + 1
    BY <1>0, <1>2, InsideGrows DEF TakeLock
  <2>. QED
    BY <1>2, <2>1, <2>2 DEF TakeLock, CountIsExact
<1>3. ASSUME NEW h \in Handlers, RetryLock(h) PROVE CountIsExact'
  BY <1>0, <1>3 DEF RetryLock, CountIsExact, Inside
<1>4. ASSUME NEW h \in Handlers, Refuse(h) PROVE CountIsExact'
  <2>1. Inside' = Inside
    BY <1>0, <1>4, InsideStays DEF Refuse
  <2>. QED
    BY <1>0, <1>4, <2>1 DEF Refuse, CountIsExact
<1>5. ASSUME NEW h \in Handlers, Unlock(h) PROVE CountIsExact'
  <2>1. /\ h \in Inside
        /\ Cardinality(Inside') = Cardinality(Inside) - 1
    BY <1>0, <1>5, UnlockShrinks
  <2>2. count = Cardinality(Inside)
    BY <1>0, <2>1 DEF CountIsExact
  <2>. QED
    BY <1>5, <2>1, <2>2 DEF Unlock, CountIsExact
<1>6. ASSUME NEW s \in Stoppers, CallStop(s) \/ FindClosed(s) PROVE CountIsExact'
  BY <1>0, <1>6 DEF CallStop, FindClosed, CountIsExact, Inside
<1>7. ASSUME NEW s \in Stoppers, CloseScope(s) PROVE CountIsExact'
  <2>1. Inside = {}
    BY <1>0, <1>7, InsideFinite DEF CloseScope, CountIsExact
  <2>2. Inside' = Inside
    BY <1>7 DEF CloseScope, Inside
  <2>. QED
    BY <1>7, <2>1, <2>2 DEF CloseScope, CountIsExact
<1>8. CASE UNCHANGED vars
  BY <1>0, <1>8 DEF vars, CountIsExact, Inside
<1>. QED
  BY <1>1, <1>2, <1>3, <1>4, <1>5, <1>6, <1>7, <1>8
     DEF Next, HandlerStep, StopperStep

\* count = -1 is for ever: no exchange of continue_lock() starts from it, and
\* no lock is out to be released.
LEMMA ClosedStays == IInv /\ [Next]_vars => (count = -1 => count' = -1)
<1>. SUFFICES ASSUME IInv, [Next]_vars, count = -1 PROVE count' = -1
  OBVIOUS
<1>1. TypeOK /\ Inside = {}
  BY InsideFinite DEF IInv, CountIsExact
<1>2. ASSUME NEW h \in Handlers, HandlerStep(h) PROVE count' = -1
  BY <1>1, <1>2 DEF HandlerStep, LoadCount, TakeLock, RetryLock, Refuse, Unlock, Inside, TypeOK
<1>3. ASSUME NEW s \in Stoppers, StopperStep(s) PROVE count' = -1
  BY <1>3 DEF StopperStep, CallStop, CloseScope, FindClosed
<1>. QED
  BY <1>2, <1>3 DEF Next, vars

LEMMA NextStoppedIsClosed == IInv /\ [Next]_vars => StoppedIsClosed'
<1>. SUFFICES ASSUME IInv, [Next]_vars, NEW s \in Stoppers, stopperAt'[s] = "stopped"
              PROVE  count' = -1
  BY DEF StoppedIsClosed
<1>1. CASE stopperAt[s] = "stopped"
  BY <1>1, ClosedStays DEF IInv, StoppedIsClosed
<1>2. CASE stopperAt[s] # "stopped"
  <2>1. PICK t \in Stoppers : StopperStep(t)
    BY <1>2 DEF Next, vars, HandlerStep, LoadCount, TakeLock, RetryLock, Refuse, Unlock
  <2>2. CASE CallStop(t)
    BY <1>2, <2>2 DEF CallStop, IInv, TypeOK
  <2>3. CASE CloseScope(t)
    BY <2>3 DEF CloseScope
  <2>4. CASE FindClosed(t)
    <3>1. count = -1
      BY <2>4, InsideFinite DEF FindClosed, IInv, CountIsExact
    <3>. QED
      BY <2>4, <3>1 DEF FindClosed
  <2>. QED
    BY <2>1, <2>2, <2>3, <2>4 DEF StopperStep
<1>. QED
  BY <1>1, <1>2

THEOREM Invariant == Spec => []IInv
<1>1. IInv /\ [Next]_vars => IInv'
  BY NextTypeOK, NextCountIsExact, NextStoppedIsClosed DEF IInv
<1>. QED
  BY InitIInv, <1>1, PTL DEF Spec

-----------------------------------------------------------------------------
(* The properties. *)

\* The variables keep their types: TypeOK of ScopeRunner.
THEOREM TypeCorrect == Spec => []TypeOK
<1>1. IInv => TypeOK
  BY DEF IInv
<1>. QED
  BY Invariant, <1>1, PTL

\* While the scope is open the counter is the number of SharedLocks out, and
\* it is -1 only with none out (CountIsExact).
THEOREM CountCorrect == Spec => []CountIsExact
<1>1. IInv => CountIsExact
  BY DEF IInv
<1>. QED
  BY Invariant, <1>1, PTL

\* A destructor that has returned from stop() leaves no handler inside and
\* lets none in (NoHandlerAfterStop): what every destructor of the servers
\* and clients rests on when it frees its members.
THEOREM StopExcludesHandlers == Spec => []NoHandlerAfterStop
<1>1. IInv => NoHandlerAfterStop
  BY InsideFinite DEF IInv, StoppedIsClosed, CountIsExact, NoHandlerAfterStop
<1>. QED
  BY Invariant, <1>1, PTL

\* A closed scope stays closed (NeverReopens).
THEOREM ClosedForGood == Spec => NeverReopens
<1>1. IInv /\ [Next]_vars => [count = -1 => count' = -1]_vars
  BY ClosedStays
<1>. QED
  BY Invariant, <1>1, PTL DEF Spec, NeverReopens

-----------------------------------------------------------------------------
(* The refinement. *)

LEMMA InitRefines == Init => Gate!Init
<1>. SUFFICES ASSUME Init PROVE Gate!Init
  OBVIOUS
<1>. QED
  BY DEF Init, Gate!Init, Inside

LEMMA NextRefines == IInv /\ [Next]_vars => [Gate!Next]_Gate!gateVars
<1>. SUFFICES ASSUME IInv, [Next]_vars PROVE [Gate!Next]_Gate!gateVars
  OBVIOUS
<1>. USE DEF Gate!Next, Gate!gateVars
<1>0. TypeOK /\ CountIsExact
  BY DEF IInv
<1>1. ASSUME NEW h \in Handlers, LoadCount(h) \/ Refuse(h)
      PROVE  UNCHANGED Gate!gateVars
  BY <1>0, <1>1, InsideStays DEF LoadCount, Refuse
<1>2. ASSUME NEW h \in Handlers, TakeLock(h) PROVE Gate!Enter(h)
  <2>1. Inside' = Inside \cup {h}
    BY <1>0, <1>2, InsideGrows DEF TakeLock
  <2>2. h \notin Inside /\ count # -1 /\ count' # -1
    BY <1>0, <1>2 DEF TakeLock, Inside, TypeOK
  <2>. QED
    BY <2>1, <2>2 DEF Gate!Enter
<1>3. ASSUME NEW h \in Handlers, RetryLock(h) PROVE UNCHANGED Gate!gateVars
  BY <1>3 DEF RetryLock, Inside
<1>4. ASSUME NEW h \in Handlers, Unlock(h) PROVE Gate!Leave(h)
  <2>1. Inside' = Inside \ {h} /\ h \in Inside
    BY <1>0, <1>4, UnlockShrinks
  <2>2. count = Cardinality(Inside) /\ count # 0
    BY <1>0, <2>1, InsideFinite DEF CountIsExact
  <2>3. count # -1 /\ count' # -1
    BY <1>4, <2>2, InsideFinite DEF Unlock
  <2>. QED
    BY <2>1, <2>3 DEF Gate!Leave
<1>5. ASSUME NEW s \in Stoppers, CallStop(s) \/ FindClosed(s)
      PROVE  UNCHANGED Gate!gateVars
  BY <1>5 DEF CallStop, FindClosed, Inside
<1>6. ASSUME NEW s \in Stoppers, CloseScope(s) PROVE Gate!Close
  <2>1. Inside = {} /\ Inside' = Inside
    BY <1>0, <1>6, InsideFinite DEF CloseScope, CountIsExact, Inside
  <2>. QED
    BY <1>6, <2>1 DEF CloseScope, Gate!Close
<1>7. CASE UNCHANGED vars
  BY <1>7 DEF vars, Inside
<1>. QED
  BY <1>1, <1>2, <1>3, <1>4, <1>5, <1>6, <1>7 DEF Next, HandlerStep, StopperStep

\* The counter implements the gate (ImplementsGate): every step of the
\* protocol is an Enter, a Leave, a Close or a stutter of ScopeGate.
THEOREM Refinement == Spec => ImplementsGate
<1>. QED
  BY InitRefines, NextRefines, Invariant, PTL DEF Spec, ImplementsGate, Gate!Spec

=============================================================================
