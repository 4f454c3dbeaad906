------------------------------ MODULE ScopeGate ------------------------------
(***************************************************************************)
(* What SimpleWeb::ScopeRunner promises (bhttp/utility.hpp:429-464), as a  *)
(* gate: handlers come and go while it is open, and it is closed once, at  *)
(* a moment when nobody is inside.  It says nothing of how the gate counts *)
(* its visitors; ScopeRunner.tla does, and is shown to implement this.     *)
(***************************************************************************)
CONSTANT Handlers    \* the asio handlers that may ask to pass

VARIABLES holders,   \* the handlers that hold a shared lock
          closed     \* whether the owner's destructor went past stop()

gateVars == <<holders, closed>>

Init ==
  /\ holders = {}
  /\ closed = FALSE

Enter(h) ==
  /\ ~closed
  /\ h \notin holders
  /\ holders' = holders \cup {h}
  /\ UNCHANGED closed

Leave(h) ==
  /\ h \in holders
  /\ holders' = holders \ {h}
  /\ UNCHANGED closed

Close ==
  /\ ~closed
  /\ holders = {}
  /\ closed' = TRUE
  /\ UNCHANGED holders

Next ==
  \/ \E h \in Handlers : Enter(h) \/ Leave(h)
  \/ Close

Spec == Init /\ [][Next]_gateVars

=============================================================================
