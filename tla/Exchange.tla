------------------------------- MODULE Exchange -------------------------------
(***************************************************************************)
(* What SimpleWeb::ClientBase promises a caller of request(), whatever     *)
(* happens to connections: a request goes on the wire at most twice, the   *)
(* second time only when nothing of a reply has been told; its callback    *)
(* hears of parts of the reply, then of its end at most once, and of       *)
(* nothing after that; and a client that is gone calls nothing.  That the  *)
(* end is told at all is no part of this promise: it never is when the     *)
(* destructor turns the handler away, and without timeouts the client may  *)
(* wait for ever.                                                          *)
(***************************************************************************)
EXTENDS Naturals

CONSTANT Requests

VARIABLES told,    \* of each request: "unasked", "asked", "part" or "answered"
          sent,    \* how many times each request has been written
          alive    \* the client has not been destroyed

vars == <<told, sent, alive>>

Init ==
  /\ told = [r \in Requests |-> "unasked"]
  /\ sent = [r \in Requests |-> 0]
  /\ alive = TRUE

Ask(r) ==
  /\ alive
  /\ told[r] = "unasked"
  /\ told' = [told EXCEPT ![r] = "asked"]
  /\ UNCHANGED <<sent, alive>>

Send(r) ==
  /\ alive
  /\ told[r] = "asked"
  /\ sent[r] < 2
  /\ sent' = [sent EXCEPT ![r] = @ + 1]
  /\ UNCHANGED <<told, alive>>

\* Parts of a reply are told only when the request has been sent.
Part(r) ==
  /\ alive
  /\ sent[r] > 0
  /\ told[r] \in {"asked", "part"}
  /\ told' = [told EXCEPT ![r] = "part"]
  /\ UNCHANGED <<sent, alive>>

\* The end of the reply, or an error.
Answer(r) ==
  /\ alive
  /\ told[r] \in {"asked", "part"}
  /\ told' = [told EXCEPT ![r] = "answered"]
  /\ UNCHANGED <<sent, alive>>

Leave ==
  /\ alive
  /\ alive' = FALSE
  /\ UNCHANGED <<told, sent>>

Next == (\E r \in Requests : Ask(r) \/ Send(r) \/ Part(r) \/ Answer(r)) \/ Leave

Spec == Init /\ [][Next]_vars

=============================================================================
