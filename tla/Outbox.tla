------------------------------- MODULE Outbox --------------------------------
(***************************************************************************)
(* What send() promises its caller (bhttp/server_http.hpp:155-166,         *)
(* server_ws.hpp:200-230, client_ws.hpp:188-236): messages leave in the    *)
(* order they were accepted, each callback is called at most once, with    *)
(* success only for a message that is on the wire and with an error only   *)
(* on a connection that has failed, and no callback once the owner is      *)
(* gone.  Which buffer is written when, and by whom, is the business of    *)
(* SendQueue.tla.                                                          *)
(***************************************************************************)
EXTENDS Naturals, Sequences

CONSTANT Messages

VARIABLES accepted,   \* messages in the order send() took them
          onWire,     \* messages in the order they left
          outcome,    \* what the callback of a message has been told
          failed,     \* whether the connection is lost
          gone        \* whether the owner's handlers have been cancelled

outboxVars == <<accepted, onWire, outcome, failed, gone>>

Init ==
  /\ accepted = <<>>
  /\ onWire = <<>>
  /\ outcome = [m \in Messages |-> "none"]
  /\ failed = FALSE
  /\ gone = FALSE

Accept(m) ==
  /\ \A i \in 1..Len(accepted) : accepted[i] # m
  /\ accepted' = Append(accepted, m)
  /\ UNCHANGED <<onWire, outcome, failed, gone>>

Deliver ==
  /\ ~failed
  /\ Len(onWire) < Len(accepted)
  /\ onWire' = Append(onWire, accepted[Len(onWire) + 1])
  /\ UNCHANGED <<accepted, outcome, failed, gone>>

Fail ==
  /\ ~failed
  /\ failed' = TRUE
  /\ UNCHANGED <<accepted, onWire, outcome, gone>>

ReportSent(m) ==
  /\ ~gone
  /\ outcome[m] = "none"
  /\ \E i \in 1..Len(onWire) : onWire[i] = m
  /\ outcome' = [outcome EXCEPT ![m] = "sent"]
  /\ UNCHANGED <<accepted, onWire, failed, gone>>

ReportFailed(m) ==
  /\ ~gone
  /\ failed
  /\ outcome[m] = "none"
  /\ \E i \in 1..Len(accepted) : accepted[i] = m
  /\ \A i \in 1..Len(onWire) : onWire[i] # m
  /\ outcome' = [outcome EXCEPT ![m] = "failed"]
  /\ UNCHANGED <<accepted, onWire, failed, gone>>

Leave ==
  /\ ~gone
  /\ gone' = TRUE
  /\ UNCHANGED <<accepted, onWire, outcome, failed>>

Next ==
  \/ \E m \in Messages : Accept(m) \/ ReportSent(m) \/ ReportFailed(m)
  \/ Deliver
  \/ Fail
  \/ Leave

Spec == Init /\ [][Next]_outboxVars

=============================================================================
