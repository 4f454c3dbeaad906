----------------------------- MODULE MCWsClient ------------------------------
(* Instances of WsClient for TLC. *)
EXTENDS WsClient

CONSTANT c1

MCOne == {c1}

\* All the phases of WSS on the user's io_service; WS on the client's own, with the
\* timeout of requests alone.
MCConfigs ==
  {[tls |-> TRUE, proxy |-> TRUE, internal |-> FALSE, request |-> TRUE, idle |-> TRUE],
   [tls |-> FALSE, proxy |-> FALSE, internal |-> TRUE, request |-> TRUE, idle |-> FALSE]}

=============================================================================
