---------------------------- MODULE MCHttpServer -----------------------------
(* Instances of HttpServer for TLC. *)
EXTENDS HttpServer, TLC

CONSTANTS c1, c2

MCTwo == {c1, c2}

\* Both timeouts are configured, or only the one for requests.
MCBoth == {[request |-> TRUE, content |-> TRUE]}
MCRequestOrBoth == MCBoth \cup {[request |-> TRUE, content |-> FALSE]}

=============================================================================
