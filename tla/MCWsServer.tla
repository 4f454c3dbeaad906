----------------------------- MODULE MCWsServer ------------------------------
(* Instances of WsServer for TLC. *)
EXTENDS WsServer

CONSTANT c1

MCOne == {c1}

=============================================================================
