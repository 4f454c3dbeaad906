------------------------- MODULE MCServerLifecycle ---------------------------
(* Instances of ServerLifecycle for TLC. *)
EXTENDS ServerLifecycle

CONSTANTS t1, t2, p1, p2

MCUsers == {t1, t2}
MCPool == {p1, p2}

=============================================================================
