---------------------------- MODULE MCSendQueue ----------------------------
(* Instances of SendQueue for TLC. *)
EXTENDS SendQueue

CONSTANTS m1, m2, m3

MCMessages == {m1, m2, m3}
MCTwoAnswered == {m1, m2}

=============================================================================
