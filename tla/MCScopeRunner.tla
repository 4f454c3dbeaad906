---------------------------- MODULE MCScopeRunner ----------------------------
(* Instances of ScopeRunner for TLC. *)
EXTENDS ScopeRunner

CONSTANTS h1, h2, h3, s1, s2

MCHandlers == {h1, h2, h3}
MCStoppers == {s1, s2}
MCRecurring == {h1, h2}

=============================================================================
