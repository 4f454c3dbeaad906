----------------------------- MODULE MCWsFrames ------------------------------
(* Instances of WsFrames for TLC. *)
EXTENDS WsFrames

F(kind, fin, ext, length) ==
  [kind |-> kind, fin |-> fin, masked |-> FALSE, ext |-> ext, length |-> length]

\* Every kind of frame, each width of the length, an empty one, a masked one, and one that claims so
\* much that the sum with a fragment before it wraps to nothing.
MCFrames ==
  {F("data", TRUE, 0, 1), F("data", FALSE, 2, 2), F("data", FALSE, 0, 0), F("data", TRUE, 8, 1),
   F("data", TRUE, 8, Word - 2),
   F("ping", TRUE, 0, 1), F("pong", TRUE, 0, 0), F("close", TRUE, 0, 2),
   [F("data", TRUE, 0, 1) EXCEPT !.masked = TRUE]}

\* All sequences of up to three of them.
MCStreams == UNION {[1..n -> MCFrames] : n \in 0..3}

=============================================================================
