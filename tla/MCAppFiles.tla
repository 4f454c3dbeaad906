----------------------------- MODULE MCAppFiles ------------------------------
(* Instances of AppFiles for TLC. *)
EXTENDS AppFiles, TLC

CONSTANTS u1, u2, d1, f, g

MCNames == {f, g}
MCUploads == {u1, u2}
MCDownloads == {d1}

\* Nothing tells two uploads, or two names, apart, and no property here is temporal.
Symmetry == Permutations(MCUploads) \cup Permutations(MCNames)

\* One chunk is the last, of three there is one of each kind.
MCTotals == {1, 3}

\* A lone chunk that is neither the first nor the last, and one with a flag of no meaning.
MCStray == {"middle", "other"}

\* Ranges that begin and end before, at and after the end of files of 0, 1 and 3 chunks,
\* and one of all the numbers there are.
Closed(b, e) == [kind |-> "closed", begin |-> b, end |-> e]
MCRanges ==
  [kind : {"none", "malformed", "noDash"}]
    \cup {Closed(0, 0), Closed(2, 5), Closed(5, 5), Closed(0, Word - 1)}
    \cup [kind : {"open"}, begin : {0, 3}]

=============================================================================
