----------------------------- MODULE MCSidelines -----------------------------
(***************************************************************************)
(* Values of the constants of Sidelines for TLC.                           *)
(***************************************************************************)
EXTENDS Sidelines

CONSTANTS w1, w2, p1, p2, c1, c2, d1, d2, d3, d4, d5, d6, d7

\* d2, d3 and d6 were made in the same millisecond; d5 by a clock that is behind.
Clock ==
  [d \in Documents |->
     CASE d = d5 -> 0 [] d = d1 -> 1 [] d \in {d2, d3, d6} -> 2 [] d = d4 -> 3 [] d = d7 -> 4]

=============================================================================
