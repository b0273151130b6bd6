----------------------------- MODULE MCSessions -----------------------------
(***************************************************************************)
(* Values of the constants of MongoSessions for TLC.                       *)
(***************************************************************************)
EXTENDS MongoSessions, TLC

CONSTANTS w1, w2, t1, t2, k1, m1, s1, s2, s3, r1

OneCurrency == [w \in Wallets |-> "GHS"]
AllAboutT1 == [m \in Messages |-> t1]

Symmetry == Permutations(Sessions)

=============================================================================
