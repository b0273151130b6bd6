-------------------------------- MODULE MCApi -------------------------------
(***************************************************************************)
(* Values of the constants of Reports and ApiClients for TLC.              *)
(***************************************************************************)
EXTENDS Reports, TLC

CONSTANTS w1, w2, t1, t2, k1, k2, c1, c2, c3, c4, v1

OneCurrency == [w \in Wallets |-> "GHS"]

Wants(op, from, to, k) == [op |-> op, from |-> from, to |-> to, amount |-> 1, key |-> k]

\* Two transfers from one wallet with a key each, a withdrawal and a deposit.
Everyone ==
  [c \in Clients |->
     CASE c = c1 -> Wants("transfer", w1, w2, k1)
       [] c = c2 -> Wants("transfer", w1, w2, k2)
       [] c = c3 -> Wants("withdraw", w1, w1, NoKey)
       [] c = c4 -> Wants("deposit", w1, w1, NoKey)]

OneDeposit == [c \in Clients |-> Wants("deposit", w1, w1, NoKey)]

TransfersTwice == [c \in Clients |-> IF c \in {c1, c2} THEN 2 ELSE 1]
Twice == [c \in Clients |-> 2]

Symmetry == Permutations(TransferIds)

=============================================================================
