----------------------------- MODULE MCPlatform -----------------------------
(***************************************************************************)
(* Values of the constants for TLC.                                        *)
(***************************************************************************)
EXTENDS Books, Claims, TLC

CONSTANTS w1, w2, w3, t1, t2, k1, h1, h2, i1, i2

OneCurrency == [w \in Wallets |-> "GHS"]
TwoCurrencies == [w \in Wallets |-> IF w = w3 THEN "USD" ELSE "GHS"]

NoForeign == <<>>
BadIdForeign == <<"badId">>
EveryForeign == <<"notJson", "badId", "unknownId">>

Symmetry == Permutations(TransferIds) \cup Permutations(Handlers) \cup Permutations(Instances)

=============================================================================
