-------------------------------- MODULE Books -------------------------------
(***************************************************************************)
(* What the platform reports about its money when nothing is being written *)
(* meanwhile: the reconciliation of a wallet against its ledger and the    *)
(* totals of its dashboard.                                                *)
(***************************************************************************)
EXTENDS Platform

\* Conservation speaks of all wallets and transfers there are.
ASSUME BooksAssumption == IsFiniteSet(Wallets) /\ IsFiniteSet(TransferIds)

\* reconcile: the wallet's balance is what its ledger adds up to.
Consistent(w) == balance[w] = Net(w)

\* Every wallet reconciles, and its dashboard's totals, which come from the
\* transactions and not from the ledger, give the same balance.
BooksBalance ==
  \A w \in Wallets :
    /\ Consistent(w)
    /\ balance[w] = TotalDeposited(w) - TotalWithdrawn(w)

WalletsIn(c) == {w \in Wallets : Currency[w] = c}
PendingIn(c) == {t \in TransferIds : Pending(t) /\ Currency[transfer[t].from] = c}

InWallets(c) == SumFunctionOnSet(balance, WalletsIn(c))
InFlight(c) == SumFunction([t \in PendingIn(c) |-> transfer[t].amount])
FromOutside(c) ==
  SumFunction([w \in WalletsIn(c) |-> SumOf(w, {"DEPOSIT"}) - SumOf(w, {"WITHDRAWAL"})])

\* In each currency, the money in wallets and in flight is what came in from
\* outside less what went out: transfers, credits and refunds neither make nor
\* lose money, nor turn one currency into another.
MoneyConserved ==
  \A c \in {Currency[w] : w \in Wallets} : InWallets(c) + InFlight(c) = FromOutside(c)

=============================================================================
