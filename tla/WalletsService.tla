--------------------------- MODULE WalletsService ---------------------------
(***************************************************************************)
(* The handlers of WalletsService that change documents.  Each action is a *)
(* request served to the end, its MongoDB transaction in one step.  The    *)
(* requests that are refused (no such wallet, insufficient balance, same   *)
(* wallet, currency mismatch, key already used) change nothing and are not *)
(* steps.                                                                  *)
(*                                                                         *)
(* The callback awaits its Redis SET before the commit; here the SET is    *)
(* part of the step.  Nothing in these modules reads an entry, so what is  *)
(* said of one is said of states between transactions.  What happens to it *)
(* between SET and commit, and the requests that read it (getWallet), are  *)
(* steps of MongoSessions.                                                 *)
(***************************************************************************)
EXTENDS Store

-----------------------------------------------------------------------------

CreateWallet(w) ==
  /\ w \in Wallets \ created
  /\ OutboxRoom
  /\ created' = created \cup {w}
  /\ Enqueue("wallet.created", None, w, 0)
  /\ UNCHANGED <<balance, transfer, ledger, cache>>

Deposit(w, a) ==
  /\ w \in created
  /\ OutboxRoom
  /\ LET after == balance[w] + a IN
       /\ SetBalance(w, after)
       /\ RecordCredit(w, "DEPOSIT", a, after, None)
       /\ SetCachedBalance(w, after)
  /\ Enqueue("wallet.deposited", None, w, a)
  /\ UNCHANGED <<created, transfer>>

\* Mutant: the balance is checked nowhere.
WithdrawUnguarded(w, a) ==
  /\ w \in created
  /\ OutboxRoom
  /\ LET after == balance[w] - a IN
       /\ SetBalance(w, after)
       /\ RecordDebit(w, "WITHDRAWAL", a, after, None)
       /\ SetCachedBalance(w, after)
  /\ Enqueue("wallet.withdrawn", None, w, a)
  /\ UNCHANGED <<created, transfer>>

\* Mutant: the ledger entry is a credit.
WithdrawCredited(w, a) ==
  /\ w \in created
  /\ balance[w] >= a
  /\ OutboxRoom
  /\ LET after == balance[w] - a IN
       /\ SetBalance(w, after)
       /\ RecordCredit(w, "WITHDRAWAL", a, after, None)
       /\ SetCachedBalance(w, after)
  /\ Enqueue("wallet.withdrawn", None, w, a)
  /\ UNCHANGED <<created, transfer>>

Withdraw(w, a) ==
  /\ w \in created
  /\ balance[w] >= a
  /\ OutboxRoom
  /\ LET after == balance[w] - a IN
       /\ SetBalance(w, after)
       /\ RecordDebit(w, "WITHDRAWAL", a, after, None)
       /\ SetCachedBalance(w, after)
  /\ Enqueue("wallet.withdrawn", None, w, a)
  /\ UNCHANGED <<created, transfer>>

\* Mutant: no unique index.
KeyNeverChecked(k) == k \in Keys \cup {NoKey}

\* The unique sparse index on idempotencyKey.
KeyUnused(k) ==
  \A t \in TransferIds : transfer[t] # None /\ k # NoKey => transfer[t].key # k

\* Mutant: the currencies are not compared.
AllowedAcrossCurrencies(from, to, a, k) ==
  /\ from # to
  /\ {from, to} \subseteq created
  /\ balance[from] >= a
  /\ KeyUnused(k)

\* What a transfer request has to meet to reach the end of its transaction.
TransferAllowed(from, to, a, k) ==
  /\ from # to
  /\ from \in created
  /\ to \in created
  /\ balance[from] >= a
  /\ Currency[from] = Currency[to]
  /\ KeyUnused(k)

\* Mutant: the event names the sender as the wallet to credit.
TransferNamingSender(t, from, to, a, k) ==
  /\ transfer[t] = None
  /\ TransferAllowed(from, to, a, k)
  /\ OutboxRoom
  /\ LET after == balance[from] - a IN
       /\ SetBalance(from, after)
       /\ RecordDebit(from, "TRANSFER_OUT", a, after, t)
       /\ SetCachedBalance(from, after)
  /\ transfer' = [transfer EXCEPT ![t] =
       [from |-> from, to |-> to, amount |-> a, status |-> "PENDING", key |-> k]]
  /\ Enqueue("transfer.initiated", t, from, a)
  /\ UNCHANGED created

Transfer(t, from, to, a, k) ==
  /\ transfer[t] = None
  /\ TransferAllowed(from, to, a, k)
  /\ OutboxRoom
  /\ LET after == balance[from] - a IN
       /\ SetBalance(from, after)
       /\ RecordDebit(from, "TRANSFER_OUT", a, after, t)
       /\ SetCachedBalance(from, after)
  /\ transfer' = [transfer EXCEPT ![t] =
       [from |-> from, to |-> to, amount |-> a, status |-> "PENDING", key |-> k]]
  /\ Enqueue("transfer.initiated", t, to, a)
  /\ UNCHANGED created

\* The Redis SET is made before the commit: a transaction that is aborted
\* after it (a write conflict found late, a lost primary, a crash of the
\* process) leaves the balance that never was in the cache.
DepositAborts(w, a) ==
  /\ w \in CachedWallets \cap created
  /\ SetCachedBalance(w, balance[w] + a)
  /\ UNCHANGED <<created, balance, transfer, ledger, outbox>>

DebitAborts(w, a) ==
  /\ w \in CachedWallets \cap created
  /\ balance[w] >= a
  /\ SetCachedBalance(w, balance[w] - a)
  /\ UNCHANGED <<created, balance, transfer, ledger, outbox>>

\* Redis drops the entry ttlSeconds after it was set.
CacheExpires(w) ==
  /\ w \in CachedWallets
  /\ cache[w] # Miss
  /\ cache' = [cache EXCEPT ![w] = Miss]
  /\ UNCHANGED <<created, balance, transfer, ledger, outbox>>

=============================================================================
