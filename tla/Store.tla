------------------------------- MODULE Store --------------------------------
(***************************************************************************)
(* The documents the wallet platform keeps: MongoDB's wallets, transfers,  *)
(* transactions with their ledger entries, and outbox events, and the      *)
(* balance cache in Redis.  A MongoDB transaction is one step here: two    *)
(* transactions that write the same document conflict and one of them is   *)
(* retried from its start, so the committed ones are serial.               *)
(***************************************************************************)
EXTENDS Integers, Sequences, FiniteSets, Functions

CONSTANTS
  Wallets,         \* every wallet a run may know
  Opened,          \* those that exist, funded, when the run starts
  OpeningBalance,  \* what each of those holds
  Currency,        \* [Wallets -> currency]
  TransferIds,     \* the ids transfers get
  Keys,            \* idempotency keys clients send
  NoKey,           \* a request without one
  Amounts,         \* amounts of money clients ask for
  CachedWallets,   \* the wallets whose Redis entry a run observes
  MaxEvents,       \* bound: outbox events ever enqueued
  Instances,       \* processes of the platform that share the store
  None,            \* no such document, an absent field, an idle process
  Miss             \* no entry in Redis

ASSUME StoreAssumption ==
  /\ Opened \subseteq Wallets
  /\ OpeningBalance \in Nat \ {0}
  /\ Amounts \subseteq Nat \ {0}
  /\ MaxEvents \in Nat
  /\ CachedWallets \subseteq Wallets
  /\ IsFiniteSet(Instances)
  /\ NoKey \notin Keys
  /\ None \notin TransferIds
  /\ Miss \notin Nat

VARIABLES
  created,    \* wallets: the ids that have a document
  balance,    \* wallets: the balance field
  transfer,   \* transfers: the document of each id, or None
  ledger,     \* transactions and ledger_entries: postings of each wallet
  outbox,     \* outbox_events: in createdAt order
  cache       \* Redis: wallet:balance:<id>

storeVars == <<created, balance, transfer, ledger, outbox, cache>>

-----------------------------------------------------------------------------

TransferStatus == {"PENDING", "COMPLETED", "FAILED"}

TransferDoc ==
  [from : Wallets, to : Wallets, amount : Amounts,
   status : TransferStatus, key : Keys \cup {NoKey}]

\* A missing document is not a document.
ASSUME NoneAssumption == None \notin TransferDoc

Exists(t) == transfer[t] # None
InStatus(t, s) == transfer[t] # None /\ transfer[t].status = s
Pending(t) == InStatus(t, "PENDING")

TransactionType == {"DEPOSIT", "WITHDRAWAL", "TRANSFER_IN", "TRANSFER_OUT"}
LedgerEntryDirection == {"DEBIT", "CREDIT"}

\* A transaction document and the ledger entry that points at it: they are
\* only ever written together.
Posting ==
  [type : TransactionType, direction : LedgerEntryDirection,
   amount : Nat, balanceAfter : Nat, transfer : TransferIds \cup {None}]

RecordDebit(w, type, amount, after, t) ==
  ledger' = [ledger EXCEPT ![w] = Append(@,
    [type |-> type, direction |-> "DEBIT", amount |-> amount,
     balanceAfter |-> after, transfer |-> t])]

RecordCredit(w, type, amount, after, t) ==
  ledger' = [ledger EXCEPT ![w] = Append(@,
    [type |-> type, direction |-> "CREDIT", amount |-> amount,
     balanceAfter |-> after, transfer |-> t])]

SetBalance(w, b) == balance' = [balance EXCEPT ![w] = b]

\* Redis SET: the entry of a wallet the run does not observe is not kept.
SetCachedBalance(w, b) ==
  cache' = [v \in CachedWallets |-> IF v = w THEN b ELSE cache[v]]

OutboxStatus == {"PENDING", "PUBLISHED"}
RoutingKey ==
  {"wallet.created", "wallet.deposited", "wallet.withdrawn", "transfer.initiated"}

\* Of the payload: the transfer it names, the wallet (toWalletId for a
\* transfer) and the amount.
OutboxEvent ==
  [routingKey : RoutingKey, transfer : TransferIds \cup {None},
   wallet : Wallets, amount : Nat, status : OutboxStatus]

OutboxRoom == Len(outbox) < MaxEvents

Enqueue(routingKey, t, w, amount) ==
  outbox' = Append(outbox,
    [routingKey |-> routingKey, transfer |-> t, wallet |-> w,
     amount |-> amount, status |-> "PENDING"])

-----------------------------------------------------------------------------
(* What is summed up of a wallet's postings.                                *)

Signed(p) == IF p.direction = "CREDIT" THEN p.amount ELSE -p.amount

\* aggregateNetByWallet: credits minus debits.
Net(w) == SumFunction([n \in DOMAIN ledger[w] |-> Signed(ledger[w][n])])

\* The dashboard's aggregation: the sum of a wallet's transactions of some types.
SumOf(w, types) ==
  SumFunction([n \in {m \in DOMAIN ledger[w] : ledger[w][m].type \in types}
                 |-> ledger[w][n].amount])

TotalDeposited(w) == SumOf(w, {"DEPOSIT", "TRANSFER_IN"})
TotalWithdrawn(w) == SumOf(w, {"WITHDRAWAL", "TRANSFER_OUT"})

-----------------------------------------------------------------------------

Opening ==
  [type |-> "DEPOSIT", direction |-> "CREDIT", amount |-> OpeningBalance,
   balanceAfter |-> OpeningBalance, transfer |-> None]

\* A store in use: some wallets exist, funded by one deposit.  Their events
\* were published long ago: nothing reads them again, and outbox leaves them out.
StoreInit ==
  /\ created = Opened
  /\ balance = [w \in Wallets |-> IF w \in Opened THEN OpeningBalance ELSE 0]
  /\ transfer = [t \in TransferIds |-> None]
  /\ ledger = [w \in Wallets |-> IF w \in Opened THEN <<Opening>> ELSE <<>>]
  /\ outbox = <<>>
  /\ cache = [w \in CachedWallets |-> Miss]

\* What holds of the documents' types.  The balances are natural numbers: no
\* debit, however it interleaves with others, takes a wallet below zero.
StoreTypeOK ==
  /\ created \subseteq Wallets
  /\ balance \in [Wallets -> Nat]
  /\ transfer \in [TransferIds -> TransferDoc \cup {None}]
  /\ ledger \in [Wallets -> Seq(Posting)]
  /\ outbox \in Seq(OutboxEvent)
  /\ Len(outbox) <= MaxEvents
  /\ cache \in [CachedWallets -> Nat \cup {Miss}]

=============================================================================
