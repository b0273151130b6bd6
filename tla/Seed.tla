-------------------------------- MODULE Seed --------------------------------
(***************************************************************************)
(* scripts/seed/seed.ts, which writes a demo database with two incidents   *)
(* in it (a failed transfer whose debit was kept, a transfer credited      *)
(* twice), and what the platform's sweep makes of it afterwards.  The      *)
(* script is sequential; a step here is one pass of one of its loops.  It  *)
(* remembers balances in its wallet documents and takes balanceAfter from  *)
(* there; $inc changes the stored ones.  When it fails it is run again,    *)
(* from deleteMany, so a failure within a pass is a Rerun too.             *)
(* A transaction document goes with each entry and is not kept apart.      *)
(***************************************************************************)
EXTENDS Integers, Sequences, SequencesExt, FiniteSets, Functions

CONSTANTS
  DemoWallets,
  OpeningDeposits,  \* 2000 .. 8000 in the script
  Amounts,          \* of movements and of transfers
  Movements,        \* bound: deposits and withdrawals of a wallet, at most 24
  CompletedTransfers, StuckTransfers   \* 5 and 3

ASSUME SeedAssumption ==
  /\ IsFiniteSet(DemoWallets)
  /\ OpeningDeposits \cup Amounts \subseteq Nat \ {0}
  /\ {Movements, CompletedTransfers, StuckTransfers} \subseteq Nat

VARIABLES
  todo,       \* the passes the script has still to make
  balance,    \* [DemoWallets -> what is stored]
  remembered, \* [DemoWallets -> wallet.balance in the script]
  entries,    \* [DemoWallets -> sequence of [amount, after]], debits negative
  transfers,  \* sequence of the transfers stored
  paid        \* history: what the movements brought in

seedVars == <<todo, balance, remembered, entries, transfers, paid>>

Times(n, pass) == [i \in 1 .. n |-> pass]

Script ==
  Times(Cardinality(DemoWallets), "wallet") \o Times(CompletedTransfers, "completed")
    \o Times(StuckTransfers, "stuck") \o <<"failed", "duplicate", "outbox">>

Zero == [w \in DemoWallets |-> 0]

SeedInit ==
  /\ todo = Script /\ balance = Zero /\ remembered = Zero
  /\ entries = [w \in DemoWallets |-> <<>>] /\ transfers = <<>> /\ paid = 0

Turn(pass) == todo # <<>> /\ Head(todo) = pass /\ todo' = Tail(todo)

-----------------------------------------------------------------------------

Total(amounts) == SumFunction(amounts)

\* The opening deposit and the movements, of which a withdrawal that is not
\* covered is left out; the balance is stored once, at the end.
Fill(w, amounts) ==
  /\ Turn("wallet") /\ entries[w] = <<>>
  /\ \A n \in DOMAIN amounts : Total(SubSeq(amounts, 1, n)) >= 0
  /\ entries' = [entries EXCEPT ![w] =
       [n \in DOMAIN amounts |->
          [amount |-> amounts[n], after |-> Total(SubSeq(amounts, 1, n))]]]
  /\ balance' = [balance EXCEPT ![w] = Total(amounts)]
  /\ remembered' = [remembered EXCEPT ![w] = Total(amounts)]
  /\ paid' = paid + Total(amounts)
  /\ UNCHANGED transfers

Entry(w, amount) == [amount |-> amount, after |-> remembered[w] + amount]

Stores(from, to, a, status) ==
  /\ from # to /\ UNCHANGED paid
  /\ transfers' = Append(transfers, [from |-> from, to |-> to, amount |-> a, status |-> status])

Debits(from, a) ==
  /\ entries' = [entries EXCEPT ![from] = Append(@, Entry(from, -a))]
  /\ balance' = [balance EXCEPT ![from] = @ - a]

\* Mutant: the receiver's document in memory keeps its old balance.
CompletedForgotten(from, to, a) ==
  /\ Turn("completed") /\ Stores(from, to, a, "COMPLETED")
  /\ entries' = [entries EXCEPT ![from] = Append(@, Entry(from, -a)),
                                ![to] = Append(@, Entry(to, a))]
  /\ balance' = [balance EXCEPT ![from] = @ - a, ![to] = @ + a]
  /\ remembered' = [remembered EXCEPT ![from] = @ - a]

Completed(from, to, a) ==
  /\ Turn("completed") /\ Stores(from, to, a, "COMPLETED")
  /\ entries' = [entries EXCEPT ![from] = Append(@, Entry(from, -a)),
                                ![to] = Append(@, Entry(to, a))]
  /\ balance' = [balance EXCEPT ![from] = @ - a, ![to] = @ + a]
  /\ remembered' = [remembered EXCEPT ![from] = @ - a, ![to] = @ + a]

Stuck(from, to, a) ==
  /\ Turn("stuck") /\ Stores(from, to, a, "PENDING") /\ Debits(from, a)
  /\ remembered' = [remembered EXCEPT ![from] = @ - a]

\* The script forgets this debit.
Failed(from, to, a) ==
  /\ Turn("failed") /\ Stores(from, to, a, "FAILED") /\ Debits(from, a)
  /\ UNCHANGED remembered

\* Mutant: the balance reflects one of the two credits.
DuplicateStoredOnce(from, to, a) ==
  /\ Turn("duplicate") /\ Stores(from, to, a, "COMPLETED")
  /\ entries' = [entries EXCEPT
       ![from] = Append(@, Entry(from, -a)),
       ![to] = @ \o <<Entry(to, a), [Entry(to, 2 * a) EXCEPT !.amount = a]>>]
  /\ balance' = [balance EXCEPT ![from] = @ - a, ![to] = @ + a]
  /\ UNCHANGED remembered

Duplicate(from, to, a) ==
  /\ Turn("duplicate") /\ Stores(from, to, a, "COMPLETED")
  /\ entries' = [entries EXCEPT
       ![from] = Append(@, Entry(from, -a)),
       ![to] = @ \o <<Entry(to, a), [Entry(to, 2 * a) EXCEPT !.amount = a]>>]
  /\ balance' = [balance EXCEPT ![from] = @ - a, ![to] = @ + 2 * a]
  /\ UNCHANGED remembered

\* Two wallet.created events: no wallet and no transfer changes.
Outbox ==
  /\ Turn("outbox")
  /\ UNCHANGED <<balance, remembered, entries, transfers, paid>>

\* Every collection named here is emptied first.
Rerun ==
  /\ todo # Script
  /\ todo' = Script /\ balance' = Zero /\ remembered' = Zero
  /\ entries' = [w \in DemoWallets |-> <<>>] /\ transfers' = <<>> /\ paid' = 0

Between(from, to, a) ==
  Completed(from, to, a) \/ Stuck(from, to, a) \/ Failed(from, to, a) \/ Duplicate(from, to, a)

\* Mutant: the sweep takes whatever was not completed.
SweepNotCompleted(n) ==
  /\ todo = <<>>
  /\ transfers[n].status # "COMPLETED"
  /\ transfers' = [transfers EXCEPT ![n].status = "FAILED"]
  /\ LET w == transfers[n].from
         after == balance[w] + transfers[n].amount
     IN /\ balance' = [balance EXCEPT ![w] = after]
        /\ entries' = [entries EXCEPT ![w] =
             Append(@, [amount |-> transfers[n].amount, after |-> after])]
  /\ UNCHANGED <<todo, remembered, paid>>

\* The platform is started: its sweep claims a transfer that was left pending
\* and refunds it, balanceAfter being the balance it stores.
Sweep(n) ==
  /\ todo = <<>>
  /\ transfers[n].status = "PENDING"
  /\ transfers' = [transfers EXCEPT ![n].status = "FAILED"]
  /\ LET w == transfers[n].from
         after == balance[w] + transfers[n].amount
     IN /\ balance' = [balance EXCEPT ![w] = after]
        /\ entries' = [entries EXCEPT ![w] =
             Append(@, [amount |-> transfers[n].amount, after |-> after])]
  /\ UNCHANGED <<todo, remembered, paid>>

SeedNext ==
  \/ \E w \in DemoWallets, opening \in OpeningDeposits, n \in 0 .. Movements :
       \E moves \in [1 .. n -> Amounts \cup {-a : a \in Amounts}] : Fill(w, <<opening>> \o moves)
  \/ \E from, to \in DemoWallets, a \in Amounts : Between(from, to, a)
  \/ Outbox \/ Rerun
  \/ \E n \in DOMAIN transfers : Sweep(n)

-----------------------------------------------------------------------------

Net(w) == SumFunction([n \in DOMAIN entries[w] |-> entries[w][n].amount])

\* Every wallet reconciles, after the script and after the sweeps: both incidents
\* are in the balances as they are in the ledger.
Reconciles == \A w \in DemoWallets : balance[w] = Net(w)

\* While passes are left that take balanceAfter from a wallet in memory, memory
\* has what is stored, but for the sender of the failed transfer.
MemoryAgrees ==
  \A w \in DemoWallets :
    "duplicate" \in ToSet(todo) /\ remembered[w] # balance[w]
      => \E n \in DOMAIN transfers : transfers[n].from = w /\ transfers[n].status = "FAILED"

Incident(n) == transfers[CompletedTransfers + StuckTransfers + n].amount

\* "a DEBIT or CREDIT against a specific wallet, with the resulting balanceAfter"
\* (ARCHITECTURE.md): an entry goes on from the one before.  It does not where
\* the duplicate, which knows nothing of the failed transfer's debit, draws its
\* sender again, nor where a sweep then goes on from what is stored: the gap is
\* in that one wallet, and is the failed transfer's amount.
GapsAreForgotten ==
  \A w \in DemoWallets : \A n \in 2 .. Len(entries[w]) :
    LET gap == entries[w][n].after - entries[w][n - 1].after - entries[w][n].amount
    IN gap # 0 =>
         /\ Len(transfers) > CompletedTransfers + StuckTransfers
         /\ transfers[CompletedTransfers + StuckTransfers + 1].from = w
         /\ gap \in {Incident(1), -Incident(1)}

\* The money of every pending transfer is with nobody, and a sweep returns it;
\* the failed transfer's is gone and the duplicate's is there twice, and no
\* sweep changes that.
MoneyAccounted ==
  todo = <<>> =>
    SumFunction(balance)
      + SumFunction([n \in {m \in DOMAIN transfers : transfers[m].status = "PENDING"}
                       |-> transfers[n].amount])
      = paid - Incident(1) + Incident(2)

=============================================================================
