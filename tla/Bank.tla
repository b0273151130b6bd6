-------------------------------- MODULE Bank --------------------------------
(***************************************************************************)
(* What the wallet platform promises its clients, with no queue, cache,    *)
(* ledger or process in sight.  A transfer takes the money from its sender *)
(* at once and is settled exactly once: it reaches the receiver or returns *)
(* to the sender, whole.  An idempotency key buys at most one transfer.    *)
(***************************************************************************)
EXTENDS Integers

CONSTANTS Wallets, Opened, OpeningBalance, Currency, TransferIds, Keys, NoKey,
          Amounts, None

VARIABLES created, balance, transfer

vars == <<created, balance, transfer>>

Init ==
  /\ created = Opened
  /\ balance = [w \in Wallets |-> IF w \in Opened THEN OpeningBalance ELSE 0]
  /\ transfer = [t \in TransferIds |-> None]

Open(w) ==
  /\ created' = created \cup {w}
  /\ UNCHANGED <<balance, transfer>>

Deposit(w, a) ==
  /\ w \in created
  /\ balance' = [balance EXCEPT ![w] = @ + a]
  /\ UNCHANGED <<created, transfer>>

Withdraw(w, a) ==
  /\ w \in created
  /\ balance[w] >= a
  /\ balance' = [balance EXCEPT ![w] = @ - a]
  /\ UNCHANGED <<created, transfer>>

\* Both wallets exist, are two, and hold the same currency.
Initiate(t, from, to, a, k) ==
  /\ transfer[t] = None
  /\ from # to
  /\ {from, to} \subseteq created
  /\ Currency[from] = Currency[to]
  /\ balance[from] >= a
  /\ k # NoKey => \A u \in TransferIds : transfer[u] # None => transfer[u].key # k
  /\ balance' = [balance EXCEPT ![from] = @ - a]
  /\ transfer' = [transfer EXCEPT ![t] =
       [from |-> from, to |-> to, amount |-> a, status |-> "PENDING", key |-> k]]
  /\ UNCHANGED created

\* The money of pending transfer t goes to wallet w, and t ends in status s.
Move(t, w, s) ==
  /\ balance' = [balance EXCEPT ![w] = @ + transfer[t].amount]
  /\ transfer' = [transfer EXCEPT ![t].status = s]
  /\ UNCHANGED created

InFlight(t) == transfer[t] # None /\ transfer[t].status = "PENDING"

Settle(t) == InFlight(t) /\ Move(t, transfer[t].to, "COMPLETED")
Return(t) == InFlight(t) /\ Move(t, transfer[t].from, "FAILED")
Resolve(t) == Settle(t) \/ Return(t)

Next ==
  \/ \E w \in Wallets : Open(w)
  \/ \E w \in Wallets, a \in Amounts : Deposit(w, a) \/ Withdraw(w, a)
  \/ \E t \in TransferIds, from, to \in Wallets, a \in Amounts, k \in Keys \cup {NoKey} :
       Initiate(t, from, to, a, k)
  \/ \E t \in TransferIds : Resolve(t)

Spec == Init /\ [][Next]_vars

\* No transfer stays in flight for ever.
FairSpec == Spec /\ \A t \in TransferIds : WF_vars(Resolve(t))

=============================================================================
