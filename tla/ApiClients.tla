----------------------------- MODULE ApiClients -----------------------------
(***************************************************************************)
(* Clients of the API that retry.  A client has one thing to do; it sends  *)
(* its request, and when no answer comes it gives that attempt up and      *)
(* sends the same request again, with the same idempotencyKey or           *)
(* reference.  Attempts that were given up may still be served, in any     *)
(* order and by any process; answers get lost.  The requests are served by *)
(* the handlers of WalletsService.                                         *)
(***************************************************************************)
EXTENDS WalletsService, FiniteSets

CONSTANTS
  Clients,
  Intent,     \* [Clients -> what each wants]
  MaxTries    \* [Clients -> bound: attempts of each]

ASSUME ClientsAssumption ==
  /\ Intent \in [Clients -> [op : {"deposit", "withdraw", "transfer"}, from : Wallets,
                             to : Wallets, amount : Amounts, key : Keys \cup {NoKey}]]
  /\ MaxTries \in [Clients -> Nat]

Done == "done"          \* 201 of a deposit or a withdrawal
Refused == "refused"    \* 400 Insufficient balance

ASSUME AnswersAssumption == {Done, Refused} \cap TransferIds = {}

\* A client draws a key for what it wants, and sends it with nothing else.
ASSUME KeysAssumption ==
  \A c, d \in Clients :
    /\ Intent[c].op = "transfer" /\ Intent[c].key # NoKey
    /\ Intent[d].op = "transfer" /\ Intent[d].key = Intent[c].key
    => Intent[d] = Intent[c]

VARIABLES
  tries,     \* [Clients -> attempts sent]
  arriving,  \* [Clients -> the attempts no server has finished]
  got,       \* [Clients -> the answer, a transfer's id for a transfer, or None]
  effects    \* [Clients -> attempts that moved money]: history

clientVars == <<tries, arriving, got, effects>>
allVars == <<storeVars, clientVars>>

ClientsInit ==
  /\ StoreInit
  /\ tries = [c \in Clients |-> 0]
  /\ arriving = [c \in Clients |-> {}]
  /\ got = [c \in Clients |-> None]
  /\ effects = [c \in Clients |-> 0]

-----------------------------------------------------------------------------

\* The first attempt, or the next: the answer of the last one is not awaited
\* any more.
Send(c) ==
  /\ got[c] = None
  /\ tries[c] < MaxTries[c]
  /\ tries' = [tries EXCEPT ![c] = @ + 1]
  /\ arriving' = [arriving EXCEPT ![c] = @ \cup {tries[c] + 1}]
  /\ UNCHANGED <<storeVars, got, effects>>

\* Attempt n ends with an answer, which reaches its client or not.
Answer(c, n, answer) ==
  /\ arriving' = [arriving EXCEPT ![c] = @ \ {n}]
  /\ \/ n = tries[c] /\ got[c] = None /\ got' = [got EXCEPT ![c] = answer]
     \/ UNCHANGED got
  /\ UNCHANGED tries

Executed(c, n, answer) ==
  /\ Answer(c, n, answer)
  /\ effects' = [effects EXCEPT ![c] = @ + 1]

\* No document changes.
Replied(c, n, answer) ==
  /\ Answer(c, n, answer)
  /\ UNCHANGED <<storeVars, effects>>

Moves(c, n) ==
  LET i == Intent[c] IN
    \/ i.op = "deposit" /\ Deposit(i.to, i.amount) /\ Executed(c, n, Done)
    \/ i.op = "withdraw" /\ Withdraw(i.from, i.amount) /\ Executed(c, n, Done)
    \/ /\ i.op = "transfer"
       /\ \E t \in TransferIds :
            Transfer(t, i.from, i.to, i.amount, i.key) /\ Executed(c, n, t)

\* The filter { balance: { $gte: amount } } is the first to fail.
Insufficient(c, n) ==
  /\ Intent[c].op # "deposit"
  /\ balance[Intent[c].from] < Intent[c].amount
  /\ Replied(c, n, Refused)

\* Mutant: the sender's last transfer is found, whatever its key.
Latest(i, t) == transfer[t] # None /\ transfer[t].from = i.from

\* transferModel.findOne({ idempotencyKey })
Existing(i, t) == transfer[t] # None /\ transfer[t].key = i.key

\* The unique index refuses the insert; the transfer that has the key is the
\* answer.
ReturnsExisting(c, n) ==
  LET i == Intent[c] IN
    /\ i.op = "transfer" /\ balance[i.from] >= i.amount /\ ~KeyUnused(i.key)
    /\ \E t \in TransferIds : Existing(i, t) /\ Replied(c, n, t)

Serve(c, n) == Moves(c, n) \/ Insufficient(c, n) \/ ReturnsExisting(c, n)

ClientsNext ==
  \E c \in Clients : Send(c) \/ \E n \in arriving[c] : Serve(c, n)

ClientsSpec == ClientsInit /\ [][ClientsNext]_allVars

-----------------------------------------------------------------------------

\* The debits of client c: postings of transfers with its key.
Debits(c) ==
  {d \in UNION {{w} \X DOMAIN ledger[w] : w \in Wallets} :
     LET p == ledger[d[1]][d[2]] IN
       p.type = "TRANSFER_OUT" /\ transfer[p.transfer].key = Intent[c].key}

\* However often a transfer with a key of its own is sent, served and answered,
\* it is paid once; and a client that was given a transfer has paid it, with
\* the terms it asked for.
PaidOnce ==
  \A c \in Clients :
    Intent[c].op = "transfer" /\ Intent[c].key # NoKey =>
      /\ Cardinality(Debits(c)) <= 1
      /\ got[c] \in TransferIds =>
           /\ Cardinality(Debits(c)) = 1
           /\ LET d == transfer[got[c]] IN
                <<d.from, d.to, d.amount, d.key>>
                  = <<Intent[c].from, Intent[c].to, Intent[c].amount, Intent[c].key>>

\* "Client supplied idempotency key" (deposit.dto.ts, of the reference): a
\* deposit that is retried with its reference is made once.
DepositedOnce ==
  \A c \in Clients : Intent[c].op = "deposit" => effects[c] <= 1

\* "returns the existing transfer when retried with the same idempotency key"
\* (wallets.service.spec.ts): a retry is not refused when a transfer has its key.
\* The debit is tried before the insert meets the index.
RetryFindsTransfer ==
  [][\A c \in Clients :
       Intent[c].op = "transfer" /\ got[c] = None /\ got'[c] = Refused
         => KeyUnused(Intent[c].key)]_allVars

=============================================================================
