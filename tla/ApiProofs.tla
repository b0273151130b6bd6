------------------------------ MODULE ApiProofs ------------------------------
(***************************************************************************)
(* Clients that retry pay once, and a dashboard leaves out nothing recent, *)
(* whatever the number of clients, attempts, lost answers and reports.     *)
(*                                                                         *)
(* The argument is the invariant Idempotent.  No two transfers have one    *)
(* key (KeysUnique, what the unique index is for), every transfer has one  *)
(* debit posting and every debit posting is a transfer's (DebitedOnce,     *)
(* DebitsNamed), a transfer has the terms of a client that asked for it    *)
(* (AskedFor), and a client's answer, if it is a transfer, is one with the *)
(* terms it asked for (Answered).  A dashboard's argument is AllViewed:    *)
(* books only grow, so what it counted is among what it then lists; and    *)
(* what a report is off by is what they grew by between its queries        *)
(* (AllMeasured).                                                          *)
(***************************************************************************)
EXTENDS Reports, StoreProofs

Documented ==
  /\ balance \in [Wallets -> Nat]
  /\ transfer \in [TransferIds -> TransferDoc \cup {None}]
  /\ ledger \in [Wallets -> Seq(Posting)]
  /\ got \in [Clients -> TransferIds \cup {None, Done, Refused}]

\* Document d has the terms of client c's request.
TermsOf(d, c) ==
  /\ d.from = Intent[c].from /\ d.to = Intent[c].to
  /\ d.amount = Intent[c].amount /\ d.key = Intent[c].key

KeysUnique(docs) ==
  \A t, u \in TransferIds :
    docs[t] # None /\ docs[u] # None /\ docs[t].key = docs[u].key /\ docs[t].key # NoKey => t = u

\* Transfer t, with document d or none, has one debit in books L, at its sender.
Debited(L, d, t) ==
  /\ d = None => NoneIn(L, Wallets, t, "TRANSFER_OUT")
  /\ d # None =>
       /\ SingleLeg(L[d.from], t, "TRANSFER_OUT", d.amount)
       /\ NoneIn(L, Wallets \ {d.from}, t, "TRANSFER_OUT")

DebitedOnce(L, docs) == \A t \in TransferIds : Debited(L, docs[t], t)

DebitsNamed(L) ==
  \A w \in Wallets : \A n \in DOMAIN L[w] :
    L[w][n].type = "TRANSFER_OUT" => L[w][n].transfer \in TransferIds

AskedFor(docs) ==
  \A t \in TransferIds : docs[t] # None =>
    \E c \in Clients : Intent[c].op = "transfer" /\ TermsOf(docs[t], c)

Answered(docs, answers) ==
  \A c \in Clients : answers[c] \in TransferIds =>
    /\ Intent[c].op = "transfer"
    /\ docs[answers[c]] # None
    /\ TermsOf(docs[answers[c]], c)

Promised(L, docs, answers) ==
  /\ KeysUnique(docs) /\ DebitedOnce(L, docs) /\ DebitsNamed(L)
  /\ AskedFor(docs) /\ Answered(docs, answers)

Idempotent == Documented /\ Promised(ledger, transfer, got)

-----------------------------------------------------------------------------
(* Postings.                                                                *)

\* A posting that is no debit of transfer t leaves its debit alone.
LEMMA PostingElsewhere ==
  ASSUME NEW L \in [Wallets -> Seq(Posting)], NEW w \in Wallets, NEW p \in Posting,
         NEW d \in TransferDoc \cup {None}, NEW t,
         ~(p.transfer = t /\ p.type = "TRANSFER_OUT"), Debited(L, d, t)
  PROVE  Debited([L EXCEPT ![w] = Append(L[w], p)], d, t)
<1> DEFINE L2 == [L EXCEPT ![w] = Append(L[w], p)]
<1>1. ASSUME NEW v \in Wallets
      PROVE  /\ LegsOf(L2[v], t, "TRANSFER_OUT") = LegsOf(L[v], t, "TRANSFER_OUT")
             /\ \A a : SingleLeg(L[v], t, "TRANSFER_OUT", a)
                         => SingleLeg(L2[v], t, "TRANSFER_OUT", a)
  <2>1. CASE v # w
    BY <2>1
  <2>2. CASE v = w
    <3>1. L[w] \in Seq(Posting) /\ L2[v] = Append(L[w], p)
      BY <2>2
    <3> HIDE DEF L2
    <3> QED BY <2>2, <3>1, AppendLegs
  <2> QED BY <2>1, <2>2
<1> HIDE DEF L2
<1>2. d # None => d.from \in Wallets
  BY DEF TransferDoc
<1>3. Debited(L2, d, t)
  BY <1>1, <1>2 DEF Debited, NoneIn
<1> QED BY <1>3 DEF L2

\* The debit of a new transfer is its only one.
LEMMA FirstDebit ==
  ASSUME NEW L \in [Wallets -> Seq(Posting)], NEW p \in Posting, NEW d \in TransferDoc,
         Debited(L, None, p.transfer), p.type = "TRANSFER_OUT", p.amount = d.amount
  PROVE  Debited([L EXCEPT ![d.from] = Append(L[d.from], p)], d, p.transfer)
<1> DEFINE w == d.from
           t == p.transfer
           L2 == [L EXCEPT ![w] = Append(L[w], p)]
<1>1. w \in Wallets /\ L[w] \in Seq(Posting) /\ d # None
  BY NoneAssumption DEF TransferDoc
<1>2. L2[w] = Append(L[w], p) /\ \A v \in Wallets \ {w} : L2[v] = L[v]
  BY <1>1
<1>3. \A v \in Wallets : LegsOf(L[v], t, "TRANSFER_OUT") = {}
  BY DEF Debited, NoneIn
<1> HIDE DEF w, t, L2
<1>4. SingleLeg(L2[w], t, "TRANSFER_OUT", d.amount)
  BY <1>1, <1>2, <1>3, AppendLegs DEF t
<1>5. NoneIn(L2, Wallets \ {w}, t, "TRANSFER_OUT")
  BY <1>2, <1>3 DEF NoneIn
<1> QED BY <1>1, <1>4, <1>5 DEF Debited, w, t, L2

\* Every debit goes on naming its transfer.
LEMMA NamedPosting ==
  ASSUME NEW L \in [Wallets -> Seq(Posting)], NEW w \in Wallets, NEW p \in Posting,
         DebitsNamed(L), p.type = "TRANSFER_OUT" => p.transfer \in TransferIds
  PROVE  DebitsNamed([L EXCEPT ![w] = Append(L[w], p)])
<1> DEFINE L2 == [L EXCEPT ![w] = Append(L[w], p)]
<1>1. L[w] \in Seq(Posting)
  OBVIOUS
<1>2. /\ Append(L[w], p) \in Seq(Posting)
      /\ Len(Append(L[w], p)) = Len(L[w]) + 1
      /\ \A n \in 1 .. Len(L[w]) : Append(L[w], p)[n] = L[w][n]
      /\ Append(L[w], p)[Len(L[w]) + 1] = p
  BY <1>1, AppendProperties
<1>3. /\ Len(L[w]) \in Nat /\ DOMAIN L[w] = 1 .. Len(L[w])
      /\ DOMAIN Append(L[w], p) = 1 .. Len(L[w]) + 1
  BY <1>1, <1>2, LenProperties
<1>4. L2[w] = Append(L[w], p) /\ \A v \in Wallets \ {w} : L2[v] = L[v]
  OBVIOUS
<1> HIDE DEF L2
<1>5. SUFFICES ASSUME NEW v \in Wallets, NEW n \in DOMAIN L2[v], L2[v][n].type = "TRANSFER_OUT"
               PROVE  L2[v][n].transfer \in TransferIds
  BY DEF DebitsNamed, L2
<1>6. CASE v # w
  BY <1>4, <1>5, <1>6 DEF DebitsNamed
<1>7. CASE v = w
  <2>1. n \in 1 .. Len(L[w]) \/ n = Len(L[w]) + 1
    BY <1>3, <1>4, <1>5, <1>7
  <2>2. CASE n \in 1 .. Len(L[w])
    BY <1>2, <1>3, <1>4, <1>5, <1>7, <2>2 DEF DebitsNamed
  <2>3. CASE n = Len(L[w]) + 1
    BY <1>2, <1>4, <1>5, <1>7, <2>3
  <2> QED BY <2>1, <2>2, <2>3
<1> QED BY <1>6, <1>7

-----------------------------------------------------------------------------
(* Answers.                                                                 *)

\* The answer of an attempt is awaited or lost.
LEMMA AnswerKeeps ==
  ASSUME Documented, NEW c \in Clients, NEW n, NEW a \in TransferIds \cup {Done, Refused},
         NEW docs, Answered(docs, got), Answer(c, n, a),
         a \in TransferIds =>
           Intent[c].op = "transfer" /\ docs[a] # None /\ TermsOf(docs[a], c)
  PROVE  /\ got' \in [Clients -> TransferIds \cup {None, Done, Refused}]
         /\ Answered(docs, got')
<1>1. got \in [Clients -> TransferIds \cup {None, Done, Refused}]
  BY DEF Documented
<1>2. got' = got \/ got' = [got EXCEPT ![c] = a]
  BY DEF Answer
<1>3. got' \in [Clients -> TransferIds \cup {None, Done, Refused}]
  BY <1>1, <1>2
<1>4. \A b \in Clients : got'[b] = got[b] \/ (b = c /\ got'[b] = a)
  BY <1>1, <1>2
<1>5. Answered(docs, got')
  BY <1>4 DEF Answered
<1> QED BY <1>3, <1>5

\* An attempt that writes no posting and no transfer: a refusal, or the
\* transfer that has the key.
LEMMA ReplyKeeps ==
  ASSUME Idempotent, NEW c \in Clients, NEW n, Insufficient(c, n) \/ ReturnsExisting(c, n)
  PROVE  Idempotent'
<1>1. UNCHANGED <<balance, transfer, ledger>>
  BY DEF Insufficient, ReturnsExisting, Replied, storeVars
<1>2. /\ got' \in [Clients -> TransferIds \cup {None, Done, Refused}]
      /\ Answered(transfer, got')
  <2>1. CASE Insufficient(c, n)
    <3>1. Refused \notin TransferIds
      BY AnswersAssumption
    <3>2. Answer(c, n, Refused)
      BY <2>1 DEF Insufficient, Replied
    <3> QED BY <3>1, <3>2, AnswerKeeps DEF Idempotent, Promised
  <2>2. CASE ReturnsExisting(c, n)
    <3>1. PICK t \in TransferIds : Existing(Intent[c], t) /\ Answer(c, n, t)
      BY <2>2 DEF ReturnsExisting, Replied
    <3>2. Intent[c].op = "transfer" /\ Intent[c].key # NoKey
      BY <2>2 DEF ReturnsExisting, KeyUnused
    <3>3. transfer[t] # None /\ transfer[t].key = Intent[c].key
      BY <3>1 DEF Existing
    <3>4. PICK d \in Clients : Intent[d].op = "transfer" /\ TermsOf(transfer[t], d)
      BY <3>3 DEF Idempotent, Promised, AskedFor
    <3>5. Intent[d] = Intent[c]
      BY <3>2, <3>3, <3>4, KeysAssumption DEF TermsOf
    <3>6. TermsOf(transfer[t], c)
      BY <3>4, <3>5 DEF TermsOf
    <3> QED BY <3>1, <3>2, <3>3, <3>6, AnswerKeeps DEF Idempotent, Promised
  <2> QED BY <2>1, <2>2
<1>3. Documented'
  BY <1>1, <1>2 DEF Idempotent, Documented
<1>4. Promised(ledger', transfer', got')
  BY <1>1, <1>2 DEF Idempotent, Promised
<1> QED BY <1>3, <1>4 DEF Idempotent

\* Deposits and withdrawals.
LEMMA MovementKeeps ==
  ASSUME Idempotent, NEW c \in Clients, NEW n, NEW w \in Wallets, NEW a \in Amounts,
         Deposit(w, a) \/ Withdraw(w, a), Executed(c, n, Done)
  PROVE  Idempotent'
<1>1. /\ balance \in [Wallets -> Nat] /\ ledger \in [Wallets -> Seq(Posting)]
      /\ transfer \in [TransferIds -> TransferDoc \cup {None}]
  BY DEF Idempotent, Documented
<1>2. a \in Nat /\ balance[w] \in Nat
  BY <1>1, AmountsAreNaturals
<1>3. /\ transfer' = transfer
      /\ balance' \in [Wallets -> Nat]
      /\ \E p \in Posting :
           p.type # "TRANSFER_OUT" /\ ledger' = [ledger EXCEPT ![w] = Append(ledger[w], p)]
  <2>1. CASE Deposit(w, a)
    <3> DEFINE p == PostingOf("DEPOSIT", "CREDIT", a, balance[w] + a, None)
    <3>1. balance[w] + a \in Nat
      BY <1>2
    <3>2. p \in Posting /\ p.type = "DEPOSIT"
      BY <1>2, <3>1, PostingOfType DEF TransactionType, LedgerEntryDirection
    <3>3. ledger' = [ledger EXCEPT ![w] = Append(ledger[w], p)]
      BY <2>1 DEF Deposit, RecordCredit, PostingOf
    <3>4. transfer' = transfer /\ balance' \in [Wallets -> Nat]
      BY <1>1, <2>1, <3>1 DEF Deposit, SetBalance
    <3> HIDE DEF p
    <3> QED BY <3>2, <3>3, <3>4
  <2>2. CASE Withdraw(w, a)
    <3> DEFINE p == PostingOf("WITHDRAWAL", "DEBIT", a, balance[w] - a, None)
    <3>1. balance[w] - a \in Nat
      BY <1>2, <2>2 DEF Withdraw
    <3>2. p \in Posting /\ p.type = "WITHDRAWAL"
      BY <1>2, <3>1, PostingOfType DEF TransactionType, LedgerEntryDirection
    <3>3. ledger' = [ledger EXCEPT ![w] = Append(ledger[w], p)]
      BY <2>2 DEF Withdraw, RecordDebit, PostingOf
    <3>4. transfer' = transfer /\ balance' \in [Wallets -> Nat]
      BY <1>1, <2>2, <3>1 DEF Withdraw, SetBalance
    <3> HIDE DEF p
    <3> QED BY <3>2, <3>3, <3>4
  <2> QED BY <2>1, <2>2
<1>4. PICK p \in Posting :
        p.type # "TRANSFER_OUT" /\ ledger' = [ledger EXCEPT ![w] = Append(ledger[w], p)]
  BY <1>3
<1>5. /\ got' \in [Clients -> TransferIds \cup {None, Done, Refused}]
      /\ Answered(transfer, got')
  <2>1. Answer(c, n, Done) /\ Done \notin TransferIds
    BY AnswersAssumption DEF Executed
  <2> QED BY <2>1, AnswerKeeps DEF Idempotent, Promised
<1>6. ledger' \in [Wallets -> Seq(Posting)]
  BY <1>1, <1>4, AppendProperties
<1>7. \A t \in TransferIds : Debited(ledger', transfer[t], t)
  BY <1>1, <1>4, PostingElsewhere DEF Idempotent, Promised, DebitedOnce
<1>8. DebitsNamed(ledger')
  BY <1>1, <1>4, NamedPosting DEF Idempotent, Promised
<1>9. Documented'
  BY <1>1, <1>3, <1>5, <1>6 DEF Documented
<1>10. Promised(ledger', transfer', got')
  BY <1>3, <1>5, <1>7, <1>8 DEF Idempotent, Promised, DebitedOnce
<1> QED BY <1>9, <1>10 DEF Idempotent

\* A new transfer: its key was nobody's, its debit is posted, and its id is the
\* answer.
LEMMA TransferKeeps ==
  ASSUME Idempotent, NEW c \in Clients, NEW n, NEW t \in TransferIds, Intent[c].op = "transfer",
         Transfer(t, Intent[c].from, Intent[c].to, Intent[c].amount, Intent[c].key),
         Executed(c, n, t)
  PROVE  Idempotent'
<1> DEFINE i == Intent[c]
<1>1. /\ balance \in [Wallets -> Nat] /\ ledger \in [Wallets -> Seq(Posting)]
      /\ transfer \in [TransferIds -> TransferDoc \cup {None}]
  BY DEF Idempotent, Documented
<1>2. /\ i.from \in Wallets /\ i.to \in Wallets /\ i.amount \in Amounts /\ i.amount \in Nat
      /\ i.key \in Keys \cup {NoKey}
  BY ClientsAssumption, AmountsAreNaturals
<1>3. PICK d : d = [from |-> i.from, to |-> i.to, amount |-> i.amount,
                    status |-> "PENDING", key |-> i.key]
  OBVIOUS
<1>4. PICK p : p = PostingOf("TRANSFER_OUT", "DEBIT", i.amount, balance[i.from] - i.amount, t)
  OBVIOUS
<1>5. /\ transfer[t] = None /\ KeyUnused(i.key)
      /\ transfer' = [transfer EXCEPT ![t] = d]
      /\ ledger' = [ledger EXCEPT ![i.from] = Append(ledger[i.from], p)]
      /\ balance' = [balance EXCEPT ![i.from] = balance[i.from] - i.amount]
      /\ balance[i.from] >= i.amount
  BY <1>3, <1>4 DEF Transfer, TransferAllowed, RecordDebit, PostingOf, SetBalance
<1>6. Answer(c, n, t)
  BY DEF Executed
<1> HIDE DEF i
<1>7. /\ d \in TransferDoc /\ d # None /\ d.from = i.from /\ d.to = i.to
      /\ d.amount = i.amount /\ d.key = i.key
  BY <1>2, <1>3, NoneAssumption DEF TransferDoc, TransferStatus
<1>8. balance[i.from] - i.amount \in Nat
  BY <1>1, <1>2, <1>5
<1>9. p \in Posting /\ p.transfer = t /\ p.type = "TRANSFER_OUT" /\ p.amount = i.amount
  BY <1>2, <1>4, <1>8, PostingOfType DEF TransactionType, LedgerEntryDirection
<1>10. transfer'[t] = d /\ \A u \in TransferIds \ {t} : transfer'[u] = transfer[u]
  BY <1>1, <1>5
<1>11. TermsOf(d, c)
  BY <1>7 DEF TermsOf, i
<1>12. Answered(transfer', got)
  BY <1>5, <1>10 DEF Idempotent, Promised, Answered
<1>13. /\ got' \in [Clients -> TransferIds \cup {None, Done, Refused}]
       /\ Answered(transfer', got')
  <2>1. transfer'[t] # None /\ TermsOf(transfer'[t], c)
    BY <1>7, <1>10, <1>11
  <2>2. PICK docs : docs = transfer'
    OBVIOUS
  <2>3. Answered(docs, got')
        /\ got' \in [Clients -> TransferIds \cup {None, Done, Refused}]
    BY <1>6, <1>12, <2>1, <2>2, AnswerKeeps DEF Idempotent
  <2> QED BY <2>2, <2>3
<1>14. Documented'
  <2>1. ledger' \in [Wallets -> Seq(Posting)]
    BY <1>1, <1>2, <1>5, <1>9, AppendProperties
  <2>2. transfer' \in [TransferIds -> TransferDoc \cup {None}]
    BY <1>1, <1>5, <1>7
  <2>3. balance' \in [Wallets -> Nat]
    BY <1>1, <1>5, <1>8
  <2> QED BY <1>13, <2>1, <2>2, <2>3 DEF Documented
<1>15. KeysUnique(transfer')
  <2>1. \A u \in TransferIds : transfer[u] # None /\ i.key # NoKey => transfer[u].key # i.key
    BY <1>5 DEF KeyUnused
  <2> QED BY <1>5, <1>7, <1>10, <2>1 DEF Idempotent, Promised, KeysUnique
<1>16. DebitedOnce(ledger', transfer')
  <2>1. SUFFICES ASSUME NEW u \in TransferIds
                 PROVE  Debited(ledger', transfer'[u], u)
    BY DEF DebitedOnce
  <2>2. Debited(ledger, transfer[u], u)
    BY DEF Idempotent, Promised, DebitedOnce
  <2>3. CASE u = t
    <3>1. Debited(ledger, None, p.transfer)
      BY <1>5, <1>9, <2>2, <2>3
    <3>2. Debited([ledger EXCEPT ![d.from] = Append(ledger[d.from], p)], d, p.transfer)
      BY <1>1, <1>7, <1>9, <3>1, FirstDebit
    <3> QED BY <1>5, <1>7, <1>9, <1>10, <2>3, <3>2
  <2>4. CASE u # t
    <3>1. Debited([ledger EXCEPT ![i.from] = Append(ledger[i.from], p)], transfer[u], u)
      BY <1>1, <1>2, <1>9, <2>2, <2>4, PostingElsewhere
    <3> QED BY <1>5, <1>10, <2>4, <3>1
  <2> QED BY <2>3, <2>4
<1>17. DebitsNamed(ledger')
  <2>1. DebitsNamed(ledger)
    BY DEF Idempotent, Promised
  <2>2. DebitsNamed([ledger EXCEPT ![i.from] = Append(ledger[i.from], p)])
    BY <1>1, <1>2, <1>9, <2>1, NamedPosting
  <2> QED BY <1>5, <2>2
<1>18. AskedFor(transfer')
  BY <1>10, <1>11 DEF Idempotent, Promised, AskedFor
<1>19. Promised(ledger', transfer', got')
  BY <1>13, <1>15, <1>16, <1>17, <1>18 DEF Promised
<1> QED BY <1>14, <1>19 DEF Idempotent

-----------------------------------------------------------------------------
(* The invariant.                                                           *)

LEMMA InitIdempotent == ReportsInit => Idempotent
<1>1. SUFFICES ASSUME ClientsInit PROVE Idempotent
  BY DEF ReportsInit
<1>2. StoreTypeOK
  BY <1>1, StoreInitType DEF ClientsInit
<1>3. /\ transfer = [t \in TransferIds |-> None] /\ got = [c \in Clients |-> None]
      /\ ledger = [w \in Wallets |-> IF w \in Opened THEN <<Opening>> ELSE <<>>]
  BY <1>1 DEF ClientsInit, StoreInit
<1>4. None \notin TransferIds
  BY StoreAssumption
<1>5. Documented
  BY <1>2, <1>3 DEF Documented, StoreTypeOK
<1>6. \A w \in Wallets : \A n \in DOMAIN ledger[w] : ledger[w][n].type = "DEPOSIT"
  <2>1. SUFFICES ASSUME NEW w \in Wallets, NEW n \in DOMAIN ledger[w]
                 PROVE  ledger[w][n].type = "DEPOSIT"
    OBVIOUS
  <2>2. ledger[w] = <<Opening>> \/ ledger[w] = <<>>
    BY <1>3
  <2>3. ledger[w] = <<Opening>> /\ n = 1
    BY <2>1, <2>2
  <2> QED BY <2>3 DEF Opening
<1>7. DebitedOnce(ledger, transfer) /\ DebitsNamed(ledger)
  BY <1>3, <1>6 DEF DebitedOnce, Debited, NoneIn, LegsOf, DebitsNamed
<1>8. KeysUnique(transfer) /\ AskedFor(transfer) /\ Answered(transfer, got)
  BY <1>3, <1>4 DEF KeysUnique, AskedFor, Answered
<1> QED BY <1>5, <1>7, <1>8 DEF Idempotent, Promised

LEMMA NextIdempotent ==
  ASSUME Idempotent, [ReportsNext]_reportVars
  PROVE  Idempotent'
<1>1. CASE UNCHANGED <<storeVars, got>>
  <2>1. UNCHANGED <<balance, transfer, ledger, got>>
    BY <1>1 DEF storeVars
  <2>2. Documented' /\ Promised(ledger', transfer', got')
    BY <2>1 DEF Idempotent, Documented
  <2> QED BY <2>2 DEF Idempotent
<1>2. ASSUME NEW c \in Clients, NEW n, Serve(c, n)
      PROVE  Idempotent'
  <2>1. CASE Moves(c, n)
    <3>1. /\ Intent[c].from \in Wallets /\ Intent[c].to \in Wallets
          /\ Intent[c].amount \in Amounts
      BY ClientsAssumption
    <3>2. CASE Intent[c].op = "deposit" /\ Deposit(Intent[c].to, Intent[c].amount)
                 /\ Executed(c, n, Done)
      BY <3>1, <3>2, MovementKeeps
    <3>3. CASE Intent[c].op = "withdraw" /\ Withdraw(Intent[c].from, Intent[c].amount)
                 /\ Executed(c, n, Done)
      BY <3>1, <3>3, MovementKeeps
    <3>4. ASSUME NEW t \in TransferIds, Intent[c].op = "transfer",
                 Transfer(t, Intent[c].from, Intent[c].to, Intent[c].amount, Intent[c].key),
                 Executed(c, n, t)
          PROVE  Idempotent'
      BY <3>4, TransferKeeps
    <3> QED BY <2>1, <3>2, <3>3, <3>4 DEF Moves
  <2>2. CASE Insufficient(c, n) \/ ReturnsExisting(c, n)
    BY <2>2, ReplyKeeps
  <2> QED BY <1>2, <2>1, <2>2 DEF Serve
<1>3. ASSUME NEW c \in Clients, Send(c)
      PROVE  Idempotent'
  BY <1>1, <1>3 DEF Send
<1>4. UNCHANGED allVars => UNCHANGED <<storeVars, got>>
  BY DEF allVars, clientVars
<1>5. UNCHANGED reportVars => UNCHANGED <<storeVars, got>>
  BY <1>4 DEF reportVars
<1>6. ASSUME NEW v \in Viewers, NEW w, NEW kind,
             \/ FindWallet(v, kind, w)
             \/ Aggregate(v) \/ Totals(v) \/ Recent(v) \/ Entries(v) \/ Answers(v)
      PROVE  UNCHANGED allVars
  BY <1>6, Zenon DEF FindWallet, Aggregate, Totals, Recent, Entries, Answers, Reading
<1>7. ReportsNext => ClientsNext \/ UNCHANGED allVars
  BY <1>6, Zenon DEF ReportsNext, Requests
<1> QED BY <1>1, <1>2, <1>3, <1>4, <1>5, <1>7 DEF ClientsNext

\* In an idempotent store the debits of a key are one or none, and a client
\* that was given a transfer has paid it.
LEMMA IdempotentPays == Idempotent => PaidOnce
<1>1. SUFFICES ASSUME Idempotent, NEW c \in Clients,
                      Intent[c].op = "transfer", Intent[c].key # NoKey
               PROVE  /\ Cardinality(Debits(c)) <= 1
                      /\ got[c] \in TransferIds =>
                           /\ Cardinality(Debits(c)) = 1
                           /\ TermsOf(transfer[got[c]], c)
  BY DEF PaidOnce, TermsOf
<1>2. ASSUME NEW d \in Debits(c)
      PROVE  /\ d[1] \in Wallets /\ d[2] \in DOMAIN ledger[d[1]] /\ d = <<d[1], d[2]>>
             /\ ledger[d[1]][d[2]].type = "TRANSFER_OUT"
             /\ transfer[ledger[d[1]][d[2]].transfer].key = Intent[c].key
  <2>1. PICK w \in Wallets : d \in {w} \X DOMAIN ledger[w]
    BY DEF Debits
  <2> QED BY <2>1 DEF Debits
<1>3. ASSUME NEW t \in TransferIds, transfer[t] # None, transfer[t].key = Intent[c].key
      PROVE  Cardinality(Debits(c)) = 1
  <2>1. Debited(ledger, transfer[t], t) /\ transfer[t].from \in Wallets
    BY <1>1, <1>3 DEF Idempotent, Documented, Promised, DebitedOnce, TransferDoc
  <2>2. PICK w \in Wallets : w = transfer[t].from
    BY <2>1
  <2>3. PICK n \in DOMAIN ledger[w] : LegsOf(ledger[w], t, "TRANSFER_OUT") = {n}
    BY <1>3, <2>1, <2>2 DEF Debited, SingleLeg
  <2>4. <<w, n>> \in Debits(c)
    <3>1. ledger[w][n].transfer = t /\ ledger[w][n].type = "TRANSFER_OUT"
      BY <2>3 DEF LegsOf
    <3>2. <<w, n>> \in {w} \X DOMAIN ledger[w]
      OBVIOUS
    <3>3. <<w, n>> \in UNION {{v} \X DOMAIN ledger[v] : v \in Wallets}
      BY <3>2
    <3> QED BY <1>3, <3>1, <3>3 DEF Debits
  <2>5. ASSUME NEW d \in Debits(c)
        PROVE  d = <<w, n>>
    <3>1. PICK v, m :
            /\ v \in Wallets /\ m \in DOMAIN ledger[v] /\ d = <<v, m>>
            /\ ledger[v][m].type = "TRANSFER_OUT"
            /\ transfer[ledger[v][m].transfer].key = Intent[c].key
      BY <1>2
    <3>2. PICK u \in TransferIds : u = ledger[v][m].transfer
      BY <1>1, <3>1 DEF Idempotent, Promised, DebitsNamed
    <3>3. m \in LegsOf(ledger[v], u, "TRANSFER_OUT")
      BY <3>1, <3>2 DEF LegsOf
    <3>4. Debited(ledger, transfer[u], u)
      BY <1>1 DEF Idempotent, Promised, DebitedOnce
    <3>5. transfer[u] # None
      BY <3>1, <3>3, <3>4 DEF Debited, NoneIn
    <3>6. u = t
      BY <1>1, <1>3, <3>1, <3>2, <3>5 DEF Idempotent, Promised, KeysUnique
    <3>7. v = w
      BY <1>3, <2>2, <3>1, <3>3, <3>4, <3>6 DEF Debited, NoneIn
    <3> QED BY <2>3, <3>1, <3>3, <3>6, <3>7
  <2>6. Debits(c) = {<<w, n>>}
    BY <2>4, <2>5
  <2> QED BY <2>6, FS_Singleton
<1>4. CASE \E t \in TransferIds : transfer[t] # None /\ transfer[t].key = Intent[c].key
  <2>1. Cardinality(Debits(c)) = 1
    BY <1>3, <1>4
  <2>2. got[c] \in TransferIds => TermsOf(transfer[got[c]], c)
    BY <1>1 DEF Idempotent, Promised, Answered
  <2> QED BY <2>1, <2>2
<1>5. CASE ~\E t \in TransferIds : transfer[t] # None /\ transfer[t].key = Intent[c].key
  <2>1. Debits(c) = {}
    <3>1. SUFFICES ASSUME NEW d \in Debits(c) PROVE FALSE
      OBVIOUS
    <3>2. PICK v, m :
            /\ v \in Wallets /\ m \in DOMAIN ledger[v]
            /\ ledger[v][m].type = "TRANSFER_OUT"
            /\ transfer[ledger[v][m].transfer].key = Intent[c].key
      BY <1>2
    <3>3. PICK u \in TransferIds : u = ledger[v][m].transfer
      BY <1>1, <3>2 DEF Idempotent, Promised, DebitsNamed
    <3>4. transfer[u] = None
      BY <1>5, <3>2, <3>3
    <3>5. m \in LegsOf(ledger[v], u, "TRANSFER_OUT")
      BY <3>2, <3>3 DEF LegsOf
    <3>6. Debited(ledger, transfer[u], u)
      BY <1>1 DEF Idempotent, Promised, DebitedOnce
    <3> QED BY <3>2, <3>4, <3>5, <3>6 DEF Debited, NoneIn
  <2>2. Cardinality(Debits(c)) = 0
    BY <2>1, FS_EmptySet
  <2>3. got[c] \notin TransferIds
    <3>1. SUFFICES ASSUME got[c] \in TransferIds PROVE FALSE
      OBVIOUS
    <3>2. transfer[got[c]] # None /\ transfer[got[c]].key = Intent[c].key
      BY <1>1, <3>1 DEF Idempotent, Promised, Answered, TermsOf
    <3> QED BY <1>5, <3>1, <3>2
  <2> QED BY <2>2, <2>3
<1> QED BY <1>4, <1>5

\* However often a transfer with a key is sent, served and answered, it is paid
\* once, and a client that was given a transfer has paid that, on its terms.
THEOREM KeysPayOnce == ReportsSpec => []PaidOnce
<1> QED BY InitIdempotent, NextIdempotent, IdempotentPays, PTL DEF ReportsSpec

-----------------------------------------------------------------------------
(* The dashboard.                                                           *)

\* The positions of the last RecentLimit of k postings.
LastOf(k) == {n \in 1 .. k : n > k - RecentLimit}

\* What a report is, whatever sums it has.
IsReport(r) ==
  r \in [kind : {"none", "reconcile", "dashboard"}, wallet : Wallets \cup {None},
         balance : {r.balance}, at : {r.at}, net : {r.net},
         deposited : {r.deposited}, withdrawn : {r.withdrawn}, count : Nat,
         recent : SUBSET Nat, entries : SUBSET Nat,
         stage : {"wallet", "totals", "recent", "entries", "answer"}]

\* What a dashboard has read, in books L, is what was there at one time.
Viewed(r, L) ==
  /\ IsReport(r)
  /\ r.kind # "none" => r.wallet \in Wallets
  /\ r.kind = "dashboard" =>
       /\ r.stage \in {"recent", "entries", "answer"} => r.count <= Len(L[r.wallet])
       /\ r.stage \in {"entries", "answer"} =>
            \E k \in Nat :
              r.count <= k /\ k <= Len(L[r.wallet]) /\ r.recent = LastOf(k)
       /\ r.stage = "answer" => r.entries = r.recent

AllViewed == report = [v \in Viewers |-> report[v]] /\ \A v \in Viewers : Viewed(report[v], ledger)

\* Books only grow.
LEMMA ViewedLater ==
  ASSUME NEW r, NEW L \in [Wallets -> Seq(Posting)], NEW M \in [Wallets -> Seq(Posting)],
         \A w \in Wallets : Len(L[w]) <= Len(M[w]), Viewed(r, L)
  PROVE  Viewed(r, M)
<1>1. \A w \in Wallets : Len(L[w]) \in Nat /\ Len(M[w]) \in Nat
  BY LenProperties
<1>2. CASE r.kind # "dashboard"
  BY <1>2 DEF Viewed
<1>3. CASE r.kind = "dashboard"
  <2>1. r.wallet \in Wallets /\ r.count \in Nat
    BY <1>3 DEF Viewed, IsReport
  <2>2. Len(L[r.wallet]) <= Len(M[r.wallet])
        /\ Len(L[r.wallet]) \in Nat /\ Len(M[r.wallet]) \in Nat
    BY <1>1, <2>1
  <2>3. r.stage \in {"recent", "entries", "answer"} => r.count <= Len(M[r.wallet])
    BY <1>3, <2>1, <2>2 DEF Viewed
  <2>4. r.stage \in {"entries", "answer"} =>
          \E k \in Nat : r.count <= k /\ k <= Len(M[r.wallet]) /\ r.recent = LastOf(k)
    <3>1. SUFFICES ASSUME r.stage \in {"entries", "answer"}
                   PROVE  \E k \in Nat :
                            r.count <= k /\ k <= Len(M[r.wallet]) /\ r.recent = LastOf(k)
      OBVIOUS
    <3>2. PICK k \in Nat : r.count <= k /\ k <= Len(L[r.wallet]) /\ r.recent = LastOf(k)
      BY <1>3, <3>1 DEF Viewed
    <3>3. k <= Len(M[r.wallet])
      BY <2>2, <3>2
    <3> QED BY <3>2, <3>3
  <2> QED BY <1>3, <2>1, <2>3, <2>4 DEF Viewed
<1> QED BY <1>2, <1>3

\* A posting more, at most, for each step of a client.
LEMMA BooksGrow ==
  ASSUME Idempotent, NEW c \in Clients, NEW n, Serve(c, n)
  PROVE  \A w \in Wallets : Len(ledger[w]) <= Len(ledger'[w])
<1>1. ledger \in [Wallets -> Seq(Posting)] /\ \A w \in Wallets : Len(ledger[w]) \in Nat
  BY LenProperties DEF Idempotent, Documented
<1>2. \A w \in Wallets : \A p : Len(Append(ledger[w], p)) = Len(ledger[w]) + 1
  BY <1>1, Z3
<1>3. ASSUME NEW v, NEW p, ledger' = [ledger EXCEPT ![v] = Append(ledger[v], p)]
      PROVE  \A w \in Wallets : Len(ledger[w]) <= Len(ledger'[w])
  BY <1>1, <1>2, <1>3
<1>4. CASE Moves(c, n)
  BY <1>3, <1>4 DEF Moves, Deposit, Withdraw, Transfer, RecordCredit, RecordDebit
<1>5. CASE Insufficient(c, n) \/ ReturnsExisting(c, n)
  <2>1. ledger' = ledger
    BY <1>5 DEF Insufficient, ReturnsExisting, Replied, storeVars
  <2> QED BY <1>1, <2>1
<1> QED BY <1>4, <1>5 DEF Serve

\* A report goes on.
LEMMA ReportKeeps ==
  ASSUME AllViewed, ledger' = ledger, NEW v \in Viewers, NEW r, Viewed(r, ledger),
         report' = [report EXCEPT ![v] = r]
  PROVE  AllViewed'
<1>1. report' = [u \in Viewers |-> IF u = v THEN r ELSE report[u]]
  BY DEF AllViewed
<1>2. report' = [u \in Viewers |-> report'[u]]
  BY <1>1
<1>3. \A u \in Viewers : Viewed(report'[u], ledger')
  BY <1>1 DEF AllViewed
<1> QED BY <1>2, <1>3 DEF AllViewed

\* What a report was before a step.
LEMMA ViewedNow ==
  ASSUME Idempotent, AllViewed, NEW v \in Viewers
  PROVE  /\ IsReport(report[v]) /\ Viewed(report[v], ledger)
         /\ report = [u \in Viewers |-> report[u]]
         /\ report[v].kind # "none" =>
              /\ report[v].wallet \in Wallets
              /\ Len(ledger[report[v].wallet]) \in Nat
<1> QED BY LenProperties DEF AllViewed, Viewed, Idempotent, Documented

LEMMA FindWalletKeeps ==
  ASSUME AllViewed, NEW v \in Viewers, NEW w \in Wallets,
         NEW kind \in {"reconcile", "dashboard"}, FindWallet(v, kind, w)
  PROVE  AllViewed'
<1>1. PICK b, k : b = balance[w] /\ k = Len(ledger[w])
  OBVIOUS
<1> DEFINE r == [NoReport EXCEPT !.kind = kind, !.wallet = w, !.balance = b,
                                 !.at = k, !.stage = "totals"]
<1>2. ledger' = ledger /\ report' = [report EXCEPT ![v] = r]
  BY <1>1, Zenon DEF FindWallet, Reading, allVars, storeVars
<1>3. PICK q : q = NoReport
  OBVIOUS
<1>4. IsReport(q)
  BY <1>3 DEF NoReport, IsReport
<1>5. r = [q EXCEPT !.kind = kind, !.wallet = w, !.balance = b,
                    !.at = k, !.stage = "totals"]
  BY <1>3
<1> HIDE DEF r
<1>6. r.kind = kind /\ r.wallet = w /\ r.stage = "totals"
  BY <1>4, <1>5 DEF IsReport
<1>7. IsReport(r)
  BY <1>4, <1>5 DEF IsReport
<1>8. Viewed(r, ledger)
  BY <1>6, <1>7 DEF Viewed
<1> QED BY <1>2, <1>8, ReportKeeps

LEMMA AggregateKeeps ==
  ASSUME Idempotent, AllViewed, NEW v \in Viewers, Aggregate(v)
  PROVE  AllViewed'
<1>1. PICK q : q = report[v]
  OBVIOUS
<1>2. PICK x, k : x = Net(q.wallet) /\ k = Len(ledger[q.wallet])
  OBVIOUS
<1>3. ledger' = ledger
  BY DEF Aggregate, Reading, allVars, storeVars
<1>4. /\ IsReport(q) /\ q.kind = "reconcile" /\ q.wallet \in Wallets /\ k \in Nat
      /\ report = [u \in Viewers |-> report[u]]
  BY <1>1, <1>2, ViewedNow DEF Aggregate, Reading
<1>5. report' = [report EXCEPT ![v].net = x, ![v].stage = "answer", ![v].count = k]
  BY <1>1, <1>2 DEF Aggregate
<1> DEFINE r == [q EXCEPT !.net = x, !.stage = "answer", !.count = k]
<1>6. report' = [report EXCEPT ![v] = r]
  BY <1>1, <1>4, <1>5
<1>7. r.kind = "reconcile" /\ r.wallet \in Wallets
  BY <1>4 DEF IsReport
<1>8. IsReport(r)
  BY <1>4 DEF IsReport
<1> HIDE DEF r
<1>9. Viewed(r, ledger)
  BY <1>7, <1>8 DEF Viewed
<1> QED BY <1>3, <1>6, <1>9, ReportKeeps

LEMMA TotalsKeeps ==
  ASSUME Idempotent, AllViewed, NEW v \in Viewers, Totals(v)
  PROVE  AllViewed'
<1>1. PICK q : q = report[v]
  OBVIOUS
<1>2. PICK x, y, k :
        x = TotalDeposited(q.wallet) /\ y = TotalWithdrawn(q.wallet) /\ k = Len(ledger[q.wallet])
  OBVIOUS
<1>3. ledger' = ledger
  BY DEF Totals, Reading, allVars, storeVars
<1>4. /\ IsReport(q) /\ q.kind = "dashboard" /\ q.wallet \in Wallets /\ k \in Nat
      /\ report = [u \in Viewers |-> report[u]]
  BY <1>1, <1>2, ViewedNow DEF Totals, Reading
<1>5. report' = [report EXCEPT ![v].deposited = x, ![v].withdrawn = y,
                               ![v].count = k, ![v].stage = "recent"]
  BY <1>1, <1>2 DEF Totals
<1> DEFINE r == [q EXCEPT !.deposited = x, !.withdrawn = y, !.count = k, !.stage = "recent"]
<1>6. report' = [report EXCEPT ![v] = r]
  BY <1>1, <1>4, <1>5
<1>7. /\ r.kind = "dashboard" /\ r.wallet \in Wallets /\ r.stage = "recent"
      /\ r.count <= Len(ledger[r.wallet])
  BY <1>2, <1>4 DEF IsReport
<1>8. IsReport(r)
  BY <1>4 DEF IsReport
<1> HIDE DEF r
<1>9. Viewed(r, ledger)
  BY <1>7, <1>8 DEF Viewed
<1> QED BY <1>3, <1>6, <1>9, ReportKeeps

LEMMA RecentKeeps ==
  ASSUME Idempotent, AllViewed, NEW v \in Viewers, Recent(v)
  PROVE  AllViewed'
<1>1. PICK q : q = report[v]
  OBVIOUS
<1>2. PICK ids, k : ids = RecentIds(q.wallet) /\ k = Len(ledger[q.wallet])
  OBVIOUS
<1>3. ledger' = ledger
  BY DEF Recent, Reading, allVars, storeVars
<1>4. /\ IsReport(q) /\ q.kind = "dashboard" /\ q.wallet \in Wallets /\ k \in Nat
      /\ q.stage = "recent" /\ Viewed(q, ledger)
      /\ report = [u \in Viewers |-> report[u]]
  BY <1>1, <1>2, ViewedNow DEF Recent, Reading
<1>5. q.count <= k
  BY <1>2, <1>4 DEF Viewed
<1>6. ids = LastOf(k) /\ ids \in SUBSET Nat
  <2>1. DOMAIN ledger[q.wallet] = 1 .. k
    BY <1>2, <1>4, LenProperties DEF Idempotent, Documented
  <2> QED BY <1>2, <2>1 DEF RecentIds, LastOf
<1>7. report' = [report EXCEPT ![v].recent = ids, ![v].stage = "entries"]
  BY <1>1, <1>2 DEF Recent
<1> DEFINE r == [q EXCEPT !.recent = ids, !.stage = "entries"]
<1>8. report' = [report EXCEPT ![v] = r]
  BY <1>1, <1>4, <1>7
<1>9. /\ r.kind = "dashboard" /\ r.wallet = q.wallet /\ r.stage = "entries"
      /\ r.count = q.count /\ r.recent = ids
  BY <1>4 DEF IsReport
<1>10. IsReport(r)
  BY <1>4, <1>6 DEF IsReport
<1> HIDE DEF r
<1>11. k <= Len(ledger[r.wallet]) /\ r.count <= Len(ledger[r.wallet])
  BY <1>2, <1>4, <1>5, <1>9
<1>12. Viewed(r, ledger)
  BY <1>4, <1>5, <1>6, <1>9, <1>10, <1>11 DEF Viewed
<1> QED BY <1>3, <1>8, <1>12, ReportKeeps

LEMMA EntriesKeeps ==
  ASSUME Idempotent, AllViewed, NEW v \in Viewers, Entries(v)
  PROVE  AllViewed'
<1>1. PICK q : q = report[v]
  OBVIOUS
<1>2. PICK ids : ids = q.recent \cap DOMAIN ledger[q.wallet]
  OBVIOUS
<1>3. ledger' = ledger
  BY DEF Entries, Reading, allVars, storeVars
<1>4. /\ IsReport(q) /\ q.kind = "dashboard" /\ q.wallet \in Wallets
      /\ q.stage = "entries" /\ Viewed(q, ledger)
      /\ report = [u \in Viewers |-> report[u]]
  BY <1>1, ViewedNow DEF Entries, Reading
<1>5. PICK k \in Nat : q.count <= k /\ k <= Len(ledger[q.wallet]) /\ q.recent = LastOf(k)
  BY <1>4 DEF Viewed
<1>6. ids = q.recent /\ ids \in SUBSET Nat
  <2>1. DOMAIN ledger[q.wallet] = 1 .. Len(ledger[q.wallet]) /\ Len(ledger[q.wallet]) \in Nat
    BY <1>4, LenProperties DEF Idempotent, Documented
  <2>2. q.recent \subseteq DOMAIN ledger[q.wallet]
    BY <1>5, <2>1 DEF LastOf
  <2> QED BY <1>2, <1>4, <2>2 DEF IsReport
<1>7. report' = [report EXCEPT ![v].entries = ids, ![v].stage = "answer"]
  BY <1>1, <1>2 DEF Entries
<1> DEFINE r == [q EXCEPT !.entries = ids, !.stage = "answer"]
<1>8. report' = [report EXCEPT ![v] = r]
  BY <1>1, <1>4, <1>7
<1>9. /\ r.kind = "dashboard" /\ r.wallet = q.wallet /\ r.stage = "answer"
      /\ r.count = q.count /\ r.recent = q.recent /\ r.entries = ids
  BY <1>4 DEF IsReport
<1>10. IsReport(r)
  BY <1>4, <1>6 DEF IsReport
<1> HIDE DEF r
<1>11. r.count <= Len(ledger[r.wallet])
  BY <1>4, <1>9 DEF Viewed
<1>12. Viewed(r, ledger)
  BY <1>4, <1>5, <1>6, <1>9, <1>10, <1>11 DEF Viewed
<1> QED BY <1>3, <1>8, <1>12, ReportKeeps

LEMMA AnswersKeeps ==
  ASSUME AllViewed, NEW v \in Viewers, Answers(v)
  PROVE  AllViewed'
<1>1. ledger' = ledger /\ report' = [report EXCEPT ![v] = NoReport]
  BY DEF Answers, allVars, storeVars
<1>2. Viewed(NoReport, ledger)
  BY DEF Viewed, IsReport, NoReport
<1> QED BY <1>1, <1>2, ReportKeeps

LEMMA NextViewed ==
  ASSUME Idempotent, AllViewed, [ReportsNext]_reportVars
  PROVE  AllViewed'
<1>1. ledger \in [Wallets -> Seq(Posting)] /\ ledger' \in [Wallets -> Seq(Posting)]
  BY NextIdempotent DEF Idempotent, Documented
<1>2. ASSUME UNCHANGED report, \A w \in Wallets : Len(ledger[w]) <= Len(ledger'[w])
      PROVE  AllViewed'
  <2>1. \A v \in Viewers : Viewed(report[v], ledger')
    BY <1>1, <1>2, ViewedLater DEF AllViewed
  <2> QED BY <1>2, <2>1 DEF AllViewed
<1>3. ledger' = ledger => \A w \in Wallets : Len(ledger[w]) <= Len(ledger'[w])
  BY <1>1, LenProperties
<1>4. CASE Requests
  <2>1. UNCHANGED report
    BY <1>4 DEF Requests
  <2>2. ASSUME NEW c \in Clients, Send(c)
        PROVE  ledger' = ledger
    BY <2>2 DEF Send, storeVars
  <2>3. ASSUME NEW c \in Clients, NEW n, Serve(c, n)
        PROVE  AllViewed'
    BY <1>2, <2>1, <2>3, BooksGrow
  <2> QED BY <1>2, <1>3, <1>4, <2>1, <2>2, <2>3 DEF Requests, ClientsNext
<1>5. CASE UNCHANGED reportVars
  BY <1>2, <1>3, <1>5 DEF reportVars, allVars, storeVars
<1>6. ASSUME NEW v \in Viewers,
             \/ \E w \in Wallets, kind \in {"reconcile", "dashboard"} : FindWallet(v, kind, w)
             \/ Aggregate(v) \/ Totals(v) \/ Recent(v) \/ Entries(v) \/ Answers(v)
      PROVE  AllViewed'
  BY <1>6, FindWalletKeeps, AggregateKeeps, TotalsKeeps, RecentKeeps, EntriesKeeps, AnswersKeeps
<1> QED BY <1>4, <1>5, <1>6, Zenon DEF ReportsNext

\* Of k postings the last ones are RecentLimit, or all if they are fewer.
LEMMA LastOnes ==
  ASSUME NEW k \in Nat
  PROVE  /\ Cardinality(LastOf(k)) = IF k >= RecentLimit THEN RecentLimit ELSE k
         /\ k > 0 => Max(LastOf(k)) = k
<1>1. RecentLimit \in Nat \ {0}
  BY ReportsAssumption
<1>2. LastOf(k) = IF k >= RecentLimit THEN k - RecentLimit + 1 .. k ELSE 1 .. k
  BY <1>1 DEF LastOf
<1>3. Cardinality(LastOf(k)) = IF k >= RecentLimit THEN RecentLimit ELSE k
  <2>1. CASE k >= RecentLimit
    BY <1>1, <1>2, <2>1, FS_Interval
  <2>2. CASE k < RecentLimit
    BY <1>1, <1>2, <2>2, FS_Interval
  <2> QED BY <1>1, <2>1, <2>2
<1>4. ASSUME k > 0
      PROVE  Max(LastOf(k)) = k
  <2>1. k \in LastOf(k) /\ \A n \in LastOf(k) : n \in Int /\ n <= k
    BY <1>1, <1>4 DEF LastOf
  <2> QED BY <2>1 DEF Max
<1> QED BY <1>3, <1>4

LEMMA ViewedIsComplete == Idempotent /\ AllViewed => ActivityComplete
<1>1. SUFFICES ASSUME Idempotent, AllViewed, NEW v \in Viewers, Finished(v, "dashboard")
               PROVE  LET r == report[v] IN
                        /\ r.entries = r.recent
                        /\ Cardinality(r.recent) >= Min({r.count, RecentLimit})
                        /\ \A n \in 1 .. r.count : n > Max(r.recent) - RecentLimit => n \in r.recent
  BY DEF ActivityComplete
<1>2. PICK r : r = report[v]
  OBVIOUS
<1>3. /\ Viewed(r, ledger) /\ r.kind = "dashboard" /\ r.stage = "answer" /\ r.count \in Nat
  BY <1>1, <1>2 DEF AllViewed, Finished, Viewed, IsReport
<1>4. PICK k \in Nat : r.count <= k /\ r.recent = LastOf(k)
  BY <1>3 DEF Viewed
<1>5. r.entries = r.recent
  BY <1>3 DEF Viewed
<1>6. RecentLimit \in Nat
  BY ReportsAssumption
<1>7. Min({r.count, RecentLimit}) = IF r.count <= RecentLimit THEN r.count ELSE RecentLimit
  <2>1. \A m \in {r.count, RecentLimit} :
          m <= r.count /\ m <= RecentLimit
            => m = IF r.count <= RecentLimit THEN r.count ELSE RecentLimit
    BY <1>3, <1>6
  <2> QED BY <1>3, <1>6, <2>1 DEF Min
<1>8. Cardinality(r.recent) >= Min({r.count, RecentLimit})
  BY <1>3, <1>4, <1>6, <1>7, LastOnes
<1>9. \A n \in 1 .. r.count : n > Max(r.recent) - RecentLimit => n \in r.recent
  <2>1. SUFFICES ASSUME NEW n \in 1 .. r.count, n > Max(r.recent) - RecentLimit
                 PROVE  n \in r.recent
    OBVIOUS
  <2>2. k > 0 /\ n \in 1 .. k
    BY <1>3, <1>4
  <2>3. Max(r.recent) = k
    BY <1>4, <2>2, LastOnes
  <2> QED BY <1>4, <2>1, <2>2, <2>3 DEF LastOf
<1> QED BY <1>2, <1>5, <1>8, <1>9

\* A dashboard shows each recent transaction with its ledger entry, and leaves
\* out none of the last it has counted, whatever is committed while it reads.
THEOREM DashboardComplete == ReportsSpec => []ActivityComplete
<1>1. ReportsInit => AllViewed
  <2>1. Viewed(NoReport, ledger)
    BY DEF Viewed, IsReport, NoReport
  <2> QED BY <2>1 DEF ReportsInit, AllViewed
<1> QED BY <1>1, InitIdempotent, NextIdempotent, NextViewed, ViewedIsComplete, PTL
        DEF ReportsSpec

-----------------------------------------------------------------------------
(* What a report adds up.                                                   *)

\* What the first k of the postings s add up to.
NetTo(s, k) == SumFunctionOnSet([n \in DOMAIN s |-> Signed(s[n])], 1 .. k)

\* All of them.
LEMMA NetToLast ==
  ASSUME NEW s \in Seq(Posting)
  PROVE  NetTo(s, Len(s)) = NetOf(s)
<1>1. DOMAIN s = 1 .. Len(s)
  BY LenProperties
<1> QED BY <1>1 DEF NetTo, NetOf, SumFunction

\* A further posting changes nothing before it.
LEMMA NetToStays ==
  ASSUME NEW s \in Seq(Posting), NEW p, NEW k \in 0 .. Len(s)
  PROVE  NetTo(Append(s, p), k) = NetTo(s, k)
<1>1. PICK s2 : s2 = Append(s, p)
  OBVIOUS
<1>2. Len(s) \in Nat /\ DOMAIN s = 1 .. Len(s)
  BY LenProperties
<1>3. DOMAIN s2 = 1 .. Len(s) + 1 /\ \A n \in 1 .. Len(s) : s2[n] = s[n]
  BY <1>1, <1>2
<1>4. PICK f, g : f = [n \in DOMAIN s |-> Signed(s[n])] /\ g = [n \in DOMAIN s2 |-> Signed(s2[n])]
  OBVIOUS
<1>5. \A n \in 1 .. k : g[n] = f[n]
  BY <1>2, <1>3, <1>4
<1>6. IsFiniteSet(1 .. k)
  BY <1>2, FS_Interval
<1>7. SumFunctionOnSet(g, 1 .. k) = SumFunctionOnSet(f, 1 .. k)
  BY <1>5, <1>6, SumSame
<1> QED BY <1>1, <1>4, <1>7 DEF NetTo

\* What lies between two positions is the difference.
LEMMA NetBetween ==
  ASSUME NEW s \in Seq(Posting), NEW i \in Nat, NEW j \in Nat, i <= j, j <= Len(s)
  PROVE  SumFunction([n \in i + 1 .. j |-> Signed(s[n])]) = NetTo(s, j) - NetTo(s, i)
<1>1. PICK S, T : S = 1 .. i /\ T = i + 1 .. j
  OBVIOUS
<1>2. DOMAIN s = 1 .. Len(s) /\ Len(s) \in Nat
  BY LenProperties
<1>3. S \union T = 1 .. j /\ S \cap T = {} /\ S \subseteq DOMAIN s /\ T \subseteq DOMAIN s
  BY <1>1, <1>2
<1>4. IsFiniteSet(S) /\ IsFiniteSet(T)
  BY <1>3, PostingTerms, FS_Subset
<1>5. PICK f, g : f = [n \in DOMAIN s |-> Signed(s[n])] /\ g = [n \in T |-> Signed(s[n])]
  OBVIOUS
<1>6. \A n \in DOMAIN s : f[n] \in Int
  BY <1>5, PostingTerms
<1>7. SumFunctionOnSet(f, S \union T) = SumFunctionOnSet(f, S) + SumFunctionOnSet(f, T)
  BY <1>3, <1>4, <1>6, SumUnion
<1>8. SumFunctionOnSet(f, S) \in Int /\ SumFunctionOnSet(f, T) \in Int
  BY <1>3, <1>4, <1>6, SumInt
<1>9. SumFunctionOnSet(g, T) = SumFunctionOnSet(f, T)
  BY <1>3, <1>4, <1>5, SumSame
<1>10. SumFunction(g) = SumFunctionOnSet(g, T)
  BY <1>5 DEF SumFunction
<1>11. NetTo(s, j) = SumFunctionOnSet(f, S \union T) /\ NetTo(s, i) = SumFunctionOnSet(f, S)
  BY <1>1, <1>3, <1>5 DEF NetTo
<1>12. SumFunction(g) = NetTo(s, j) - NetTo(s, i)
  BY <1>7, <1>8, <1>9, <1>10, <1>11
<1> QED BY <1>1, <1>5, <1>12

\* Every wallet's balance is what its postings add up to, and the dashboard's
\* totals come to the same.
AllBalance == \A w \in Wallets : Balances(balance[w], ledger[w])

\* What a request does to the books.
LEMMA ServeMovesMoney ==
  ASSUME Idempotent, NEW c \in Clients, NEW n, Serve(c, n)
  PROVE  \/ UNCHANGED <<balance, ledger>>
         \/ \E w \in Wallets, p \in Posting : MoneyMoves(w, p) /\ Fits(p)
<1>1. /\ balance \in [Wallets -> Nat]
      /\ Intent[c].from \in Wallets /\ Intent[c].to \in Wallets /\ Intent[c].amount \in Nat
  BY ClientsAssumption, AmountsAreNaturals DEF Idempotent, Documented
<1>2. PICK a, from, to : a = Intent[c].amount /\ from = Intent[c].from /\ to = Intent[c].to
  OBVIOUS
<1>3. ASSUME Deposit(to, a)
      PROVE  \E w \in Wallets, p \in Posting : MoneyMoves(w, p) /\ Fits(p)
  <2>1. to \in Wallets /\ a \in Nat /\ balance[to] + a \in Nat
    BY <1>1, <1>2
  <2>2. \E p \in Posting : MoneyMoves(to, p) /\ Fits(p) /\ p.type = "DEPOSIT" /\ p.amount = a
    BY <1>1, <1>3, <2>1, RecordMoves DEF Deposit, TransactionType
  <2> QED BY <2>1, <2>2
<1>4. ASSUME Withdraw(from, a)
      PROVE  \E w \in Wallets, p \in Posting : MoneyMoves(w, p) /\ Fits(p)
  <2>1. from \in Wallets /\ a \in Nat /\ balance[from] - a \in Nat
    BY <1>1, <1>2, <1>4 DEF Withdraw
  <2>2. \E p \in Posting : MoneyMoves(from, p) /\ Fits(p) /\ p.type = "WITHDRAWAL" /\ p.amount = a
    BY <1>1, <1>4, <2>1, RecordMoves DEF Withdraw, TransactionType
  <2> QED BY <2>1, <2>2
<1>5. ASSUME NEW t \in TransferIds, NEW k, Transfer(t, from, to, a, k)
      PROVE  \E w \in Wallets, p \in Posting : MoneyMoves(w, p) /\ Fits(p)
  <2>1. from \in Wallets /\ a \in Nat /\ balance[from] - a \in Nat
    BY <1>1, <1>2, <1>5 DEF Transfer, TransferAllowed
  <2>2. \E p \in Posting :
          MoneyMoves(from, p) /\ Fits(p) /\ p.type = "TRANSFER_OUT" /\ p.amount = a
    BY <1>1, <1>5, <2>1, RecordMoves DEF Transfer, TransactionType
  <2> QED BY <2>1, <2>2
<1>6. CASE Moves(c, n)
  BY <1>2, <1>3, <1>4, <1>5, <1>6 DEF Moves
<1>7. CASE Insufficient(c, n) \/ ReturnsExisting(c, n)
  BY <1>7 DEF Insufficient, ReturnsExisting, Replied, storeVars
<1> QED BY <1>6, <1>7 DEF Serve

\* Report r has read, of books L, the balance there was after at postings and
\* then what the first count postings add up to.
Measured(r, L) ==
  r.kind # "none" =>
    /\ r.wallet \in Wallets /\ r.at \in 0 .. Len(L[r.wallet])
    /\ r.balance = NetTo(L[r.wallet], r.at)
    /\ r.stage # "totals" =>
         /\ r.count \in Nat /\ r.at <= r.count /\ r.count <= Len(L[r.wallet])
         /\ r.kind = "reconcile" => r.net = NetTo(L[r.wallet], r.count)
         /\ r.kind = "dashboard" => r.deposited - r.withdrawn = NetTo(L[r.wallet], r.count)

AllMeasured == \A v \in Viewers : Measured(report[v], ledger)

\* What was measured stays so when money moves.
LEMMA MeasuredLater ==
  ASSUME ledger \in [Wallets -> Seq(Posting)], NEW w \in Wallets, NEW p \in Posting,
         MoneyMoves(w, p), NEW r, Measured(r, ledger)
  PROVE  Measured(r, ledger')
<1>1. SUFFICES ASSUME r.kind # "none" PROVE Measured(r, ledger')
  BY DEF Measured
<1>2. PICK s, s2 : s = ledger[r.wallet] /\ s2 = ledger'[r.wallet]
  OBVIOUS
<1>3. /\ r.wallet \in Wallets /\ r.at \in 0 .. Len(s) /\ r.balance = NetTo(s, r.at)
      /\ s \in Seq(Posting)
      /\ r.stage # "totals" =>
           /\ r.count \in Nat /\ r.at <= r.count /\ r.count <= Len(s)
           /\ r.kind = "reconcile" => r.net = NetTo(s, r.count)
           /\ r.kind = "dashboard" => r.deposited - r.withdrawn = NetTo(s, r.count)
  BY <1>1, <1>2 DEF Measured
<1>4. Len(s) \in Nat
  BY <1>3, LenProperties
<1>5. Len(s) <= Len(s2) /\ Len(s2) \in Nat /\ \A k \in 0 .. Len(s) : NetTo(s2, k) = NetTo(s, k)
  <2>1. CASE r.wallet # w
    <3>1. s2 = s
      BY <1>2, <1>3, <2>1 DEF MoneyMoves
    <3> QED BY <1>4, <3>1
  <2>2. CASE r.wallet = w
    <3>1. s2 = Append(s, p)
      BY <1>2, <1>3, <2>2 DEF MoneyMoves
    <3>2. Len(s2) = Len(s) + 1
      BY <1>3, <3>1, AppendProperties
    <3>3. \A k \in 0 .. Len(s) : NetTo(Append(s, p), k) = NetTo(s, k)
      BY <1>3, NetToStays
    <3> QED BY <1>4, <3>1, <3>2, <3>3
  <2> QED BY <2>1, <2>2
<1>6. r.at \in 0 .. Len(s2) /\ r.balance = NetTo(s2, r.at)
  BY <1>3, <1>4, <1>5
<1>7. ASSUME r.stage # "totals"
      PROVE  /\ r.count \in Nat /\ r.at <= r.count /\ r.count <= Len(s2)
             /\ NetTo(s2, r.count) = NetTo(s, r.count)
  BY <1>3, <1>4, <1>5, <1>7
<1> QED BY <1>2, <1>3, <1>6, <1>7 DEF Measured

\* A wallet's balance and its sums, at a moment.
LEMMA BalanceIsNet ==
  ASSUME Idempotent, AllBalance, NEW w \in Wallets
  PROVE  /\ Len(ledger[w]) \in Nat
         /\ balance[w] = NetTo(ledger[w], Len(ledger[w]))
         /\ Net(w) = NetTo(ledger[w], Len(ledger[w]))
         /\ TotalDeposited(w) - TotalWithdrawn(w) = NetTo(ledger[w], Len(ledger[w]))
<1>1. ledger[w] \in Seq(Posting)
  BY DEF Idempotent, Documented
<1>2. Len(ledger[w]) \in Nat /\ NetTo(ledger[w], Len(ledger[w])) = NetOf(ledger[w])
  BY <1>1, NetToLast, LenProperties
<1>3. balance[w] = NetOf(ledger[w]) /\ Net(w) = NetOf(ledger[w])
  BY LedgerSums DEF AllBalance, Balances
<1>4. TotalDeposited(w) - TotalWithdrawn(w) = balance[w]
  BY LedgerSums DEF AllBalance, Balances, TotalDeposited, TotalWithdrawn
<1> QED BY <1>2, <1>3, <1>4

\* Every step keeps what reports have measured.
LEMMA NextMeasured ==
  ASSUME Idempotent, AllViewed, AllBalance, AllMeasured, [ReportsNext]_reportVars
  PROVE  AllBalance' /\ AllMeasured'
<1>1. balance \in [Wallets -> Nat] /\ ledger \in [Wallets -> Seq(Posting)]
  BY DEF Idempotent, Documented
<1>2. ASSUME UNCHANGED <<balance, ledger>> PROVE AllBalance'
  BY <1>2 DEF AllBalance
<1>3. ASSUME UNCHANGED <<balance, ledger, report>> PROVE AllBalance' /\ AllMeasured'
  BY <1>3 DEF AllBalance, AllMeasured
<1>4. ASSUME UNCHANGED report, NEW w \in Wallets, NEW p \in Posting, MoneyMoves(w, p), Fits(p)
      PROVE  AllBalance' /\ AllMeasured'
  <2>1. AllBalance'
    BY <1>1, <1>4, MovesBalance DEF AllBalance
  <2>2. AllMeasured'
    BY <1>1, <1>4, MeasuredLater DEF AllMeasured
  <2> QED BY <2>1, <2>2
<1>5. CASE Requests
  <2>1. UNCHANGED report
    BY <1>5 DEF Requests
  <2>2. ASSUME NEW c \in Clients, Send(c)
        PROVE  UNCHANGED <<balance, ledger>>
    BY <2>2 DEF Send, storeVars
  <2>3. ASSUME NEW c \in Clients, NEW n, Serve(c, n)
        PROVE  AllBalance' /\ AllMeasured'
    BY <1>3, <1>4, <2>1, <2>3, ServeMovesMoney
  <2> QED BY <1>3, <1>5, <2>1, <2>2, <2>3 DEF Requests, ClientsNext
<1>6. ASSUME NEW v \in Viewers, NEW r, UNCHANGED <<balance, ledger>>,
             report' = [report EXCEPT ![v] = r], Measured(r, ledger)
      PROVE  AllBalance' /\ AllMeasured'
  <2>1. \A u \in Viewers : report'[u] = IF u = v THEN r ELSE report[u]
    BY <1>6, ViewedNow
  <2> QED BY <1>2, <1>6, <2>1 DEF AllMeasured
<1>7. CASE UNCHANGED reportVars
  BY <1>3, <1>7 DEF reportVars, allVars, storeVars
<1>8. ASSUME NEW v \in Viewers, NEW w \in Wallets, NEW kind \in {"reconcile", "dashboard"},
             FindWallet(v, kind, w)
      PROVE  AllBalance' /\ AllMeasured'
  <2>1. PICK b, k, q : b = balance[w] /\ k = Len(ledger[w]) /\ q = NoReport
    OBVIOUS
  <2>2. PICK r : r = [q EXCEPT !.kind = kind, !.wallet = w, !.balance = b,
                               !.at = k, !.stage = "totals"]
    OBVIOUS
  <2>3. UNCHANGED <<balance, ledger>> /\ report' = [report EXCEPT ![v] = r]
    BY <1>8, <2>1, <2>2, Zenon DEF FindWallet, Reading, allVars, storeVars
  <2>4. r.kind = kind /\ r.wallet = w /\ r.balance = b /\ r.at = k /\ r.stage = "totals"
    BY <2>1, <2>2 DEF NoReport
  <2>5. k \in Nat /\ b = NetTo(ledger[w], k)
    BY <2>1, BalanceIsNet
  <2>6. Measured(r, ledger)
    BY <2>1, <2>4, <2>5 DEF Measured
  <2> QED BY <1>6, <2>3, <2>6
<1>9. ASSUME NEW v \in Viewers, Aggregate(v) PROVE AllBalance' /\ AllMeasured'
  <2>1. PICK q, x, k : q = report[v] /\ x = Net(q.wallet) /\ k = Len(ledger[q.wallet])
    OBVIOUS
  <2>2. PICK r : r = [q EXCEPT !.net = x, !.stage = "answer", !.count = k]
    OBVIOUS
  <2>3. IsReport(q) /\ q.kind = "reconcile" /\ q.wallet \in Wallets /\ Measured(q, ledger)
    BY <1>9, <2>1, ViewedNow DEF Aggregate, Reading, AllMeasured
  <2>4. UNCHANGED <<balance, ledger>> /\ report' = [report EXCEPT ![v] = r]
    <3>1. UNCHANGED <<balance, ledger>>
      BY <1>9 DEF Aggregate, Reading, allVars, storeVars
    <3>2. report' = [report EXCEPT ![v].net = x, ![v].stage = "answer", ![v].count = k]
      BY <1>9, <2>1 DEF Aggregate
    <3>3. report = [u \in Viewers |-> report[u]]
      BY ViewedNow
    <3> QED BY <2>1, <2>2, <3>1, <3>2, <3>3
  <2>5. /\ r.kind = "reconcile" /\ r.wallet = q.wallet /\ r.balance = q.balance /\ r.at = q.at
        /\ r.net = x /\ r.count = k
    BY <2>2, <2>3 DEF IsReport
  <2>6. k \in Nat /\ x = NetTo(ledger[q.wallet], k)
    BY <2>1, <2>3, BalanceIsNet
  <2>7. Measured(r, ledger)
    BY <2>1, <2>3, <2>5, <2>6 DEF Measured
  <2> QED BY <1>6, <2>4, <2>7
<1>10. ASSUME NEW v \in Viewers, Totals(v) PROVE AllBalance' /\ AllMeasured'
  <2>1. PICK q, x, y, k : /\ q = report[v] /\ k = Len(ledger[q.wallet])
                          /\ x = TotalDeposited(q.wallet) /\ y = TotalWithdrawn(q.wallet)
    OBVIOUS
  <2>2. PICK r : r = [q EXCEPT !.deposited = x, !.withdrawn = y, !.count = k, !.stage = "recent"]
    OBVIOUS
  <2>3. IsReport(q) /\ q.kind = "dashboard" /\ q.wallet \in Wallets /\ Measured(q, ledger)
    BY <1>10, <2>1, ViewedNow DEF Totals, Reading, AllMeasured
  <2>4. UNCHANGED <<balance, ledger>> /\ report' = [report EXCEPT ![v] = r]
    <3>1. UNCHANGED <<balance, ledger>>
      BY <1>10 DEF Totals, Reading, allVars, storeVars
    <3>2. report' = [report EXCEPT ![v].deposited = x, ![v].withdrawn = y,
                                   ![v].count = k, ![v].stage = "recent"]
      BY <1>10, <2>1 DEF Totals
    <3>3. report = [u \in Viewers |-> report[u]]
      BY ViewedNow
    <3> QED BY <2>1, <2>2, <3>1, <3>2, <3>3
  <2>5. /\ r.kind = "dashboard" /\ r.wallet = q.wallet /\ r.balance = q.balance /\ r.at = q.at
        /\ r.deposited = x /\ r.withdrawn = y /\ r.count = k
    BY <2>2, <2>3 DEF IsReport
  <2>6. k \in Nat /\ x - y = NetTo(ledger[q.wallet], k)
    BY <2>1, <2>3, BalanceIsNet
  <2>7. Measured(r, ledger)
    BY <2>1, <2>3, <2>5, <2>6 DEF Measured
  <2> QED BY <1>6, <2>4, <2>7
<1>11. ASSUME NEW v \in Viewers, Recent(v) \/ Entries(v) PROVE AllBalance' /\ AllMeasured'
  <2>1. PICK q, ids : /\ q = report[v]
                      /\ ids = IF Recent(v) THEN RecentIds(q.wallet)
                                ELSE q.recent \cap DOMAIN ledger[q.wallet]
    OBVIOUS
  <2>2. PICK r : r = IF Recent(v) THEN [q EXCEPT !.recent = ids, !.stage = "entries"]
                     ELSE [q EXCEPT !.entries = ids, !.stage = "answer"]
    OBVIOUS
  <2>3. /\ IsReport(q) /\ q.kind = "dashboard" /\ q.stage # "totals" /\ Measured(q, ledger)
        /\ UNCHANGED <<balance, ledger>>
    BY <1>11, <2>1, ViewedNow
       DEF Recent, Entries, Reading, AllMeasured, allVars, storeVars
  <2>4. report' = [report EXCEPT ![v] = r]
    <3>1. report = [u \in Viewers |-> report[u]]
      BY ViewedNow
    <3>2. CASE Recent(v)
      BY <2>1, <2>2, <3>1, <3>2 DEF Recent
    <3>3. CASE ~Recent(v)
      BY <1>11, <2>1, <2>2, <3>1, <3>3 DEF Entries
    <3> QED BY <3>2, <3>3
  <2>5. /\ r.kind = "dashboard" /\ r.wallet = q.wallet /\ r.balance = q.balance /\ r.at = q.at
        /\ r.deposited = q.deposited /\ r.withdrawn = q.withdrawn /\ r.count = q.count
    BY <2>2, <2>3 DEF IsReport
  <2>6. Measured(r, ledger)
    BY <2>3, <2>5 DEF Measured
  <2> QED BY <1>6, <2>3, <2>4, <2>6
<1>12. ASSUME NEW v \in Viewers, Answers(v) PROVE AllBalance' /\ AllMeasured'
  <2>1. UNCHANGED <<balance, ledger>> /\ report' = [report EXCEPT ![v] = NoReport]
    BY <1>12 DEF Answers, allVars, storeVars
  <2>2. Measured(NoReport, ledger)
    BY DEF Measured, NoReport
  <2> QED BY <1>6, <2>1, <2>2
<1> QED BY <1>5, <1>7, <1>8, <1>9, <1>10, <1>11, <1>12, Zenon DEF ReportsNext

\* What a finished report's difference is.
LEMMA MeasuredIsExplained == Idempotent /\ AllMeasured => DifferencesExplained
<1>1. SUFFICES ASSUME Idempotent, AllMeasured, NEW v \in Viewers, NEW r, r = report[v],
                      r.stage = "answer"
               PROVE  /\ r.kind = "reconcile" =>
                           r.net - r.balance = Between(r.wallet, r.at, r.count)
                      /\ r.kind = "dashboard" =>
                           r.deposited - r.withdrawn - r.balance = Between(r.wallet, r.at, r.count)
  BY DEF DifferencesExplained, Finished
<1>2. SUFFICES ASSUME r.kind \in {"reconcile", "dashboard"}
               PROVE  /\ r.kind = "reconcile" =>
                           r.net - r.balance = Between(r.wallet, r.at, r.count)
                      /\ r.kind = "dashboard" =>
                           r.deposited - r.withdrawn - r.balance = Between(r.wallet, r.at, r.count)
  OBVIOUS
<1>3. PICK s : s = ledger[r.wallet]
  OBVIOUS
<1>4. /\ r.wallet \in Wallets /\ r.at \in 0 .. Len(s) /\ r.count \in Nat
      /\ r.at <= r.count /\ r.count <= Len(s) /\ r.balance = NetTo(s, r.at)
      /\ r.kind = "reconcile" => r.net = NetTo(s, r.count)
      /\ r.kind = "dashboard" => r.deposited - r.withdrawn = NetTo(s, r.count)
  BY <1>1, <1>2, <1>3 DEF AllMeasured, Measured
<1>5. s \in Seq(Posting) /\ r.at \in Nat
  <2>1. s \in Seq(Posting)
    BY <1>1, <1>3, <1>4 DEF Idempotent, Documented
  <2>2. Len(s) \in Nat
    BY <2>1, LenProperties
  <2> QED BY <1>4, <2>1, <2>2
<1>6. Between(r.wallet, r.at, r.count) = NetTo(s, r.count) - NetTo(s, r.at)
  BY <1>3, <1>4, <1>5, NetBetween DEF Between
<1> QED BY <1>4, <1>6

\* Whatever is committed while a report is made, its difference is what was
\* committed between its two reads.
THEOREM ReportsExplained == ReportsSpec => []DifferencesExplained
<1>1. ReportsInit => AllViewed
  <2>1. Viewed(NoReport, ledger)
    BY DEF Viewed, IsReport, NoReport
  <2> QED BY <2>1 DEF ReportsInit, AllViewed
<1>2. ReportsInit => AllBalance /\ AllMeasured
  BY InitSums DEF ReportsInit, ClientsInit, AllBalance, AllMeasured, Measured, NoReport
<1> QED BY <1>1, <1>2, InitIdempotent, NextIdempotent, NextViewed, NextMeasured,
           MeasuredIsExplained, PTL DEF ReportsSpec

=============================================================================
