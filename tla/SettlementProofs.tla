-------------------------- MODULE SettlementProofs ---------------------------
(***************************************************************************)
(* How money moves and transfers are settled, for every value of the       *)
(* constants: the postings of a wallet are a chain that ends in its        *)
(* balance, only overdue transfers are refunded, and each leg of a         *)
(* transfer is posted once.  Then the sums: every wallet reconciles, and   *)
(* in each currency no money is made or lost.                              *)
(***************************************************************************)
EXTENDS PlatformProofs, Books

-----------------------------------------------------------------------------
(* The audit trail.                                                         *)

\* Appending a posting that states the new balance extends a wallet's chain.
LEMMA ChainGrows ==
  ASSUME TypeOK, AuditTrail, NEW w \in Wallets, NEW p \in Posting,
         ledger' = [ledger EXCEPT ![w] = Append(ledger[w], p)],
         balance' = [balance EXCEPT ![w] = p.balanceAfter],
         p.balanceAfter = balance[w] + Signed(p)
  PROVE  AuditTrail'
<1> SUFFICES ASSUME NEW v \in Wallets
             PROVE  /\ balance'[v] = BalanceAfter(v, Len(ledger[v]))'
                    /\ \A n \in 1..Len(ledger'[v]) :
                         BalanceAfter(v, n)' = BalanceAfter(v, n - 1)' + Signed(ledger'[v][n])
  BY DEF AuditTrail, Signed, BalanceAfter
<1>1. /\ ledger \in [Wallets -> Seq(Posting)]
      /\ balance \in [Wallets -> Nat]
  BY DEF TypeOK, StoreTypeOK
<1>2. CASE v # w
  BY <1>1, <1>2 DEF AuditTrail, BalanceAfter
<1>3. CASE v = w
  <2> DEFINE s == ledger[w]
             len == Len(s)
  <2>1. /\ s \in Seq(Posting) /\ len \in Nat
        /\ ledger'[w] = Append(s, p)
    BY <1>1, LenProperties
  <2> HIDE DEF s
  <2>2. /\ Len(Append(s, p)) = len + 1
        /\ \A n \in 1..len : Append(s, p)[n] = s[n]
        /\ Append(s, p)[len + 1] = p
    BY <2>1, AppendProperties
  <2>3. balance'[w] = p.balanceAfter
    BY <1>1
  <2>4. /\ balance[w] = IF len = 0 THEN 0 ELSE s[len].balanceAfter
        /\ \A n \in 1..len :
             (IF n = 0 THEN 0 ELSE s[n].balanceAfter) =
               (IF n - 1 = 0 THEN 0 ELSE s[n - 1].balanceAfter) + Signed(s[n])
    BY DEF AuditTrail, BalanceAfter, s
  <2>5. ASSUME NEW n \in 1..(len + 1)
        PROVE  (IF n = 0 THEN 0 ELSE Append(s, p)[n].balanceAfter) =
                 (IF n - 1 = 0 THEN 0 ELSE Append(s, p)[n - 1].balanceAfter)
                   + Signed(Append(s, p)[n])
    <3>1. CASE n = len + 1
      <4>1. (IF n - 1 = 0 THEN 0 ELSE Append(s, p)[n - 1].balanceAfter) = balance[w]
        BY <2>1, <2>2, <2>4, <3>1
      <4> QED
        BY <2>1, <2>2, <3>1, <4>1
    <3>2. CASE n \in 1..len
      <4>1. Append(s, p)[n] = s[n]
        BY <2>2, <3>2
      <4>2. n - 1 = 0 \/ Append(s, p)[n - 1] = s[n - 1]
        BY <2>1, <2>2, <3>2
      <4> QED
        BY <2>4, <3>2, <4>1, <4>2
    <3> QED
      BY <2>1, <3>1, <3>2
  <2>6. Len(ledger'[w]) = len + 1 /\ ledger'[w] = Append(s, p)
    BY <2>1, <2>2
  <2>7. balance'[w] = IF Len(ledger'[w]) = 0 THEN 0 ELSE ledger'[w][Len(ledger'[w])].balanceAfter
    BY <2>1, <2>2, <2>3, <2>6
  <2>8. \A n \in 1..Len(ledger'[w]) :
          (IF n = 0 THEN 0 ELSE ledger'[w][n].balanceAfter) =
            (IF n - 1 = 0 THEN 0 ELSE ledger'[w][n - 1].balanceAfter)
              + Signed(ledger'[w][n])
    BY <2>5, <2>6
  <2> QED
    BY <1>3, <2>7, <2>8 DEF BalanceAfter
<1> QED
  BY <1>2, <1>3

\* A debit or credit recorded with the balance it leaves extends the chain.
LEMMA RecordKeepsTrail ==
  ASSUME TypeOK, AuditTrail, NEW w \in Wallets, NEW type \in TransactionType,
         NEW a \in Nat, NEW after \in Nat, NEW t \in TransferIds \cup {None},
         SetBalance(w, after),
         \/ RecordDebit(w, type, a, after, t) /\ after = balance[w] - a
         \/ RecordCredit(w, type, a, after, t) /\ after = balance[w] + a
  PROVE  AuditTrail'
<1>1. balance[w] \in Nat
  BY DEF TypeOK, StoreTypeOK
<1> DEFINE posting(d) == [type |-> type, direction |-> d, amount |-> a,
                          balanceAfter |-> after, transfer |-> t]
<1>2. ASSUME RecordDebit(w, type, a, after, t), after = balance[w] - a
      PROVE  AuditTrail'
  <2>1. posting("DEBIT") \in Posting
    BY DEF Posting, LedgerEntryDirection
  <2>2. after = balance[w] + Signed(posting("DEBIT"))
    BY <1>1, <1>2 DEF Signed
  <2>3. ledger' = [ledger EXCEPT ![w] = Append(ledger[w], posting("DEBIT"))]
    BY <1>2 DEF RecordDebit
  <2>4. balance' = [balance EXCEPT ![w] = posting("DEBIT").balanceAfter]
    BY DEF SetBalance
  <2> QED
    BY <2>1, <2>2, <2>3, <2>4, ChainGrows
<1>3. ASSUME RecordCredit(w, type, a, after, t), after = balance[w] + a
      PROVE  AuditTrail'
  <2>1. posting("CREDIT") \in Posting
    BY DEF Posting, LedgerEntryDirection
  <2>2. after = balance[w] + Signed(posting("CREDIT"))
    BY <1>1, <1>3 DEF Signed
  <2>3. ledger' = [ledger EXCEPT ![w] = Append(ledger[w], posting("CREDIT"))]
    BY <1>3 DEF RecordCredit
  <2>4. balance' = [balance EXCEPT ![w] = posting("CREDIT").balanceAfter]
    BY DEF SetBalance
  <2> QED
    BY <2>1, <2>2, <2>3, <2>4, ChainGrows
<1> QED
  BY <1>2, <1>3

\* Every step keeps the audit trail.
LEMMA NextKeepsTrail ==
  ASSUME TypeOK, PayloadAgreement, AuditTrail, [Next]_vars
  PROVE  AuditTrail'
<1>1. /\ balance \in [Wallets -> Nat]
      /\ transfer \in [TransferIds -> TransferDoc \cup {None}]
      /\ balance' \in [Wallets -> Nat]
  BY NextType DEF TypeOK, StoreTypeOK
<1>2. ASSUME UNCHANGED <<balance, ledger>> PROVE AuditTrail'
  BY <1>2 DEF AuditTrail, BalanceAfter
<1>3. ASSUME NEW w \in Wallets, NEW a \in Amounts, Deposit(w, a) PROVE AuditTrail'
  <2>1. a \in Nat /\ balance[w] + a \in Nat
    BY <1>1, AmountsAreNaturals
  <2> QED
    BY <1>3, <2>1, RecordKeepsTrail DEF Deposit, TransactionType
<1>4. ASSUME NEW w \in Wallets, NEW a \in Amounts, Withdraw(w, a) PROVE AuditTrail'
  <2>1. a \in Nat /\ balance[w] - a \in Nat
    BY <1>1, <1>4, AmountsAreNaturals DEF Withdraw
  <2> QED
    BY <1>4, <2>1, RecordKeepsTrail DEF Withdraw, TransactionType
<1>5. ASSUME NEW t \in TransferIds, NEW from \in Wallets, NEW to \in Wallets,
             NEW a \in Amounts, NEW k \in Keys \cup {NoKey}, Transfer(t, from, to, a, k)
      PROVE  AuditTrail'
  <2>1. a \in Nat /\ balance[from] - a \in Nat
    BY <1>1, <1>5, AmountsAreNaturals DEF Transfer, TransferAllowed
  <2> QED
    BY <1>5, <2>1, RecordKeepsTrail DEF Transfer, TransactionType
<1>6. ASSUME NEW h \in Handlers, CompleteTransfer(h) PROVE AuditTrail'
  <2> DEFINE m == handler[h].msg
  <2>1. m.transfer \in TransferIds /\ m.to \in Wallets /\ m.amount \in Nat
    <3>1. Names(m.transfer, m.to, m.amount)
      BY <1>6, CompletedIsNamed
    <3>2. transfer[m.transfer] \in TransferDoc
      BY <1>1, <3>1 DEF Names, Exists
    <3> QED
      BY <3>1, <3>2, AmountsAreNaturals DEF Names, TransferDoc
  <2>2. balance[m.to] + m.amount \in Nat
    BY <1>1, <2>1
  <2> QED
    BY <1>6, <2>1, <2>2, RecordKeepsTrail DEF CompleteTransfer, TransactionType
<1>7. ASSUME NEW i \in Instances, NEW t \in TransferIds, SweepRefund(i, t)
      PROVE  AuditTrail'
  <2>1. transfer[t] \in TransferDoc
    BY <1>1, <1>7 DEF SweepRefund, Pending, InStatus
  <2>2. transfer[t].from \in Wallets /\ transfer[t].amount \in Nat
    BY <2>1, AmountsAreNaturals DEF TransferDoc
  <2>3. balance[transfer[t].from] + transfer[t].amount \in Nat
    BY <1>1, <2>2
  <2> QED
    BY <1>7, <2>2, <2>3, RecordKeepsTrail DEF SweepRefund, TransactionType
<1> QED
  BY <1>2, <1>3, <1>4, <1>5, <1>6, <1>7, WritingSteps DEF CreateWallet, MarkPublished

\* The opening balance is the first posting of an opened wallet.
LEMMA InitTrail == Init => AuditTrail
<1> SUFFICES ASSUME Init, NEW w \in Wallets
             PROVE  /\ balance[w] = BalanceAfter(w, Len(ledger[w]))
                    /\ \A n \in 1..Len(ledger[w]) :
                         BalanceAfter(w, n) = BalanceAfter(w, n - 1) + Signed(ledger[w][n])
  BY DEF AuditTrail
<1>1. CASE w \in Opened
  <2>1. ledger[w] = <<Opening>> /\ balance[w] = OpeningBalance
    BY <1>1 DEF Init, StoreInit
  <2> QED
    BY <2>1, StoreAssumption DEF BalanceAfter, Signed, Opening
<1>2. CASE w \notin Opened
  <2>1. ledger[w] = <<>> /\ balance[w] = 0
    BY <1>2 DEF Init, StoreInit
  <2> QED
    BY <2>1 DEF BalanceAfter
<1> QED
  BY <1>1, <1>2

\* In every reachable state the postings of each wallet form a chain that ends
\* in its balance.
THEOREM TrailKept == Spec => []AuditTrail
<1>1. TypeOK /\ PayloadAgreement /\ AuditTrail /\ [Next]_vars => AuditTrail'
  BY NextKeepsTrail
<1> QED
  BY <1>1, InitTrail, TypeCorrect, PayloadsAgree, PTL DEF Spec

-----------------------------------------------------------------------------
(* Refunds.                                                                 *)

\* A sweep works on ids that were overdue when it read them, and a transfer
\* that was overdue stays so.
OnlyOverdue ==
  /\ RefundsOnlyOverdue
  /\ \A i \in Instances : stale[i] \subseteq aged

\* Every step keeps the sweeps to overdue transfers.
LEMMA NextOverdue ==
  ASSUME TypeOK, PayloadAgreement, OnlyOverdue, [Next]_vars
  PROVE  OnlyOverdue'
<1>1. transfer \in [TransferIds -> TransferDoc \cup {None}]
      /\ stale \in [Instances -> SUBSET TransferIds]
  BY DEF TypeOK, StoreTypeOK, SweepTypeOK
<1>2. aged \subseteq aged'
  BY DEF Next, Api, Expiry, ApiAborts, RelayTicks, Publishes, Marks, RelayFaults, Delivers,
         Handles, ConsumerFaults, InboxExpiry, Ages, SweepTicks, Sweeps, SweepFaults, Crash,
         UnhandledRejection, Start, Dies, OnlyApi, OnlyRelay, OnlyConsumer, Age, SweepTick,
         SweepRefund, SweepSkips, SweepErrs, sweepVars, vars
<1>3. \A i \in Instances : stale'[i] \subseteq stale[i] \cup Overdue
  <2>1. CASE UNCHANGED stale
    BY <2>1
  <2>2. ASSUME NEW i \in Instances, SweepTick(i)
        PROVE  \A j \in Instances : stale'[j] \subseteq stale[j] \cup Overdue
    BY <1>1, <2>2 DEF SweepTick
  <2>3. ASSUME NEW i \in Instances, NEW t \in TransferIds, Done(i, t)
        PROVE  \A j \in Instances : stale'[j] \subseteq stale[j] \cup Overdue
    BY <1>1, <2>3 DEF Done
  <2>4. ASSUME NEW i, Dies(i) PROVE \A j \in Instances : stale'[j] \subseteq stale[j] \cup Overdue
    BY <1>1, <2>4 DEF Dies
  <2> QED
    BY <2>1, <2>2, <2>3, <2>4
    DEF Next, Api, Expiry, ApiAborts, RelayTicks, Publishes, Marks, RelayFaults, Delivers,
        Handles, ConsumerFaults, InboxExpiry, Ages, SweepTicks, Sweeps, SweepFaults, Crash,
        UnhandledRejection, Start, OnlyApi, OnlyRelay, OnlyConsumer, Age,
        SweepRefund, SweepSkips, SweepErrs, sweepVars, vars, TypeOK
<1>4. ASSUME NEW t \in TransferIds, transfer'[t] # None, transfer'[t].status = "FAILED"
      PROVE  t \in aged'
  <2>1. CASE InStatus(t, "FAILED")
    BY <1>2, <2>1 DEF OnlyOverdue, RefundsOnlyOverdue
  <2>2. ASSUME NEW u \in TransferIds, NEW from \in Wallets, NEW to \in Wallets,
               NEW a \in Amounts, NEW k \in Keys \cup {NoKey}, Transfer(u, from, to, a, k),
               ~InStatus(t, "FAILED")
        PROVE  FALSE
    BY <1>1, <1>4, <2>2 DEF Transfer, InStatus
  <2>3. ASSUME NEW h \in Handlers, CompleteTransfer(h), ~InStatus(t, "FAILED")
        PROVE  FALSE
    <3>1. handler[h].msg.transfer \in TransferIds
      BY <2>3, CompletedIsNamed DEF Names
    <3>2. transfer[handler[h].msg.transfer] \in TransferDoc
      BY <1>1, <2>3, <3>1 DEF CompleteTransfer, Pending, InStatus
    <3> QED
      BY <1>1, <1>4, <2>3, <3>1, <3>2 DEF CompleteTransfer, InStatus, TransferDoc
  <2>4. ASSUME NEW i \in Instances, NEW u \in TransferIds, SweepRefund(i, u),
               ~InStatus(t, "FAILED")
        PROVE  t \in aged'
    <3>1. t = u
      BY <1>1, <1>4, <2>4 DEF SweepRefund, InStatus
    <3> QED
      BY <1>2, <2>4, <3>1 DEF SweepRefund, OnlyOverdue
  <2>5. CASE UNCHANGED transfer
    BY <1>4, <2>1, <2>5 DEF InStatus
  <2> QED
    BY <2>1, <2>2, <2>3, <2>4, <2>5, WritingSteps
    DEF CreateWallet, Deposit, Withdraw, MarkPublished
<1> QED
  BY <1>2, <1>3, <1>4 DEF OnlyOverdue, RefundsOnlyOverdue, InStatus, Overdue

\* No transfer is failed and refunded before its timeout, however late a sweep
\* comes to the ids it read.
THEOREM OnlyOverdueRefunded == Spec => []RefundsOnlyOverdue
<1>1. Init => OnlyOverdue
  BY DEF Init, StoreInit, SweepInit, OnlyOverdue, RefundsOnlyOverdue, InStatus
<1>2. TypeOK /\ PayloadAgreement /\ OnlyOverdue /\ [Next]_vars => OnlyOverdue'
  BY NextOverdue
<1>3. OnlyOverdue => RefundsOnlyOverdue
  BY DEF OnlyOverdue
<1> QED
  BY <1>1, <1>2, <1>3, TypeCorrect, PayloadsAgree, PTL DEF Spec


-----------------------------------------------------------------------------
(* The legs of a transfer.                                                  *)

\* ResolvedOnce of one transfer document, in books given as a value.
Resolved(L, d, t) ==
  /\ SingleLeg(L[d.from], t, "TRANSFER_OUT", d.amount)
  /\ NoneIn(L, Wallets \ {d.from}, t, "TRANSFER_OUT")
  /\ d.status = "PENDING" => NoneIn(L, Wallets, t, "TRANSFER_IN")
  /\ d.status # "PENDING" =>
       /\ SingleLeg(L[Payee(d)], t, "TRANSFER_IN", d.amount)
       /\ NoneIn(L, Wallets \ {Payee(d)}, t, "TRANSFER_IN")

LegsRight(L, d, t) ==
  /\ d = None => NoneIn(L, Wallets, t, "TRANSFER_OUT") /\ NoneIn(L, Wallets, t, "TRANSFER_IN")
  /\ d # None => Resolved(L, d, t)

\* ResolvedOnce says just this of the ledger and the transfers.
LEMMA ResolvedOnceLegs ==
  /\ ResolvedOnce <=> \A t \in TransferIds : LegsRight(ledger, transfer[t], t)
  /\ ResolvedOnce' <=> \A t \in TransferIds : LegsRight(ledger', transfer'[t], t)
BY DEF ResolvedOnce, LegsRight, Resolved, NoneIn, SingleLeg, LegsOf, OneLeg, NoLeg, Legs, Payee

\* A posting of another transfer, or of none, disturbs nothing.
LEMMA ForeignPosting ==
  ASSUME NEW L \in [Wallets -> Seq(Posting)], NEW w \in Wallets, NEW p \in Posting,
         NEW d \in TransferDoc \cup {None}, NEW t, p.transfer # t, LegsRight(L, d, t)
  PROVE  LegsRight([L EXCEPT ![w] = Append(L[w], p)], d, t)
<1> DEFINE L2 == [L EXCEPT ![w] = Append(L[w], p)]
<1>1. ASSUME NEW v \in Wallets, NEW type
      PROVE  /\ LegsOf(L2[v], t, type) = LegsOf(L[v], t, type)
             /\ \A a : SingleLeg(L[v], t, type, a) => SingleLeg(L2[v], t, type, a)
  <2>1. CASE v # w
    BY <2>1
  <2>2. CASE v = w
    <3>1. L[w] \in Seq(Posting) /\ L2[v] = Append(L[w], p)
      BY <2>2
    <3> HIDE DEF L2
    <3> QED
      BY <2>2, <3>1, AppendLegs
  <2> QED
    BY <2>1, <2>2
<1> HIDE DEF L2
<1>2. ASSUME NEW type, NEW W \in SUBSET Wallets, NoneIn(L, W, t, type)
      PROVE  NoneIn(L2, W, t, type)
  BY <1>1, <1>2 DEF NoneIn
<1>3. ASSUME d = None PROVE LegsRight(L2, d, t)
  BY <1>2, <1>3 DEF LegsRight
<1>4. ASSUME d # None PROVE LegsRight(L2, d, t)
  <2>1. d.from \in Wallets /\ Payee(d) \in Wallets
    BY <1>4 DEF TransferDoc, Payee
  <2>2. Resolved(L, d, t)
    BY <1>4 DEF LegsRight
  <2>3. Resolved(L2, d, t)
    BY <1>1, <1>2, <2>1, <2>2 DEF Resolved
  <2> QED
    BY <1>4, <2>3 DEF LegsRight
<1> QED
  BY <1>3, <1>4 DEF L2

\* The debit of a new transfer is its one leg.
LEMMA DebitPosting ==
  ASSUME NEW L \in [Wallets -> Seq(Posting)], NEW p \in Posting, NEW d \in TransferDoc,
         LegsRight(L, None, p.transfer), p.type = "TRANSFER_OUT", p.amount = d.amount,
         d.status = "PENDING"
  PROVE  LegsRight([L EXCEPT ![d.from] = Append(L[d.from], p)], d, p.transfer)
<1> DEFINE w == d.from
           t == p.transfer
           L2 == [L EXCEPT ![w] = Append(L[w], p)]
<1>1. w \in Wallets /\ L[w] \in Seq(Posting) /\ d # None
  BY NoneAssumption DEF TransferDoc
<1>2. L2[w] = Append(L[w], p) /\ \A v \in Wallets \ {w} : L2[v] = L[v]
  BY <1>1
<1>3. \A v \in Wallets : LegsOf(L[v], t, "TRANSFER_OUT") = {} /\ LegsOf(L[v], t, "TRANSFER_IN") = {}
  BY DEF LegsRight, NoneIn
<1> HIDE DEF w, t, L2
<1>4. SingleLeg(L2[w], t, "TRANSFER_OUT", d.amount)
  BY <1>1, <1>2, <1>3, AppendLegs DEF t
<1>5. NoneIn(L2, Wallets \ {w}, t, "TRANSFER_OUT")
  BY <1>2, <1>3 DEF NoneIn
<1>6. NoneIn(L2, Wallets, t, "TRANSFER_IN")
  <2>1. LegsOf(L2[w], t, "TRANSFER_IN") = LegsOf(L[w], t, "TRANSFER_IN")
    BY <1>1, <1>2, AppendLegs
  <2> QED
    BY <1>2, <1>3, <2>1 DEF NoneIn
<1> QED
  BY <1>1, <1>4, <1>5, <1>6 DEF LegsRight, Resolved, w, t, L2

\* The credit that ends a transfer is the one leg of its payee.
LEMMA CreditPosting ==
  ASSUME NEW L \in [Wallets -> Seq(Posting)], NEW p \in Posting, NEW d \in TransferDoc,
         NEW d2 \in TransferDoc, LegsRight(L, d, p.transfer), p.type = "TRANSFER_IN",
         p.amount = d.amount, d.status = "PENDING", d2.status # "PENDING",
         d2.from = d.from, d2.amount = d.amount
  PROVE  LegsRight([L EXCEPT ![Payee(d2)] = Append(L[Payee(d2)], p)], d2, p.transfer)
<1> DEFINE w == Payee(d2)
           t == p.transfer
           L2 == [L EXCEPT ![w] = Append(L[w], p)]
<1>1. w \in Wallets /\ L[w] \in Seq(Posting) /\ d # None /\ d2 # None /\ d.from \in Wallets
  BY NoneAssumption DEF TransferDoc, Payee
<1>2. L2[w] = Append(L[w], p) /\ \A v \in Wallets \ {w} : L2[v] = L[v]
  BY <1>1
<1>3. Resolved(L, d, t)
  BY <1>1 DEF LegsRight
<1> HIDE DEF w, t, L2
<1>4. \A v \in Wallets : LegsOf(L[v], t, "TRANSFER_IN") = {}
  BY <1>3 DEF Resolved, NoneIn
<1>5. SingleLeg(L2[w], t, "TRANSFER_IN", d.amount)
  BY <1>1, <1>2, <1>4, AppendLegs DEF t
<1>6. NoneIn(L2, Wallets \ {w}, t, "TRANSFER_IN")
  BY <1>2, <1>4 DEF NoneIn
<1>7. SingleLeg(L2[d.from], t, "TRANSFER_OUT", d.amount)
  BY <1>1, <1>2, <1>3, AppendLegs DEF Resolved
<1>8. NoneIn(L2, Wallets \ {d.from}, t, "TRANSFER_OUT")
  <2>1. LegsOf(L2[w], t, "TRANSFER_OUT") = LegsOf(L[w], t, "TRANSFER_OUT")
    BY <1>1, <1>2, AppendLegs
  <2> QED
    BY <1>2, <1>3, <2>1 DEF Resolved, NoneIn
<1> QED
  BY <1>1, <1>5, <1>6, <1>7, <1>8 DEF LegsRight, Resolved, w, t, L2

\* Deposits and withdrawals are no legs of transfers.
LEMMA DepositResolves ==
  ASSUME TypeOK, ResolvedOnce, NEW w \in Wallets, NEW a \in Amounts,
         Deposit(w, a) \/ Withdraw(w, a)
  PROVE  ResolvedOnce'
<1>1. /\ ledger \in [Wallets -> Seq(Posting)]
      /\ transfer \in [TransferIds -> TransferDoc \cup {None}]
      /\ balance \in [Wallets -> Nat]
  BY DEF TypeOK, StoreTypeOK
<1>2. \E p \in Posting :
        p.transfer = None /\ ledger' = [ledger EXCEPT ![w] = Append(ledger[w], p)]
  <2>1. CASE Deposit(w, a)
    <3> DEFINE p == PostingOf("DEPOSIT", "CREDIT", a, balance[w] + a, None)
    <3>1. a \in Nat /\ balance[w] + a \in Nat
      BY <1>1, AmountsAreNaturals
    <3>2. p \in Posting /\ p.transfer = None
      BY <3>1, PostingOfType DEF TransactionType, LedgerEntryDirection
    <3>3. ledger' = [ledger EXCEPT ![w] = Append(ledger[w], p)]
      BY <2>1 DEF Deposit, RecordCredit, PostingOf
    <3> QED
      BY <3>2, <3>3
  <2>2. CASE Withdraw(w, a)
    <3> DEFINE p == PostingOf("WITHDRAWAL", "DEBIT", a, balance[w] - a, None)
    <3>1. a \in Nat /\ balance[w] - a \in Nat
      BY <1>1, <2>2, AmountsAreNaturals DEF Withdraw
    <3>2. p \in Posting /\ p.transfer = None
      BY <3>1, PostingOfType DEF TransactionType, LedgerEntryDirection
    <3>3. ledger' = [ledger EXCEPT ![w] = Append(ledger[w], p)]
      BY <2>2 DEF Withdraw, RecordDebit, PostingOf
    <3> QED
      BY <3>2, <3>3
  <2> QED
    BY <2>1, <2>2
<1>3. transfer' = transfer
  BY DEF Deposit, Withdraw
<1>4. PICK p \in Posting :
        p.transfer = None /\ ledger' = [ledger EXCEPT ![w] = Append(ledger[w], p)]
  BY <1>2
<1>5. ASSUME NEW u \in TransferIds PROVE LegsRight(ledger', transfer'[u], u)
  <2>1. p.transfer # u
    BY <1>4, StoreAssumption
  <2>2. LegsRight(ledger, transfer[u], u) /\ transfer'[u] = transfer[u]
    BY <1>3, ResolvedOnceLegs
  <2> QED
    BY <1>1, <1>4, <2>1, <2>2, ForeignPosting
<1> QED
  BY <1>5, ResolvedOnceLegs

\* The debit of a new transfer is its first posting.
LEMMA TransferResolves ==
  ASSUME TypeOK, ResolvedOnce, NEW t \in TransferIds, NEW from \in Wallets,
         NEW to \in Wallets, NEW a \in Amounts, NEW k \in Keys \cup {NoKey},
         Transfer(t, from, to, a, k)
  PROVE  ResolvedOnce'
<1> DEFINE p == PostingOf("TRANSFER_OUT", "DEBIT", a, balance[from] - a, t)
           d == [from |-> from, to |-> to, amount |-> a, status |-> "PENDING", key |-> k]
<1>1. /\ ledger \in [Wallets -> Seq(Posting)]
      /\ transfer \in [TransferIds -> TransferDoc \cup {None}]
      /\ balance \in [Wallets -> Nat]
  BY DEF TypeOK, StoreTypeOK
<1>2. a \in Nat /\ balance[from] - a \in Nat
  BY <1>1, AmountsAreNaturals DEF Transfer, TransferAllowed
<1>3. p \in Posting /\ p.transfer = t /\ p.type = "TRANSFER_OUT" /\ p.amount = a
  BY <1>2, PostingOfType DEF TransactionType, LedgerEntryDirection
<1>4. d \in TransferDoc /\ d.from = from /\ d.amount = a /\ d.status = "PENDING"
  BY DEF TransferDoc, TransferStatus
<1>5. ledger' = [ledger EXCEPT ![from] = Append(ledger[from], p)]
  BY DEF Transfer, RecordDebit, PostingOf
<1>6. transfer[t] = None /\ transfer' = [transfer EXCEPT ![t] = d]
  BY DEF Transfer
<1> HIDE DEF p, d
<1>7. LegsRight(ledger', transfer'[t], t)
  <2>1. LegsRight(ledger, None, t)
    BY <1>6, ResolvedOnceLegs
  <2> QED
    BY <1>1, <1>3, <1>4, <1>5, <1>6, <2>1, DebitPosting
<1>8. ASSUME NEW u \in TransferIds, u # t PROVE LegsRight(ledger', transfer'[u], u)
  <2>1. LegsRight(ledger, transfer[u], u) /\ transfer'[u] = transfer[u]
    BY <1>1, <1>6, <1>8, ResolvedOnceLegs
  <2> QED
    BY <1>1, <1>3, <1>5, <1>8, <2>1, ForeignPosting
<1> QED
  BY <1>7, <1>8, ResolvedOnceLegs

\* Ending a pending transfer with one credit to its payee.
LEMMA EndResolves ==
  ASSUME TypeOK, ResolvedOnce, NEW t \in TransferIds, Pending(t),
         NEW s \in {"COMPLETED", "FAILED"}, NEW w \in Wallets, NEW after \in Nat,
         w = IF s = "COMPLETED" THEN transfer[t].to ELSE transfer[t].from,
         transfer' = [transfer EXCEPT ![t].status = s],
         RecordCredit(w, "TRANSFER_IN", transfer[t].amount, after, t)
  PROVE  ResolvedOnce'
<1> DEFINE d == transfer[t]
           d2 == [d EXCEPT !.status = s]
           p == PostingOf("TRANSFER_IN", "CREDIT", d.amount, after, t)
<1>1. /\ ledger \in [Wallets -> Seq(Posting)]
      /\ transfer \in [TransferIds -> TransferDoc \cup {None}]
  BY DEF TypeOK, StoreTypeOK
<1>2. d \in TransferDoc /\ d.status = "PENDING"
  BY <1>1 DEF Pending, InStatus
<1>3. /\ d2 \in TransferDoc
      /\ d2.status = s
      /\ d2.from = d.from
      /\ d2.to = d.to
      /\ d2.amount = d.amount
  BY <1>2 DEF TransferDoc, TransferStatus
<1>4. d.amount \in Nat
  BY <1>2, AmountsAreNaturals DEF TransferDoc
<1>5. p \in Posting /\ p.transfer = t /\ p.type = "TRANSFER_IN" /\ p.amount = d.amount
  BY <1>4, PostingOfType DEF TransactionType, LedgerEntryDirection
<1>6. ledger' = [ledger EXCEPT ![w] = Append(ledger[w], p)]
  BY DEF RecordCredit, PostingOf
<1>7. transfer' = [transfer EXCEPT ![t] = d2]
  OBVIOUS
<1>8. w = Payee(d2)
  BY <1>3 DEF Payee
<1> HIDE DEF p, d2
<1>9. LegsRight(ledger', transfer'[t], t)
  <2>1. LegsRight(ledger, d, t)
    BY ResolvedOnceLegs
  <2> HIDE DEF d
  <2>2. transfer'[t] = d2 /\ d2.status # "PENDING"
    BY <1>1, <1>3, <1>7
  <2>3. ledger' = [ledger EXCEPT ![Payee(d2)] = Append(ledger[Payee(d2)], p)]
    BY <1>6, <1>8
  <2> QED
    BY <1>1, <1>2, <1>3, <1>5, <2>1, <2>2, <2>3, CreditPosting
<1>10. ASSUME NEW u \in TransferIds, u # t PROVE LegsRight(ledger', transfer'[u], u)
  <2>1. LegsRight(ledger, transfer[u], u) /\ transfer'[u] = transfer[u]
    BY <1>1, <1>7, <1>10, ResolvedOnceLegs
  <2> QED
    BY <1>1, <1>5, <1>6, <1>10, <2>1, ForeignPosting
<1> QED
  BY <1>9, <1>10, ResolvedOnceLegs

\* Every step keeps the legs of all transfers right.
LEMMA NextResolves ==
  ASSUME TypeOK, PayloadAgreement, ResolvedOnce, [Next]_vars
  PROVE  ResolvedOnce'
<1>1. /\ balance \in [Wallets -> Nat]
      /\ transfer \in [TransferIds -> TransferDoc \cup {None}]
  BY DEF TypeOK, StoreTypeOK
<1>2. ASSUME UNCHANGED <<transfer, ledger>> PROVE ResolvedOnce'
  BY <1>2, ResolvedOnceLegs
<1>3. ASSUME NEW h \in Handlers, CompleteTransfer(h) PROVE ResolvedOnce'
  <2> DEFINE m == handler[h].msg
             t == m.transfer
  <2>1. t \in TransferIds /\ transfer[t].to = m.to /\ transfer[t].amount = m.amount
    BY <1>3, CompletedIsNamed DEF Names
  <2>2. Pending(t) /\ transfer[t] \in TransferDoc
    BY <1>1, <1>3, <2>1 DEF CompleteTransfer, Pending, InStatus
  <2>3. transfer[t].to \in Wallets /\ transfer[t].amount \in Nat
    BY <2>2, AmountsAreNaturals DEF TransferDoc
  <2>4. balance[m.to] + m.amount \in Nat
    BY <1>1, <2>1, <2>3
  <2>5. /\ transfer' = [transfer EXCEPT ![t].status = "COMPLETED"]
        /\ RecordCredit(transfer[t].to, "TRANSFER_IN", transfer[t].amount,
                        balance[m.to] + m.amount, t)
    BY <1>3, <2>1 DEF CompleteTransfer
  <2> HIDE DEF m, t
  <2> QED
    BY <2>1, <2>2, <2>3, <2>4, <2>5, EndResolves
<1>4. ASSUME NEW i \in Instances, NEW t \in TransferIds, SweepRefund(i, t)
      PROVE  ResolvedOnce'
  <2>1. Pending(t) /\ transfer[t] \in TransferDoc
    BY <1>1, <1>4 DEF SweepRefund, Pending, InStatus
  <2>2. transfer[t].from \in Wallets /\ transfer[t].amount \in Nat
    BY <2>1, AmountsAreNaturals DEF TransferDoc
  <2>3. balance[transfer[t].from] + transfer[t].amount \in Nat
    BY <1>1, <2>2
  <2>4. /\ transfer' = [transfer EXCEPT ![t].status = "FAILED"]
        /\ RecordCredit(transfer[t].from, "TRANSFER_IN", transfer[t].amount,
                        balance[transfer[t].from] + transfer[t].amount, t)
    BY <1>4 DEF SweepRefund
  <2> QED
    BY <2>1, <2>2, <2>3, <2>4, EndResolves
<1> QED
  BY <1>2, <1>3, <1>4, DepositResolves, TransferResolves, WritingSteps
  DEF CreateWallet, MarkPublished

\* The opening deposits are no legs.
LEMMA InitResolved == Init => ResolvedOnce
<1> SUFFICES ASSUME Init, NEW t \in TransferIds
             PROVE  LegsRight(ledger, transfer[t], t)
  BY ResolvedOnceLegs
<1>1. transfer[t] = None
  BY DEF Init, StoreInit
<1>2. ASSUME NEW w \in Wallets, NEW type PROVE LegsOf(ledger[w], t, type) = {}
  <2>1. ledger[w] = <<Opening>> \/ ledger[w] = <<>>
    BY DEF Init, StoreInit
  <2> QED
    BY <2>1, StoreAssumption DEF LegsOf, Opening
<1> QED
  BY <1>1, <1>2 DEF LegsRight, NoneIn

\* In every reachable state each transfer has taken its amount from its sender
\* once and, unless it is pending, paid its receiver or its sender once.
THEOREM EachResolvedOnce == Spec => []ResolvedOnce
<1>1. TypeOK /\ PayloadAgreement /\ ResolvedOnce /\ [Next]_vars => ResolvedOnce'
  BY NextResolves
<1> QED
  BY <1>1, InitResolved, TypeCorrect, PayloadsAgree, PTL DEF Spec

-----------------------------------------------------------------------------
(* The books.                                                               *)

Outside(p) == p.type \in {"DEPOSIT", "WITHDRAWAL"} /\ UNCHANGED transfer

\* Transfer t is stored, of money that leaves wallet w.
Departs(t, w, p) ==
  /\ transfer[t] = None /\ p.type = "TRANSFER_OUT"
  /\ \E d \in TransferDoc :
       /\ d.from = w /\ d.amount = p.amount /\ d.status = "PENDING"
       /\ Currency[d.from] = Currency[d.to]
       /\ transfer' = [transfer EXCEPT ![t] = d]

\* Pending transfer t ends, its money in wallet w.
Arrives(t, w, p) ==
  /\ Pending(t) /\ p.type = "TRANSFER_IN"
  /\ w \in {transfer[t].from, transfer[t].to} /\ p.amount = transfer[t].amount
  /\ \E s \in {"COMPLETED", "FAILED"} : transfer' = [transfer EXCEPT ![t].status = s]

\* Whatever moves money, posts it, and is a deposit, a withdrawal, the start of
\* a transfer within a currency or the end of one.
LEMMA MoneySteps ==
  ASSUME TypeOK, PayloadAgreement, [Next]_vars
  PROVE  \/ UNCHANGED <<balance, ledger, transfer>>
         \/ \E w \in Wallets, p \in Posting :
              /\ MoneyMoves(w, p) /\ Fits(p)
              /\ \/ Outside(p)
                 \/ \E t \in TransferIds : Departs(t, w, p) \/ Arrives(t, w, p)
<1> DEFINE Moves == \E w \in Wallets, p \in Posting :
              /\ MoneyMoves(w, p) /\ Fits(p)
              /\ \/ Outside(p)
                 \/ \E t \in TransferIds : Departs(t, w, p) \/ Arrives(t, w, p)
<1>1. /\ balance \in [Wallets -> Nat]
      /\ transfer \in [TransferIds -> TransferDoc \cup {None}]
  BY DEF TypeOK, StoreTypeOK
<1>2. ASSUME NEW w \in Wallets, NEW a \in Amounts, Deposit(w, a) PROVE Moves
  <2>1. a \in Nat /\ balance[w] + a \in Nat
    BY <1>1, AmountsAreNaturals
  <2>2. \E p \in Posting : MoneyMoves(w, p) /\ Fits(p) /\ p.type = "DEPOSIT" /\ p.amount = a
    BY <1>1, <1>2, <2>1, RecordMoves DEF Deposit, TransactionType
  <2>3. UNCHANGED transfer
    BY <1>2 DEF Deposit
  <2> QED BY <2>2, <2>3 DEF Outside
<1>3. ASSUME NEW w \in Wallets, NEW a \in Amounts, Withdraw(w, a) PROVE Moves
  <2>1. a \in Nat /\ balance[w] - a \in Nat
    BY <1>1, <1>3, AmountsAreNaturals DEF Withdraw
  <2>2. \E p \in Posting : MoneyMoves(w, p) /\ Fits(p) /\ p.type = "WITHDRAWAL" /\ p.amount = a
    BY <1>1, <1>3, <2>1, RecordMoves DEF Withdraw, TransactionType
  <2>3. UNCHANGED transfer
    BY <1>3 DEF Withdraw
  <2> QED BY <2>2, <2>3 DEF Outside
<1>4. ASSUME NEW t \in TransferIds, NEW from \in Wallets, NEW to \in Wallets,
             NEW a \in Amounts, NEW k \in Keys \cup {NoKey}, Transfer(t, from, to, a, k)
      PROVE  Moves
  <2>1. a \in Nat /\ balance[from] - a \in Nat
    BY <1>1, <1>4, AmountsAreNaturals DEF Transfer, TransferAllowed
  <2>2. PICK p \in Posting :
          MoneyMoves(from, p) /\ Fits(p) /\ p.type = "TRANSFER_OUT" /\ p.amount = a
    BY <1>1, <1>4, <2>1, RecordMoves DEF Transfer, TransactionType
  <2>3. PICK d : d = [from |-> from, to |-> to, amount |-> a, status |-> "PENDING", key |-> k]
    OBVIOUS
  <2>4. /\ d \in TransferDoc /\ d.from = from /\ d.amount = a /\ d.status = "PENDING"
        /\ d.to = to
    BY <2>3 DEF TransferDoc, TransferStatus
  <2>5. /\ transfer' = [transfer EXCEPT ![t] = d] /\ transfer[t] = None
        /\ Currency[from] = Currency[to]
    BY <1>4, <2>3 DEF Transfer, TransferAllowed
  <2>6. Departs(t, from, p)
    BY <2>2, <2>4, <2>5 DEF Departs
  <2> QED BY <2>2, <2>6
<1>5. ASSUME NEW h \in Handlers, CompleteTransfer(h) PROVE Moves
  <2>1. PICK m : m = handler[h].msg
    OBVIOUS
  <2>2. Names(m.transfer, m.to, m.amount)
    BY <1>5, <2>1, CompletedIsNamed
  <2>3. m.transfer \in TransferIds /\ m.to \in Wallets /\ m.amount \in Nat
    BY <1>1, <2>2, AmountsAreNaturals DEF Names, Exists, TransferDoc
  <2>4. balance[m.to] + m.amount \in Nat
    BY <1>1, <2>3
  <2>5. PICK p \in Posting :
          MoneyMoves(m.to, p) /\ Fits(p) /\ p.type = "TRANSFER_IN" /\ p.amount = m.amount
    BY <1>1, <1>5, <2>1, <2>3, <2>4, RecordMoves DEF CompleteTransfer, TransactionType
  <2>6. Pending(m.transfer) /\ transfer' = [transfer EXCEPT ![m.transfer].status = "COMPLETED"]
    BY <1>5, <2>1 DEF CompleteTransfer
  <2>7. Arrives(m.transfer, m.to, p)
    BY <2>2, <2>5, <2>6 DEF Arrives, Names
  <2> QED BY <2>3, <2>5, <2>7
<1>6. ASSUME NEW i \in Instances, NEW t \in TransferIds, SweepRefund(i, t)
      PROVE  Moves
  <2>1. transfer[t] \in TransferDoc
    BY <1>1, <1>6 DEF SweepRefund, Pending, InStatus
  <2>2. PICK w, a : w = transfer[t].from /\ a = transfer[t].amount
    OBVIOUS
  <2>3. w \in Wallets /\ a \in Nat
    BY <2>1, <2>2, AmountsAreNaturals DEF TransferDoc
  <2>4. balance[w] + a \in Nat
    BY <1>1, <2>3
  <2>5. PICK p \in Posting :
          MoneyMoves(w, p) /\ Fits(p) /\ p.type = "TRANSFER_IN" /\ p.amount = a
    BY <1>1, <1>6, <2>2, <2>3, <2>4, RecordMoves DEF SweepRefund, TransactionType
  <2>6. Arrives(t, w, p)
    BY <1>6, <2>2, <2>5 DEF Arrives, SweepRefund
  <2> QED BY <2>3, <2>5, <2>6
<1> QED
  BY <1>2, <1>3, <1>4, <1>5, <1>6, WritingSteps DEF CreateWallet, MarkPublished

\* BooksBalance says just this of each wallet.
LEMMA BooksBalances ==
  /\ BooksBalance <=> \A w \in Wallets : Balances(balance[w], ledger[w])
  /\ BooksBalance' <=> \A w \in Wallets : Balances(balance'[w], ledger'[w])
BY LedgerSums DEF BooksBalance, Consistent, Balances, TotalDeposited, TotalWithdrawn

\* Every step keeps the books balanced.
LEMMA NextBalances ==
  ASSUME TypeOK, PayloadAgreement, BooksBalance, [Next]_vars
  PROVE  BooksBalance'
<1>1. /\ balance \in [Wallets -> Nat]
      /\ ledger \in [Wallets -> Seq(Posting)]
  BY DEF TypeOK, StoreTypeOK
<1>2. ASSUME UNCHANGED <<balance, ledger>> PROVE BooksBalance'
  BY <1>2, BooksBalances
<1>3. ASSUME NEW w \in Wallets, NEW p \in Posting, MoneyMoves(w, p), Fits(p)
      PROVE  BooksBalance'
  BY <1>1, <1>3, MovesBalance, BooksBalances
<1> QED BY <1>2, <1>3, MoneySteps

\* In every reachable state each wallet reconciles: its balance is the credits
\* less the debits of its ledger, and the deposits and incoming transfers less
\* the withdrawals and outgoing ones of its dashboard.
THEOREM BooksAlwaysBalance == Spec => []BooksBalance
<1>1. Init => BooksBalance
  BY InitSums, BooksBalances DEF Init
<1>2. TypeOK /\ PayloadAgreement /\ BooksBalance /\ [Next]_vars => BooksBalance'
  BY NextBalances
<1> QED
  BY <1>1, <1>2, TypeCorrect, PayloadsAgree, PTL DEF Spec

-----------------------------------------------------------------------------
(* Money is neither made nor lost.                                          *)

\* What a wallet with postings s was given from outside.
Given(s) == SumOfTypes(s, {"DEPOSIT"}) - SumOfTypes(s, {"WITHDRAWAL"})

\* The totals of a currency, now and next.
LEMMA CurrencyTotals ==
  ASSUME NEW c
  PROVE  /\ InWallets(c)' = SumFunctionOnSet(balance', WalletsIn(c))
         /\ FromOutside(c) = SumFunction([w \in WalletsIn(c) |-> Given(ledger[w])])
         /\ FromOutside(c)' = SumFunction([w \in WalletsIn(c) |-> Given(ledger'[w])])
<1>1. \A w : SumOf(w, {"DEPOSIT"}) - SumOf(w, {"WITHDRAWAL"}) = Given(ledger[w])
  BY LedgerSums DEF Given
<1>2. \A w : SumOf(w, {"DEPOSIT"})' - SumOf(w, {"WITHDRAWAL"})' = Given(ledger'[w])
  BY LedgerSums DEF Given
<1>3. InWallets(c)' = SumFunctionOnSet(balance', WalletsIn(c))
  BY DEF InWallets, WalletsIn
<1>4. FromOutside(c) = SumFunction([w \in WalletsIn(c) |-> Given(ledger[w])])
  BY <1>1 DEF FromOutside
<1>5. FromOutside(c)' =
        SumFunction([w \in WalletsIn(c) |-> SumOf(w, {"DEPOSIT"})' - SumOf(w, {"WITHDRAWAL"})'])
  BY DEF FromOutside, WalletsIn
<1> QED BY <1>2, <1>3, <1>4, <1>5

\* A posting changes what came from outside if it is a deposit or withdrawal.
LEMMA GivenGrows ==
  ASSUME NEW s \in Seq(Posting), NEW p \in Posting, Fits(p)
  PROVE  /\ Given(s) \in Int /\ Signed(p) \in Int
         /\ Given(Append(s, p)) =
              Given(s) + (IF p.type \in {"DEPOSIT", "WITHDRAWAL"} THEN Signed(p) ELSE 0)
<1>1. PICK ins, outs : ins = {"DEPOSIT"} /\ outs = {"WITHDRAWAL"}
  OBVIOUS
<1>2. SumOfTypes(s, ins) \in Int /\ SumOfTypes(s, outs) \in Int
  BY SumsAreIntegers
<1>3. p.amount \in Nat
  BY DEF Posting
<1>4. \A types : SumOfTypes(Append(s, p), types) = SumOfTypes(s, types) + Share(p, types)
  BY PostingAdds
<1>5. SumOfTypes(Append(s, p), ins) = SumOfTypes(s, ins) + Share(p, ins)
  BY <1>4, Zenon
<1>6. SumOfTypes(Append(s, p), outs) = SumOfTypes(s, outs) + Share(p, outs)
  BY <1>4, Zenon
<1>7. /\ Given(s) = SumOfTypes(s, ins) - SumOfTypes(s, outs)
      /\ Given(Append(s, p)) = SumOfTypes(Append(s, p), ins) - SumOfTypes(Append(s, p), outs)
  BY <1>1 DEF Given
<1> QED BY <1>1, <1>2, <1>3, <1>5, <1>6, <1>7 DEF Fits, Signed, Share

\* Money that moves is of one currency.
LEMMA TotalsMove ==
  ASSUME TypeOK, NEW w \in Wallets, NEW p \in Posting, MoneyMoves(w, p), Fits(p), NEW c
  PROVE  /\ InWallets(c) \in Int /\ FromOutside(c) \in Int /\ Signed(p) \in Int
         /\ Currency[w] # c => UNCHANGED <<InWallets(c), FromOutside(c)>>
         /\ Currency[w] = c =>
              /\ InWallets(c)' = InWallets(c) + Signed(p)
              /\ FromOutside(c)' = FromOutside(c)
                   + (IF p.type \in {"DEPOSIT", "WITHDRAWAL"} THEN Signed(p) ELSE 0)
<1>1. /\ balance \in [Wallets -> Nat]
      /\ ledger \in [Wallets -> Seq(Posting)]
  BY DEF TypeOK, StoreTypeOK
<1>2. PICK W : W = WalletsIn(c)
  OBVIOUS
<1>3. W \subseteq Wallets /\ IsFiniteSet(W) /\ (w \in W <=> Currency[w] = c)
  BY <1>2, BooksAssumption, FS_Subset DEF WalletsIn
<1>4. PICK f, g : /\ f = [v \in W |-> Given(ledger[v])]
                  /\ g = [v \in W |-> Given(ledger'[v])]
  OBVIOUS
<1>5. /\ InWallets(c) = SumFunctionOnSet(balance, W)
      /\ InWallets(c)' = SumFunctionOnSet(balance', W)
      /\ FromOutside(c) = SumFunction(f) /\ FromOutside(c)' = SumFunction(g)
  BY <1>2, <1>4, CurrencyTotals DEF InWallets
<1>6. DOMAIN f = W /\ DOMAIN g = W
  BY <1>4
<1>7. \A v \in W : balance[v] \in Int /\ f[v] \in Int
  BY <1>1, <1>3, <1>4, GivenGrows
<1>8. \A v \in W : v # w => balance'[v] = balance[v] /\ g[v] = f[v]
  BY <1>1, <1>3, <1>4 DEF MoneyMoves
<1>9. InWallets(c) \in Int /\ FromOutside(c) \in Int /\ Signed(p) \in Int
  <2>1. SumFunctionOnSet(balance, W) \in Int
    BY <1>3, <1>7, SumInt
  <2>2. SumFunction(f) \in Int
    BY <1>3, <1>6, <1>7, WholeInt
  <2>3. Signed(p) \in Int
    BY DEF Posting, Signed
  <2> QED BY <1>5, <2>1, <2>2, <2>3
<1>10. CASE Currency[w] # c
  <2>1. SumFunctionOnSet(balance', W) = SumFunctionOnSet(balance, W)
    BY <1>3, <1>8, <1>10, SumSame
  <2>2. f = g
    BY <1>3, <1>4, <1>8, <1>10
  <2> QED BY <1>5, <1>9, <1>10, <2>1, <2>2
<1>11. CASE Currency[w] = c
  <2>1. w \in W
    BY <1>3, <1>11
  <2>2. /\ balance'[w] = balance[w] + Signed(p) /\ balance[w] \in Int
        /\ g[w] = Given(Append(ledger[w], p)) /\ f[w] = Given(ledger[w])
    BY <1>1, <1>4, <2>1 DEF MoneyMoves
  <2>3. PICK x : x = (IF p.type \in {"DEPOSIT", "WITHDRAWAL"} THEN Signed(p) ELSE 0)
    OBVIOUS
  <2>4. f[w] \in Int /\ x \in Int /\ g[w] = f[w] + x
    BY <1>1, <1>9, <2>2, <2>3, GivenGrows
  <2>5. balance'[w] \in Int /\ g[w] \in Int
    BY <1>9, <2>2, <2>4
  <2>6. SumFunctionOnSet(balance', W) = SumFunctionOnSet(balance, W) - balance[w] + balance'[w]
    BY <1>3, <1>7, <1>8, <2>1, <2>5, SumChange
  <2>7. SumFunction(g) = SumFunction(f) - f[w] + g[w]
    BY <1>3, <1>6, <1>7, <1>8, <2>1, <2>5, WholeChanges
  <2>8. InWallets(c)' = InWallets(c) + Signed(p)
    BY <1>5, <1>9, <2>2, <2>6
  <2>9. FromOutside(c)' = FromOutside(c) + x
    BY <1>5, <1>9, <2>4, <2>7
  <2> QED BY <1>9, <1>11, <2>3, <2>8, <2>9
<1> QED BY <1>10, <1>11

\* The money in flight, now and next, as sums of functions.
LEMMA FlightTotals ==
  ASSUME TypeOK, NEW c
  PROVE  /\ InFlight(c) = SumFunction([t \in PendingIn(c) |-> transfer[t].amount])
         /\ InFlight(c)' = SumFunction([t \in PendingIn(c)' |-> transfer'[t].amount])
         /\ IsFiniteSet(PendingIn(c))
         /\ \A t \in PendingIn(c) : t \in TransferIds /\ transfer[t].amount \in Nat
         /\ InFlight(c) \in Int
<1>1. transfer \in [TransferIds -> TransferDoc \cup {None}]
  BY DEF TypeOK, StoreTypeOK
<1>2. PendingIn(c) \subseteq TransferIds /\ IsFiniteSet(PendingIn(c))
  BY BooksAssumption, FS_Subset DEF PendingIn
<1>3. \A t \in PendingIn(c) : transfer[t] \in TransferDoc
  BY <1>1 DEF PendingIn, Pending, InStatus
<1>4. \A t \in PendingIn(c) : t \in TransferIds /\ transfer[t].amount \in Nat
  BY <1>2, <1>3, AmountsAreNaturals DEF TransferDoc
<1>5. PICK f : f = [t \in PendingIn(c) |-> transfer[t].amount]
  OBVIOUS
<1>6. DOMAIN f = PendingIn(c) /\ \A t \in PendingIn(c) : f[t] \in Int
  BY <1>4, <1>5
<1>7. SumFunction(f) \in Int
  BY <1>2, <1>6, WholeInt
<1> QED BY <1>2, <1>4, <1>5, <1>7 DEF InFlight

\* A transfer that is stored takes its money into flight, in its currency.
LEMMA DepartureFlies ==
  ASSUME TypeOK, NEW t \in TransferIds, NEW w \in Wallets, NEW p \in Posting, Departs(t, w, p), NEW c
  PROVE  InFlight(c)' = InFlight(c) + (IF Currency[w] = c THEN p.amount ELSE 0)
<1>1. transfer \in [TransferIds -> TransferDoc \cup {None}]
  BY DEF TypeOK, StoreTypeOK
<1>2. PICK d \in TransferDoc :
        /\ d.from = w /\ d.amount = p.amount /\ d.status = "PENDING"
        /\ transfer' = [transfer EXCEPT ![t] = d]
  BY DEF Departs
<1>3. PICK S, T : S = PendingIn(c) /\ T = PendingIn(c)'
  OBVIOUS
<1>4. PICK f, g : f = [u \in S |-> transfer[u].amount] /\ g = [u \in T |-> transfer'[u].amount]
  OBVIOUS
<1>5. /\ InFlight(c) = SumFunction(f) /\ InFlight(c)' = SumFunction(g)
      /\ IsFiniteSet(S) /\ \A u \in S : f[u] \in Int /\ u \in TransferIds
      /\ InFlight(c) \in Int /\ DOMAIN f = S /\ DOMAIN g = T /\ p.amount \in Int
  BY <1>3, <1>4, FlightTotals DEF Posting
<1>6. d # None /\ transfer'[t] = d /\ \A u \in TransferIds : u # t => transfer'[u] = transfer[u]
  BY <1>1, <1>2, NoneAssumption
<1>7. t \notin S
  BY <1>3 DEF Departs, PendingIn, Pending, InStatus
<1>8. \A u \in TransferIds : u # t => (u \in T <=> u \in S)
  BY <1>3, <1>6 DEF PendingIn, Pending, InStatus
<1>9. T \subseteq TransferIds /\ (t \in T <=> Currency[w] = c)
  BY <1>2, <1>3, <1>6 DEF PendingIn, Pending, InStatus
<1>10. \A u \in S : u \in T => g[u] = f[u]
  BY <1>4, <1>5, <1>6, <1>7
<1>11. CASE Currency[w] = c
  <2>1. T = S \union {t}
    BY <1>5, <1>7, <1>8, <1>9, <1>11
  <2>2. g[t] = p.amount
    BY <1>2, <1>4, <1>6, <2>1
  <2>3. SumFunction(g) = SumFunction(f) + g[t]
    BY <1>5, <1>7, <1>10, <2>1, <2>2, WholeGrows
  <2> QED BY <1>5, <1>11, <2>2, <2>3
<1>12. CASE Currency[w] # c
  <2>1. T = S
    BY <1>5, <1>7, <1>8, <1>9, <1>12
  <2>2. f = g
    BY <1>4, <1>10, <2>1
  <2> QED BY <1>5, <1>12, <2>2
<1> QED BY <1>11, <1>12

\* A transfer is between wallets of one currency.
OneCurrencyEach ==
  \A t \in TransferIds : Exists(t) => Currency[transfer[t].from] = Currency[transfer[t].to]

\* A transfer that ends takes its money out of flight, in its currency.
LEMMA ArrivalLands ==
  ASSUME TypeOK, OneCurrencyEach, NEW t \in TransferIds, NEW w \in Wallets, NEW p \in Posting,
         Arrives(t, w, p), NEW c
  PROVE  InFlight(c)' = InFlight(c) - (IF Currency[w] = c THEN p.amount ELSE 0)
<1>1. transfer \in [TransferIds -> TransferDoc \cup {None}]
  BY DEF TypeOK, StoreTypeOK
<1>2. PICK s \in {"COMPLETED", "FAILED"} : transfer' = [transfer EXCEPT ![t].status = s]
  BY DEF Arrives
<1>3. PICK S, T : S = PendingIn(c) /\ T = PendingIn(c)'
  OBVIOUS
<1>4. PICK f, g : f = [u \in S |-> transfer[u].amount] /\ g = [u \in T |-> transfer'[u].amount]
  OBVIOUS
<1>5. /\ InFlight(c) = SumFunction(f) /\ InFlight(c)' = SumFunction(g)
      /\ IsFiniteSet(S) /\ \A u \in S : f[u] \in Int /\ u \in TransferIds
      /\ InFlight(c) \in Int /\ DOMAIN f = S /\ DOMAIN g = T /\ p.amount \in Int
  BY <1>3, <1>4, FlightTotals DEF Posting
<1>6. transfer[t] \in TransferDoc /\ transfer[t].amount = p.amount
  BY <1>1 DEF Arrives, Pending, InStatus
<1>7. transfer'[t].status = s /\ \A u \in TransferIds : u # t => transfer'[u] = transfer[u]
  BY <1>1, <1>2, <1>6 DEF TransferDoc
<1>8. t \notin T
  BY <1>3, <1>7 DEF PendingIn, Pending, InStatus
<1>9. \A u \in TransferIds : u # t => (u \in T <=> u \in S)
  BY <1>3, <1>7 DEF PendingIn, Pending, InStatus
<1>10. t \in S <=> Currency[w] = c
  <2>1. Currency[transfer[t].from] = Currency[transfer[t].to]
    BY <1>6, NoneAssumption DEF OneCurrencyEach, Exists
  <2> QED BY <1>3, <2>1 DEF Arrives, PendingIn
<1>11. T \subseteq TransferIds
  BY <1>3 DEF PendingIn
<1>12. \A u \in T : g[u] = f[u] /\ f[u] \in Int
  BY <1>4, <1>5, <1>7, <1>8, <1>9, <1>11
<1>13. CASE Currency[w] = c
  <2>1. S = T \union {t} /\ IsFiniteSet(T)
    <3>1. S = T \union {t}
      BY <1>5, <1>8, <1>9, <1>10, <1>11, <1>13
    <3> QED BY <1>5, <3>1, FS_Subset
  <2>2. f[t] = p.amount
    BY <1>4, <1>6, <2>1
  <2>3. SumFunction(f) = SumFunction(g) + f[t]
    BY <1>5, <1>8, <1>12, <2>1, <2>2, WholeGrows
  <2>4. SumFunction(g) \in Int
    BY <1>5, <1>12, <2>1, WholeInt
  <2> QED BY <1>5, <1>13, <2>2, <2>3, <2>4
<1>14. CASE Currency[w] # c
  <2>1. S = T
    BY <1>5, <1>8, <1>9, <1>10, <1>11, <1>14
  <2>2. f = g
    BY <1>4, <1>12, <2>1
  <2> QED BY <1>5, <1>14, <2>2
<1> QED BY <1>13, <1>14

\* Both wallets of a transfer keep one currency.
LEMMA NextOneCurrency ==
  ASSUME TypeOK, PayloadAgreement, OneCurrencyEach, [Next]_vars
  PROVE  OneCurrencyEach'
<1>1. transfer \in [TransferIds -> TransferDoc \cup {None}]
  BY DEF TypeOK, StoreTypeOK
<1>2. CASE UNCHANGED transfer
  BY <1>2 DEF OneCurrencyEach, Exists
<1>3. ASSUME NEW t \in TransferIds, NEW w, NEW p, Departs(t, w, p)
      PROVE  OneCurrencyEach'
  BY <1>1, <1>3 DEF Departs, OneCurrencyEach, Exists
<1>4. ASSUME NEW t \in TransferIds, NEW w, NEW p, Arrives(t, w, p)
      PROVE  OneCurrencyEach'
  <2>1. \A u \in TransferIds : Exists(u) =>
          /\ transfer'[u] # None
          /\ transfer'[u].from = transfer[u].from
          /\ transfer'[u].to = transfer[u].to
    BY TermsAreFixed
  <2>2. \A u \in TransferIds : transfer[u] = None => transfer'[u] = None
    BY <1>1, <1>4 DEF Arrives, Pending, InStatus
  <2> QED BY <2>1, <2>2 DEF OneCurrencyEach, Exists
<1> QED BY <1>2, <1>3, <1>4, MoneySteps DEF Outside

Conserved(c) == InWallets(c) + InFlight(c) = FromOutside(c)

\* Every step conserves the money of every currency.
LEMMA NextConserved ==
  ASSUME TypeOK, PayloadAgreement, OneCurrencyEach, [Next]_vars, NEW c, Conserved(c)
  PROVE  Conserved(c)'
<1>1. InFlight(c) \in Int
  BY FlightTotals
<1>2. CASE UNCHANGED <<balance, ledger, transfer>>
  <2>1. InWallets(c)' = InWallets(c) /\ FromOutside(c)' = FromOutside(c)
    BY <1>2, CurrencyTotals DEF InWallets
  <2>2. PendingIn(c)' = PendingIn(c)
    BY <1>2 DEF PendingIn, Pending, InStatus
  <2>3. InFlight(c)' = InFlight(c)
    BY <1>2, <2>2, FlightTotals
  <2> QED BY <2>1, <2>3 DEF Conserved
<1>3. ASSUME NEW w \in Wallets, NEW p \in Posting, MoneyMoves(w, p), Fits(p)
      PROVE  /\ Outside(p) => Conserved(c)'
             /\ \A t \in TransferIds : Departs(t, w, p) \/ Arrives(t, w, p) => Conserved(c)'
  <2>1. /\ InWallets(c) \in Int /\ FromOutside(c) \in Int /\ Signed(p) \in Int
        /\ Currency[w] # c =>
             InWallets(c)' = InWallets(c) /\ FromOutside(c)' = FromOutside(c)
        /\ Currency[w] = c =>
             /\ InWallets(c)' = InWallets(c) + Signed(p)
             /\ FromOutside(c)' = FromOutside(c)
                  + (IF p.type \in {"DEPOSIT", "WITHDRAWAL"} THEN Signed(p) ELSE 0)
    BY <1>3, TotalsMove
  <2>2. p.amount \in Nat
    BY DEF Posting
  <2>3. ASSUME Outside(p) PROVE Conserved(c)'
    <3>1. InFlight(c)' = InFlight(c)
      BY <2>3, FlightTotals DEF Outside, PendingIn, Pending, InStatus
    <3> QED BY <1>1, <2>1, <2>3, <3>1 DEF Outside, Conserved
  <2>4. ASSUME NEW t \in TransferIds, Departs(t, w, p) PROVE Conserved(c)'
    <3>1. InFlight(c)' = InFlight(c) + (IF Currency[w] = c THEN p.amount ELSE 0)
      BY <2>4, DepartureFlies
    <3>2. p.type = "TRANSFER_OUT" /\ Signed(p) = -p.amount
      BY <1>3, <2>2, <2>4 DEF Departs, Fits, Signed
    <3> QED BY <1>1, <2>1, <2>2, <3>1, <3>2 DEF Conserved
  <2>5. ASSUME NEW t \in TransferIds, Arrives(t, w, p) PROVE Conserved(c)'
    <3>1. InFlight(c)' = InFlight(c) - (IF Currency[w] = c THEN p.amount ELSE 0)
      BY <2>5, ArrivalLands
    <3>2. p.type = "TRANSFER_IN" /\ Signed(p) = p.amount
      BY <1>3, <2>2, <2>5 DEF Arrives, Fits, Signed
    <3> QED BY <1>1, <2>1, <2>2, <3>1, <3>2 DEF Conserved
  <2> QED BY <2>3, <2>4, <2>5
<1> QED BY <1>2, <1>3, MoneySteps

\* At the start nothing is in flight, and every balance came from outside.
LEMMA InitConserved ==
  ASSUME Init, NEW c
  PROVE  Conserved(c)
<1>1. PICK W : W = WalletsIn(c)
  OBVIOUS
<1>2. W \subseteq Wallets /\ IsFiniteSet(W)
  BY <1>1, BooksAssumption, FS_Subset DEF WalletsIn
<1>3. PICK f : f = [w \in W |-> Given(ledger[w])]
  OBVIOUS
<1>4. \A w \in W : f[w] = balance[w] /\ balance[w] \in Int
  BY <1>2, <1>3, InitSums DEF Given, Init
<1>5. FromOutside(c) = InWallets(c)
  <2>1. SumFunctionOnSet(f, W) = SumFunctionOnSet(balance, W)
    BY <1>2, <1>4, SumSame
  <2>2. FromOutside(c) = SumFunction(f) /\ DOMAIN f = W
    BY <1>1, <1>3, CurrencyTotals
  <2> QED BY <1>1, <2>1, <2>2 DEF SumFunction, InWallets
<1>6. InFlight(c) = 0
  <2>1. PendingIn(c) = {}
    BY DEF Init, StoreInit, PendingIn, Pending, InStatus
  <2>2. PICK g : g = [t \in PendingIn(c) |-> transfer[t].amount]
    OBVIOUS
  <2>3. DOMAIN g = {}
    BY <2>1, <2>2
  <2> QED BY <2>2, <2>3, WholeEmpty DEF InFlight
<1>7. InWallets(c) \in Int
  BY <1>1, <1>2, <1>4, SumInt DEF InWallets
<1> QED BY <1>5, <1>6, <1>7 DEF Conserved

\* The inductive invariant: conservation needs to know that the wallet that is
\* paid has the currency of the one that paid.
AllConserved == OneCurrencyEach /\ \A c \in {Currency[w] : w \in Wallets} : Conserved(c)

\* In every reachable state, and in each currency, the money in wallets and in
\* flight is what came from outside: no interleaving of requests, credits and
\* refunds makes money, loses it or changes its currency.
THEOREM MoneyIsConserved == Spec => []MoneyConserved
<1>1. Init => AllConserved
  <2>1. Init => OneCurrencyEach
    BY DEF Init, StoreInit, OneCurrencyEach, Exists
  <2> QED BY <2>1, InitConserved DEF AllConserved
<1>2. TypeOK /\ PayloadAgreement /\ AllConserved /\ [Next]_vars => AllConserved'
  BY NextOneCurrency, NextConserved DEF AllConserved
<1>3. AllConserved => MoneyConserved
  BY DEF AllConserved, MoneyConserved, Conserved
<1> QED
  BY <1>1, <1>2, <1>3, TypeCorrect, PayloadsAgree, PTL DEF Spec

=============================================================================
