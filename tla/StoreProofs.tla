----------------------------- MODULE StoreProofs ----------------------------
(***************************************************************************)
(* What the writes of the store keep true of the types of its documents.   *)
(***************************************************************************)
EXTENDS Store, SequenceTheorems, SumTheorems

\* A balance that is set to a natural number keeps every balance natural.
LEMMA SetBalanceType ==
  ASSUME balance \in [Wallets -> Nat], NEW w \in Wallets, NEW b \in Nat,
         SetBalance(w, b)
  PROVE  balance' \in [Wallets -> Nat]
BY DEF SetBalance

\* A cached balance is a natural number, whichever wallets are observed.
LEMMA SetCachedType ==
  ASSUME cache \in [CachedWallets -> Nat \cup {Miss}], NEW w \in Wallets,
         NEW b \in Nat, SetCachedBalance(w, b)
  PROVE  cache' \in [CachedWallets -> Nat \cup {Miss}]
BY DEF SetCachedBalance

\* recordDebit and recordCredit append a posting to one wallet's postings.
LEMMA RecordType ==
  ASSUME ledger \in [Wallets -> Seq(Posting)], NEW w \in Wallets,
         NEW type \in TransactionType, NEW amount \in Nat, NEW after \in Nat,
         NEW t \in TransferIds \cup {None},
         \/ RecordDebit(w, type, amount, after, t)
         \/ RecordCredit(w, type, amount, after, t)
  PROVE  ledger' \in [Wallets -> Seq(Posting)]
<1> DEFINE posting(d) == [type |-> type, direction |-> d, amount |-> amount,
                          balanceAfter |-> after, transfer |-> t]
<1>1. PICK d \in LedgerEntryDirection :
        ledger' = [ledger EXCEPT ![w] = Append(ledger[w], posting(d))]
  BY DEF RecordDebit, RecordCredit, LedgerEntryDirection
<1>2. posting(d) \in Posting
  BY DEF Posting
<1>3. Append(ledger[w], posting(d)) \in Seq(Posting)
  BY <1>2, AppendProperties
<1> HIDE DEF posting
<1> QED
  BY <1>1, <1>3

\* enqueue appends an event, within the bound on events.
LEMMA EnqueueType ==
  ASSUME outbox \in Seq(OutboxEvent), OutboxRoom, MaxEvents \in Nat,
         NEW key \in RoutingKey, NEW t \in TransferIds \cup {None},
         NEW w \in Wallets, NEW amount \in Nat, Enqueue(key, t, w, amount)
  PROVE  /\ outbox' \in Seq(OutboxEvent)
         /\ Len(outbox') <= MaxEvents
<1> DEFINE event == [routingKey |-> key, transfer |-> t, wallet |-> w,
                     amount |-> amount, status |-> "PENDING"]
<1>1. event \in OutboxEvent
  BY DEF OutboxEvent, OutboxStatus
<1>2. outbox' = Append(outbox, event)
  BY DEF Enqueue
<1>3. Len(outbox) \in Nat /\ Len(outbox) < MaxEvents
  BY LenProperties DEF OutboxRoom
<1> HIDE DEF event
<1> QED
  BY <1>1, <1>2, <1>3, AppendProperties

\* The initial store has the documents' types.
LEMMA StoreInitType == StoreInit => StoreTypeOK
<1> SUFFICES ASSUME StoreInit PROVE StoreTypeOK
  OBVIOUS
<1> USE StoreAssumption DEF StoreInit
<1>1. created \subseteq Wallets /\ balance \in [Wallets -> Nat]
  OBVIOUS
<1>2. transfer \in [TransferIds -> TransferDoc \cup {None}]
  OBVIOUS
<1>3. ledger \in [Wallets -> Seq(Posting)]
  <2>1. Opening \in Posting
    BY DEF Opening, Posting, TransactionType, LedgerEntryDirection
  <2>2. <<Opening>> \in Seq(Posting) /\ <<>> \in Seq(Posting)
    BY <2>1, EmptySeq
  <2> QED
    BY <2>2
<1>4. outbox \in Seq(OutboxEvent) /\ Len(outbox) <= MaxEvents
  BY EmptySeq
<1>5. cache \in [CachedWallets -> Nat \cup {Miss}]
  OBVIOUS
<1> QED
  BY <1>1, <1>2, <1>3, <1>4, <1>5 DEF StoreTypeOK

\* The amounts and balances a request computes are natural numbers.
LEMMA AmountsAreNaturals == Amounts \subseteq Nat /\ MaxEvents \in Nat
BY StoreAssumption

-----------------------------------------------------------------------------
(* Postings.                                                                *)

\* What RecordDebit and RecordCredit append.
PostingOf(type, direction, a, after, t) ==
  [type |-> type, direction |-> direction, amount |-> a, balanceAfter |-> after,
   transfer |-> t]

\* It is a posting.
LEMMA PostingOfType ==
  ASSUME NEW type \in TransactionType, NEW direction \in LedgerEntryDirection,
         NEW a \in Nat, NEW after \in Nat, NEW t \in TransferIds \cup {None}
  PROVE  /\ PostingOf(type, direction, a, after, t) \in Posting
         /\ PostingOf(type, direction, a, after, t).transfer = t
         /\ PostingOf(type, direction, a, after, t).type = type
         /\ PostingOf(type, direction, a, after, t).amount = a
BY DEF PostingOf, Posting

\* The postings of a sequence that are legs of transfer t.
LegsOf(s, t, type) == {n \in DOMAIN s : s[n].transfer = t /\ s[n].type = type}

\* There is exactly one, of amount a.
SingleLeg(s, t, type, a) ==
  \E n \in DOMAIN s : LegsOf(s, t, type) = {n} /\ s[n].amount = a

\* Appending a posting leaves the legs alone that it is not, and makes the
\* first leg of its transfer and type the single one.
LEMMA AppendLegs ==
  ASSUME NEW s \in Seq(Posting), NEW p \in Posting
  PROVE  /\ \A t, type : ~(p.transfer = t /\ p.type = type) =>
              /\ LegsOf(Append(s, p), t, type) = LegsOf(s, t, type)
              /\ \A a : SingleLeg(s, t, type, a) => SingleLeg(Append(s, p), t, type, a)
         /\ LegsOf(s, p.transfer, p.type) = {} =>
              SingleLeg(Append(s, p), p.transfer, p.type, p.amount)
<1> DEFINE len == Len(s)
           s2 == Append(s, p)
<1>1. len \in Nat /\ DOMAIN s = 1..len
  BY LenProperties
<1>2. /\ s2 \in Seq(Posting)
      /\ Len(s2) = len + 1
      /\ \A n \in 1..len : s2[n] = s[n]
      /\ s2[len + 1] = p
  BY AppendProperties
<1>3. DOMAIN s2 = 1..(len + 1)
  BY <1>2, LenProperties
<1> HIDE DEF s2, len
<1>4. \A n : n \in DOMAIN s2 <=> n \in DOMAIN s \/ n = len + 1
  BY <1>1, <1>3
<1>5. len + 1 \notin DOMAIN s
  BY <1>1
<1>6. ASSUME NEW t, NEW type, ~(p.transfer = t /\ p.type = type)
      PROVE  LegsOf(s2, t, type) = LegsOf(s, t, type)
  BY <1>1, <1>2, <1>4, <1>6 DEF LegsOf
<1>7. ASSUME NEW t, NEW type, ~(p.transfer = t /\ p.type = type), NEW a,
             SingleLeg(s, t, type, a)
      PROVE  SingleLeg(s2, t, type, a)
  BY <1>1, <1>2, <1>4, <1>6, <1>7 DEF SingleLeg
<1>8. ASSUME LegsOf(s, p.transfer, p.type) = {}
      PROVE  SingleLeg(s2, p.transfer, p.type, p.amount)
  <2>1. LegsOf(s2, p.transfer, p.type) = {len + 1}
    BY <1>1, <1>2, <1>4, <1>8 DEF LegsOf
  <2> QED
    BY <1>2, <1>4, <2>1 DEF SingleLeg
<1> QED
  BY <1>6, <1>7, <1>8 DEF s2

\* None in the wallets W of books L.
NoneIn(L, W, t, type) == \A w \in W : LegsOf(L[w], t, type) = {}

-----------------------------------------------------------------------------
(* Sums of postings.                                                        *)

\* Net and SumOf of a wallet with postings s.
NetOf(s) == SumFunction([n \in DOMAIN s |-> Signed(s[n])])
SumOfTypes(s, types) ==
  SumFunction([n \in {m \in DOMAIN s : s[m].type \in types} |-> s[n].amount])

\* The positions of a sequence of postings are finitely many, and what they
\* hold can be summed up.
LEMMA PostingTerms ==
  ASSUME NEW s \in Seq(Posting)
  PROVE  /\ IsFiniteSet(DOMAIN s)
         /\ \A n \in DOMAIN s : s[n].amount \in Nat /\ Signed(s[n]) \in Int
<1>1. Len(s) \in Nat /\ DOMAIN s = 1..Len(s)
  BY LenProperties
<1>2. \A n \in DOMAIN s : s[n] \in Posting
  BY <1>1, ElementOfSeq
<1>3. \A p \in Posting : p.amount \in Nat
  BY DEF Posting
<1>4. \A p \in Posting : Signed(p) \in Int
  BY <1>3 DEF Signed
<1> QED BY <1>1, <1>2, <1>3, <1>4, FS_Interval

\* They are integers.
LEMMA SumsAreIntegers ==
  ASSUME NEW s \in Seq(Posting)
  PROVE  NetOf(s) \in Int /\ \A types : SumOfTypes(s, types) \in Int
<1>1. NetOf(s) \in Int
  BY PostingTerms, WholeInt DEF NetOf
<1>2. ASSUME NEW types
      PROVE  SumOfTypes(s, types) \in Int
  <2>1. PICK S : S = {m \in DOMAIN s : s[m].type \in types}
    OBVIOUS
  <2>2. IsFiniteSet(S) /\ \A n \in S : s[n].amount \in Int
    BY <2>1, PostingTerms, FS_Subset
  <2> QED BY <2>1, <2>2, WholeInt DEF SumOfTypes
<1> QED BY <1>1, <1>2

\* What posting p adds to the sum of these types.
Share(p, types) == IF p.type \in types THEN p.amount ELSE 0

\* A posting adds itself to the sums it counts in.
LEMMA PostingAdds ==
  ASSUME NEW s \in Seq(Posting), NEW p \in Posting
  PROVE  /\ NetOf(Append(s, p)) = NetOf(s) + Signed(p)
         /\ \A types : SumOfTypes(Append(s, p), types) =
                         SumOfTypes(s, types) + Share(p, types)
<1>1. PICK s2, k : s2 = Append(s, p) /\ k = Len(s) + 1
  OBVIOUS
<1>2. /\ s2 \in Seq(Posting) /\ DOMAIN s2 = DOMAIN s \union {k} /\ k \notin DOMAIN s
      /\ s2[k] = p /\ \A n \in DOMAIN s : s2[n] = s[n]
  <2>1. Len(s) \in Nat /\ DOMAIN s = 1..Len(s)
    BY LenProperties
  <2>2. /\ s2 \in Seq(Posting) /\ Len(s2) = Len(s) + 1
        /\ \A n \in 1..Len(s) : s2[n] = s[n]
        /\ s2[Len(s) + 1] = p
    BY <1>1, AppendProperties
  <2>3. DOMAIN s2 = 1..(Len(s) + 1)
    BY <2>2, LenProperties
  <2> QED BY <1>1, <2>1, <2>2, <2>3
<1>3. /\ IsFiniteSet(DOMAIN s) /\ Signed(p) \in Int /\ p.amount \in Int
      /\ \A n \in DOMAIN s : s[n].amount \in Int /\ Signed(s[n]) \in Int
  <2>1. \A n \in DOMAIN s2 : s2[n].amount \in Nat /\ Signed(s2[n]) \in Int
    BY <1>2, PostingTerms
  <2> QED BY <1>2, <2>1, PostingTerms
<1>4. NetOf(s2) = NetOf(s) + Signed(p)
  <2>1. PICK f, g : f = [n \in DOMAIN s |-> Signed(s[n])] /\ g = [n \in DOMAIN s2 |-> Signed(s2[n])]
    OBVIOUS
  <2>2. /\ DOMAIN f = DOMAIN s /\ DOMAIN g = DOMAIN f \union {k} /\ g[k] = Signed(p)
        /\ \A n \in DOMAIN f : f[n] \in Int /\ g[n] = f[n]
    BY <1>2, <1>3, <2>1
  <2>3. SumFunction(g) = SumFunction(f) + g[k]
    BY <1>2, <1>3, <2>2, WholeGrows
  <2> QED BY <2>1, <2>2, <2>3 DEF NetOf
<1>5. ASSUME NEW types
      PROVE  SumOfTypes(s2, types) =
               SumOfTypes(s, types) + Share(p, types)
  <2>1. PICK S, T : /\ S = {m \in DOMAIN s : s[m].type \in types}
                    /\ T = {m \in DOMAIN s2 : s2[m].type \in types}
    OBVIOUS
  <2>2. PICK f, g : f = [n \in S |-> s[n].amount] /\ g = [n \in T |-> s2[n].amount]
    OBVIOUS
  <2>3. SumFunction(f) = SumOfTypes(s, types) /\ SumFunction(g) = SumOfTypes(s2, types)
    BY <2>1, <2>2 DEF SumOfTypes
  <2>4. DOMAIN f = S /\ DOMAIN g = T
    BY <2>2
  <2>5. CASE p.type \in types
    <3>1. k \notin S /\ T = S \union {k} /\ IsFiniteSet(S)
      BY <1>2, <1>3, <2>1, <2>5, FS_Subset
    <3>2. g[k] = p.amount /\ \A n \in S : f[n] \in Int /\ g[n] = f[n]
      BY <1>2, <1>3, <2>1, <2>2, <3>1
    <3>3. SumFunction(g) = SumFunction(f) + g[k]
      BY <1>3, <2>4, <3>1, <3>2, WholeGrows
    <3> QED BY <2>3, <2>5, <3>2, <3>3 DEF Share
  <2>6. CASE p.type \notin types
    <3>1. T = S
      BY <1>2, <2>1, <2>6
    <3>2. f = g
      BY <1>2, <2>1, <2>2, <3>1
    <3>3. SumOfTypes(s, types) \in Int
      BY SumsAreIntegers
    <3> QED BY <2>3, <2>6, <3>2, <3>3 DEF Share
  <2> QED BY <2>5, <2>6
<1> QED BY <1>1, <1>4, <1>5

\* Nothing was posted yet.
LEMMA NoPostings == NetOf(<<>>) = 0 /\ \A types : SumOfTypes(<<>>, types) = 0
<1>1. DOMAIN <<>> = {}
  OBVIOUS
<1>2. NetOf(<<>>) = 0
  BY <1>1, WholeEmpty DEF NetOf
<1>3. ASSUME NEW types
      PROVE  SumOfTypes(<<>>, types) = 0
  BY <1>1, WholeEmpty DEF SumOfTypes
<1> QED BY <1>2, <1>3

\* The sums of module Store, of a wallet's postings now and next.
LEMMA LedgerSums ==
  \A w : /\ Net(w) = NetOf(ledger[w]) /\ Net(w)' = NetOf(ledger'[w])
         /\ \A types : /\ SumOf(w, types) = SumOfTypes(ledger[w], types)
                       /\ SumOf(w, types)' = SumOfTypes(ledger'[w], types)
BY DEF Net, NetOf, SumOf, SumOfTypes, Signed

\* A posting is appended to wallet w's and its balance follows.
MoneyMoves(w, p) ==
  /\ ledger' = [ledger EXCEPT ![w] = Append(ledger[w], p)]
  /\ balance' = [balance EXCEPT ![w] = balance[w] + Signed(p)]

Fits(p) ==
  \/ p.type \in {"DEPOSIT", "TRANSFER_IN"} /\ p.direction = "CREDIT"
  \/ p.type \in {"WITHDRAWAL", "TRANSFER_OUT"} /\ p.direction = "DEBIT"

\* RecordDebit and RecordCredit move money.
LEMMA RecordMoves ==
  ASSUME balance \in [Wallets -> Nat], NEW w \in Wallets,
         NEW type \in TransactionType, NEW a \in Nat, NEW after \in Nat,
         NEW t \in TransferIds \cup {None}, SetBalance(w, after),
         \/ /\ RecordDebit(w, type, a, after, t) /\ after = balance[w] - a
            /\ type \in {"WITHDRAWAL", "TRANSFER_OUT"}
         \/ /\ RecordCredit(w, type, a, after, t) /\ after = balance[w] + a
            /\ type \in {"DEPOSIT", "TRANSFER_IN"}
  PROVE  \E p \in Posting : MoneyMoves(w, p) /\ Fits(p) /\ p.type = type /\ p.amount = a
<1>1. balance[w] \in Nat
  OBVIOUS
<1>2. CASE /\ RecordDebit(w, type, a, after, t) /\ after = balance[w] - a
           /\ type \in {"WITHDRAWAL", "TRANSFER_OUT"}
  <2>1. PICK p : p = PostingOf(type, "DEBIT", a, after, t)
    OBVIOUS
  <2>2. p \in Posting /\ p.type = type /\ p.amount = a /\ p.direction = "DEBIT"
    BY <2>1 DEF PostingOf, Posting, LedgerEntryDirection
  <2>3. ledger' = [ledger EXCEPT ![w] = Append(ledger[w], p)]
    BY <1>2, <2>1 DEF RecordDebit, PostingOf
  <2>4. balance[w] + Signed(p) = after
    BY <1>1, <1>2, <2>2 DEF Signed
  <2> QED BY <1>2, <2>2, <2>3, <2>4 DEF MoneyMoves, Fits, SetBalance
<1>3. CASE /\ RecordCredit(w, type, a, after, t) /\ after = balance[w] + a
           /\ type \in {"DEPOSIT", "TRANSFER_IN"}
  <2>1. PICK p : p = PostingOf(type, "CREDIT", a, after, t)
    OBVIOUS
  <2>2. p \in Posting /\ p.type = type /\ p.amount = a /\ p.direction = "CREDIT"
    BY <2>1 DEF PostingOf, Posting, LedgerEntryDirection
  <2>3. ledger' = [ledger EXCEPT ![w] = Append(ledger[w], p)]
    BY <1>3, <2>1 DEF RecordCredit, PostingOf
  <2>4. balance[w] + Signed(p) = after
    BY <1>1, <1>3, <2>2 DEF Signed
  <2> QED BY <1>3, <2>2, <2>3, <2>4 DEF MoneyMoves, Fits, SetBalance
<1> QED BY <1>2, <1>3

\* A wallet with balance b and postings s reconciles, and its totals agree.
Balances(b, s) ==
  /\ b = NetOf(s)
  /\ b = SumOfTypes(s, {"DEPOSIT", "TRANSFER_IN"}) - SumOfTypes(s, {"WITHDRAWAL", "TRANSFER_OUT"})

\* A posting whose direction fits its type keeps the books balanced.
LEMMA PostingBalances ==
  ASSUME NEW s \in Seq(Posting), NEW p \in Posting, Fits(p), NEW b, Balances(b, s)
  PROVE  Balances(b + Signed(p), Append(s, p))
<1>1. PICK ins, outs : /\ ins = {"DEPOSIT", "TRANSFER_IN"}
                       /\ outs = {"WITHDRAWAL", "TRANSFER_OUT"}
  OBVIOUS
<1>2. /\ b = NetOf(s) /\ b = SumOfTypes(s, ins) - SumOfTypes(s, outs)
      /\ SumOfTypes(s, ins) \in Int /\ SumOfTypes(s, outs) \in Int
  BY <1>1, SumsAreIntegers DEF Balances
<1>3. p.amount \in Nat
  BY DEF Posting
<1>4. /\ NetOf(Append(s, p)) = NetOf(s) + Signed(p)
      /\ \A types : SumOfTypes(Append(s, p), types) =
                      SumOfTypes(s, types) + Share(p, types)
  BY PostingAdds
<1>5. SumOfTypes(Append(s, p), ins) = SumOfTypes(s, ins) + Share(p, ins)
  BY <1>4, Zenon
<1>6. SumOfTypes(Append(s, p), outs) = SumOfTypes(s, outs) + Share(p, outs)
  BY <1>4, Zenon
<1>7. Share(p, ins) \in Int /\ Share(p, outs) \in Int /\ Signed(p) = Share(p, ins) - Share(p, outs)
  BY <1>1, <1>3 DEF Fits, Signed, Share
<1>8. b + Signed(p) = SumOfTypes(Append(s, p), ins) - SumOfTypes(Append(s, p), outs)
  BY <1>2, <1>5, <1>6, <1>7
<1> QED BY <1>1, <1>2, <1>4, <1>8 DEF Balances

\* A step that moves money keeps every wallet's.
LEMMA MovesBalance ==
  ASSUME balance \in [Wallets -> Nat], ledger \in [Wallets -> Seq(Posting)],
         \A v \in Wallets : Balances(balance[v], ledger[v]),
         NEW w \in Wallets, NEW p \in Posting, MoneyMoves(w, p), Fits(p)
  PROVE  \A v \in Wallets : Balances(balance'[v], ledger'[v])
<1>1. SUFFICES ASSUME NEW v \in Wallets PROVE Balances(balance'[v], ledger'[v])
  OBVIOUS
<1>2. Balances(balance[v], ledger[v]) /\ ledger[v] \in Seq(Posting)
  OBVIOUS
<1>3. CASE v # w
  BY <1>2, <1>3 DEF MoneyMoves
<1>4. CASE v = w
  <2>1. balance'[v] = balance[v] + Signed(p) /\ ledger'[v] = Append(ledger[v], p)
    BY <1>4 DEF MoneyMoves
  <2> QED BY <1>2, <2>1, PostingBalances
<1> QED BY <1>3, <1>4

\* A wallet starts with nothing, or with what was deposited at its opening.
LEMMA InitSums ==
  ASSUME StoreInit, NEW w \in Wallets
  PROVE  /\ Balances(balance[w], ledger[w])
         /\ SumOfTypes(ledger[w], {"DEPOSIT"}) = balance[w]
         /\ SumOfTypes(ledger[w], {"WITHDRAWAL"}) = 0
         /\ balance[w] \in Nat
<1>1. CASE w \in Opened
  <2>1. PICK e : e = <<>>
    OBVIOUS
  <2>2. ledger[w] = Append(e, Opening) /\ balance[w] = OpeningBalance
    BY <1>1, <2>1 DEF StoreInit
  <2>3. e \in Seq(Posting) /\ Opening \in Posting
    BY <2>1, StoreAssumption DEF Opening, Posting, TransactionType, LedgerEntryDirection
  <2>4. /\ Opening.type = "DEPOSIT" /\ Opening.amount = OpeningBalance /\ OpeningBalance \in Nat
        /\ Signed(Opening) = OpeningBalance
    BY StoreAssumption DEF Opening, Signed
  <2>5. NetOf(e) = 0 /\ \A types : SumOfTypes(e, types) = 0
    BY <2>1, NoPostings
  <2>6. /\ NetOf(Append(e, Opening)) = NetOf(e) + Signed(Opening)
        /\ \A types : SumOfTypes(Append(e, Opening), types) =
                        SumOfTypes(e, types) + Share(Opening, types)
    BY <2>3, PostingAdds
  <2>7. /\ NetOf(ledger[w]) = 0 + Signed(Opening)
        /\ \A types : SumOfTypes(ledger[w], types) =
                        0 + Share(Opening, types)
    BY <2>2, <2>5, <2>6
  <2> QED BY <2>2, <2>4, <2>7 DEF Balances, Share
<1>2. CASE w \notin Opened
  <2>1. ledger[w] = <<>> /\ balance[w] = 0
    BY <1>2 DEF StoreInit
  <2> QED BY <2>1, NoPostings DEF Balances
<1> QED BY <1>1, <1>2

=============================================================================
