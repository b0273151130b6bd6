--------------------------- MODULE PlatformProofs ---------------------------
(***************************************************************************)
(* The platform, for every value of its constants: its types are right,    *)
(* what a step does to the money is what the message, or the list of stale *)
(* ids, says, and the documents keep the promise of module Bank.  Then     *)
(* what the queue and the inbox guarantee: a claimed messageId is of a     *)
(* transfer that has ended, and an event that is marked published and      *)
(* whose transfer is pending is still in the broker's hands.               *)
(***************************************************************************)
EXTENDS Platform, StoreProofs

\* The initial state has its type.
LEMMA InitType == Init => TypeOK
<1> SUFFICES ASSUME Init PROVE TypeOK
  OBVIOUS
<1>1. StoreTypeOK
  BY StoreInitType DEF Init
<1>2. BrokerTypeOK
  <2>1. DOMAIN Foreign = 1..Len(Foreign) /\ Len(Foreign) \in Nat
    BY BrokerAssumption, LenProperties
  <2>2. ASSUME NEW n \in DOMAIN Foreign PROVE ForeignMessage(n) \in Message
    <3>1. n \in MessageId
      BY <2>1, BrokerAssumption DEF MessageId
    <3>2. Foreign[n] \in MessageKind
      BY <2>1, BrokerAssumption, ElementOfSeq
    <3> QED
      BY <3>1, <3>2 DEF ForeignMessage, Message
  <2> QED
    BY <2>1, <2>2, BrokerAssumption DEF Init, BrokerInit, BrokerTypeOK
<1>3. RelayTypeOK
  BY DEF Init, RelayInit, RelayTypeOK, RelayState, IdleRelay
<1>4. ConsumerTypeOK /\ SweepTypeOK
  BY DEF Init, ConsumerInit, SweepInit, ConsumerTypeOK, SweepTypeOK
<1>5. up \subseteq Instances /\ faults \in 0..MaxFaults
  BY PlatformAssumption DEF Init
<1> QED
  BY <1>1, <1>2, <1>3, <1>4, <1>5 DEF TypeOK

-----------------------------------------------------------------------------
(* The requests of the API.                                                 *)

\* A wallet is created with no money.
LEMMA CreateWalletType ==
  ASSUME StoreTypeOK, NEW w \in Wallets, CreateWallet(w)
  PROVE  StoreTypeOK'
BY AmountsAreNaturals, EnqueueType DEF StoreTypeOK, CreateWallet, RoutingKey

\* A deposit leaves natural balances.
LEMMA DepositType ==
  ASSUME StoreTypeOK, NEW w \in Wallets, NEW a \in Amounts, Deposit(w, a)
  PROVE  StoreTypeOK'
<1> DEFINE after == balance[w] + a
<1>1. after \in Nat /\ a \in Nat /\ MaxEvents \in Nat
  BY AmountsAreNaturals DEF StoreTypeOK
<1>2. balance' \in [Wallets -> Nat]
  BY <1>1, SetBalanceType DEF StoreTypeOK, Deposit
<1>3. ledger' \in [Wallets -> Seq(Posting)]
  BY <1>1, RecordType DEF StoreTypeOK, Deposit, TransactionType
<1>4. cache' \in [CachedWallets -> Nat \cup {Miss}]
  BY <1>1, SetCachedType DEF StoreTypeOK, Deposit
<1>5. outbox' \in Seq(OutboxEvent) /\ Len(outbox') <= MaxEvents
  BY <1>1, EnqueueType DEF StoreTypeOK, Deposit, RoutingKey
<1> QED
  BY <1>2, <1>3, <1>4, <1>5 DEF StoreTypeOK, Deposit

\* A withdrawal leaves natural balances: its guard is in the update's filter.
LEMMA WithdrawType ==
  ASSUME StoreTypeOK, NEW w \in Wallets, NEW a \in Amounts, Withdraw(w, a)
  PROVE  StoreTypeOK'
<1> DEFINE after == balance[w] - a
<1>1. after \in Nat /\ a \in Nat /\ MaxEvents \in Nat
  BY AmountsAreNaturals DEF StoreTypeOK, Withdraw
<1>2. balance' \in [Wallets -> Nat]
  BY <1>1, SetBalanceType DEF StoreTypeOK, Withdraw
<1>3. ledger' \in [Wallets -> Seq(Posting)]
  BY <1>1, RecordType DEF StoreTypeOK, Withdraw, TransactionType
<1>4. cache' \in [CachedWallets -> Nat \cup {Miss}]
  BY <1>1, SetCachedType DEF StoreTypeOK, Withdraw
<1>5. outbox' \in Seq(OutboxEvent) /\ Len(outbox') <= MaxEvents
  BY <1>1, EnqueueType DEF StoreTypeOK, Withdraw, RoutingKey
<1> QED
  BY <1>2, <1>3, <1>4, <1>5 DEF StoreTypeOK, Withdraw

\* So does the debit of a transfer.
LEMMA TransferType ==
  ASSUME StoreTypeOK, NEW t \in TransferIds, NEW from \in Wallets, NEW to \in Wallets,
         NEW a \in Amounts, NEW k \in Keys \cup {NoKey}, Transfer(t, from, to, a, k)
  PROVE  StoreTypeOK'
<1> DEFINE after == balance[from] - a
<1>1. after \in Nat /\ a \in Nat /\ MaxEvents \in Nat
  BY AmountsAreNaturals DEF StoreTypeOK, Transfer, TransferAllowed
<1>2. balance' \in [Wallets -> Nat]
  BY <1>1, SetBalanceType DEF StoreTypeOK, Transfer
<1>3. ledger' \in [Wallets -> Seq(Posting)]
  BY <1>1, RecordType DEF StoreTypeOK, Transfer, TransactionType
<1>4. cache' \in [CachedWallets -> Nat \cup {Miss}]
  BY <1>1, SetCachedType DEF StoreTypeOK, Transfer
<1>5. outbox' \in Seq(OutboxEvent) /\ Len(outbox') <= MaxEvents
  BY <1>1, EnqueueType DEF StoreTypeOK, Transfer, RoutingKey
<1>6. transfer' \in [TransferIds -> TransferDoc \cup {None}]
  BY DEF StoreTypeOK, Transfer, TransferDoc, TransferStatus
<1> QED
  BY <1>2, <1>3, <1>4, <1>5, <1>6 DEF StoreTypeOK, Transfer

\* A transaction that aborts after its Redis SET leaves a natural number there.
LEMMA AbortType ==
  ASSUME StoreTypeOK, NEW w \in Wallets, NEW a \in Amounts,
         DepositAborts(w, a) \/ DebitAborts(w, a)
  PROVE  StoreTypeOK'
<1>1. PICK b \in Nat : SetCachedBalance(w, b)
  BY AmountsAreNaturals DEF StoreTypeOK, DepositAborts, DebitAborts
<1>2. cache' \in [CachedWallets -> Nat \cup {Miss}]
  BY <1>1, SetCachedType DEF StoreTypeOK
<1> QED
  BY <1>2 DEF StoreTypeOK, DepositAborts, DebitAborts

\* Expiry caches nothing.
LEMMA ExpiryType ==
  ASSUME StoreTypeOK, NEW w \in Wallets, CacheExpires(w)
  PROVE  StoreTypeOK'
BY DEF StoreTypeOK, CacheExpires

\* No request of a client, served or aborted, and no expiry breaks the types.
LEMMA ApiType ==
  ASSUME TypeOK, Api \/ Expiry \/ ApiAborts
  PROVE  TypeOK'
<1>1. StoreTypeOK
  BY DEF TypeOK
<1>2. ASSUME Api PROVE StoreTypeOK'
  <2>1. CASE \E w \in Wallets : CreateWallet(w)
    BY <1>1, <2>1, CreateWalletType DEF CreateWallet
  <2>2. CASE \E w \in Wallets, a \in Amounts : Deposit(w, a)
    BY <1>1, <2>2, DepositType DEF Deposit
  <2>3. CASE \E w \in Wallets, a \in Amounts : Withdraw(w, a)
    BY <1>1, <2>3, WithdrawType DEF Withdraw
  <2>4. ASSUME NEW t \in TransferIds, NEW from \in Wallets, NEW to \in Wallets,
               NEW a \in Amounts, NEW k \in Keys \cup {NoKey}, Transfer(t, from, to, a, k)
        PROVE  StoreTypeOK'
    <3>1. StoreTypeOK'
      BY <1>1, <2>4, TransferType
    <3> QED
      BY <1>1, <2>4, <3>1 DEF Transfer
  <2> QED
    BY <1>2, <2>1, <2>2, <2>3, <2>4 DEF Api
<1>3. ASSUME Expiry PROVE StoreTypeOK'
  BY <1>1, <1>3, ExpiryType DEF Expiry
<1>4. ASSUME ApiAborts PROVE StoreTypeOK'
  BY <1>1, <1>4, AbortType DEF ApiAborts
<1>5. OnlyApi /\ up' = up /\ faults' \in 0..MaxFaults
  BY PlatformAssumption DEF Api, Expiry, ApiAborts, NoFault, Fault, platformVars, TypeOK
<1> QED
  BY <1>2, <1>3, <1>4, <1>5
  DEF TypeOK, OnlyApi, brokerVars, consumerVars, sweepVars,
      BrokerTypeOK, RelayTypeOK, RelayState, ConsumerTypeOK, SweepTypeOK, MessageId

-----------------------------------------------------------------------------
(* The relay and the broker.                                                *)

\* What is published has the type of a message and a fresh messageId.
LEMMA PublishType ==
  ASSUME BrokerTypeOK, NEW e \in OutboxEvent, NEW copies \in SUBSET {1, 2},
         PublishCopies(e, copies)
  PROVE  BrokerTypeOK'
<1>1. CASE ~Routed(e)
  BY <1>1 DEF PublishCopies, BrokerTypeOK, brokerVars
<1>2. CASE Routed(e)
  <2>1. published + 1 \in MessageId /\ published' = published + 1
    BY <1>2, BrokerAssumption DEF PublishCopies, QueueRoom, MessageId, BrokerTypeOK
  <2>2. ASSUME NEW c \in copies PROVE NewMessage(c, e) \in Message
    BY <2>1 DEF NewMessage, Message, MessageKind, OutboxEvent
  <2> QED
    BY <1>2, <2>1, <2>2 DEF PublishCopies, BrokerTypeOK, MessageId
<1> QED
  BY <1>1, <1>2

\* The relay's batch is a set of events.
LEMMA BatchType ==
  ASSUME StoreTypeOK
  PROVE  Batch \subseteq 1..MaxEvents
<1>1. DOMAIN outbox = 1..Len(outbox) /\ Len(outbox) \in Nat
  BY LenProperties DEF StoreTypeOK
<1> QED
  BY <1>1, AmountsAreNaturals DEF Batch, PendingEvents, StoreTypeOK

\* Marking an event leaves it an event.
LEMMA MarkType ==
  ASSUME StoreTypeOK, NEW n \in DOMAIN outbox,
         outbox' = [outbox EXCEPT ![n].status = "PUBLISHED"]
  PROVE  outbox' \in Seq(OutboxEvent) /\ Len(outbox') = Len(outbox)
<1>1. n \in 1..Len(outbox)
  BY LenProperties DEF StoreTypeOK
<1>2. outbox[n] \in OutboxEvent
  BY <1>1, ElementOfSeq DEF StoreTypeOK
<1>3. [outbox[n] EXCEPT !.status = "PUBLISHED"] \in OutboxEvent
  BY <1>2 DEF OutboxEvent, OutboxStatus
<1> QED
  BY <1>1, <1>3, ExceptSeq DEF StoreTypeOK

\* The steps of a relay, its faults included.
LEMMA RelayType ==
  ASSUME TypeOK, NEW i \in Instances,
         RelayTicks(i) \/ Publishes(i) \/ Marks(i) \/ RelayFaults(i)
  PROVE  TypeOK'
<1>1. StoreTypeOK /\ BrokerTypeOK /\ RelayTypeOK
  BY DEF TypeOK
<1>2. ASSUME NEW n \in DOMAIN outbox
      PROVE  outbox[n] \in OutboxEvent /\ n \in 1..MaxEvents
  BY <1>1, LenProperties, ElementOfSeq, AmountsAreNaturals DEF StoreTypeOK
<1> DEFINE Typed == StoreTypeOK' /\ BrokerTypeOK' /\ RelayTypeOK'
<1>3. ASSUME RelayTick(i) PROVE Typed
  BY <1>1, <1>3, BatchType
  DEF RelayTick, RelayTypeOK, RelayState, StoreTypeOK, BrokerTypeOK, MessageId,
      storeVars, brokerVars
<1>4. ASSUME NEW n \in DOMAIN outbox, NEW copies \in SUBSET {1, 2}, Publish(i, n, copies)
      PROVE  Typed
  <2>1. BrokerTypeOK'
    BY <1>1, <1>2, <1>4, PublishType DEF Publish
  <2> QED
    BY <1>1, <1>4, <2>1 DEF Publish, RelayTypeOK, RelayState, StoreTypeOK, storeVars
<1>5. ASSUME NEW n \in DOMAIN outbox, NEW copies \in SUBSET {1, 2},
             PublishFails(i, n, copies)
      PROVE  Typed
  <2>1. BrokerTypeOK'
    BY <1>1, <1>2, <1>5, PublishType
    DEF PublishFails, BrokerTypeOK, brokerVars, MessageId
  <2> QED
    BY <1>1, <1>5, <2>1
    DEF PublishFails, IdleRelay, RelayTypeOK, RelayState, StoreTypeOK, storeVars
<1>6. ASSUME NEW n \in DOMAIN outbox, MarkPublished(i, n) PROVE Typed
  <2>1. StoreTypeOK'
    BY <1>1, <1>6, MarkType DEF MarkPublished, StoreTypeOK
  <2> QED
    BY <1>1, <1>6, <2>1
    DEF MarkPublished, RelayTypeOK, RelayState, BrokerTypeOK, brokerVars, MessageId
<1>7. ASSUME MarkFails(i) PROVE Typed
  BY <1>1, <1>7
  DEF MarkFails, IdleRelay, RelayTypeOK, RelayState, StoreTypeOK, BrokerTypeOK,
      storeVars, brokerVars, MessageId
<1>8. Typed
  BY <1>3, <1>4, <1>5, <1>6, <1>7 DEF RelayTicks, Publishes, Marks, RelayFaults
<1>9. OnlyRelay /\ up' = up /\ faults' \in 0..MaxFaults
  BY PlatformAssumption
  DEF RelayTicks, Publishes, Marks, RelayFaults, NoFault, Fault, platformVars, TypeOK
<1> HIDE DEF Typed
<1> QED
  BY <1>8, <1>9
  DEF Typed, TypeOK, OnlyRelay, consumerVars, sweepVars,
      ConsumerTypeOK, SweepTypeOK, MessageId

-----------------------------------------------------------------------------
(* The consumer.                                                            *)

\* What the consumer credits is what a message says, a natural number.
LEMMA CompleteType ==
  ASSUME StoreTypeOK, ConsumerTypeOK, NEW h \in Handlers, CompleteTransfer(h)
  PROVE  StoreTypeOK'
<1> DEFINE m == handler[h].msg
           after == balance[m.to] + m.amount
<1>1. m \in Message
  BY DEF ConsumerTypeOK, CompleteTransfer, Claims, InStage, Busy, Delivery
<1>2. m.to \in Wallets /\ m.amount \in Nat /\ m.transfer \in TransferIds \cup {None}
  BY <1>1 DEF CompleteTransfer, StoreTypeOK, Message
<1>3. after \in Nat
  BY <1>2 DEF StoreTypeOK
<1>4. balance' \in [Wallets -> Nat]
  BY <1>2, <1>3, SetBalanceType DEF StoreTypeOK, CompleteTransfer
<1>5. ledger' \in [Wallets -> Seq(Posting)]
  BY <1>2, <1>3, RecordType DEF StoreTypeOK, CompleteTransfer, TransactionType
<1>6. cache' \in [CachedWallets -> Nat \cup {Miss}]
  BY <1>2, <1>3, SetCachedType DEF StoreTypeOK, CompleteTransfer
<1>7. transfer' \in [TransferIds -> TransferDoc \cup {None}]
  BY <1>2 DEF StoreTypeOK, CompleteTransfer, TransferDoc, TransferStatus, Pending, InStatus
<1> QED
  BY <1>4, <1>5, <1>6, <1>7 DEF StoreTypeOK, CompleteTransfer

\* The messages that a set of busy handlers holds are messages.
LEMMA HeldAreMessages ==
  ASSUME ConsumerTypeOK, NEW H \in SUBSET {h \in Handlers : Busy(h)}
  PROVE  {handler[h].msg : h \in H} \subseteq Message
BY DEF ConsumerTypeOK, Busy, Delivery

\* Putting messages back in the queue keeps the broker's types.
LEMMA RequeueType ==
  ASSUME BrokerTypeOK, NEW M \in SUBSET Message, Requeue(M)
  PROVE  BrokerTypeOK'
BY DEF BrokerTypeOK, Requeue, Message, MessageId

\* The end of a handler that nacks, to the queue or to the dead letters.
LEMMA NackType ==
  ASSUME BrokerTypeOK, ConsumerTypeOK, NEW h \in Handlers, Busy(h),
         NackRequeues(h) \/ MalformedDropped(h)
  PROVE  BrokerTypeOK' /\ ConsumerTypeOK'
<1>1. handler[h].msg \in Message
  BY DEF ConsumerTypeOK, Busy, Delivery
<1>2. BrokerTypeOK'
  <2>1. CASE NackRequeues(h)
    BY <1>1, <2>1, RequeueType DEF NackRequeues
  <2>2. CASE MalformedDropped(h)
    BY <1>1, <2>2 DEF MalformedDropped, DeadLetter, BrokerTypeOK, Message, MessageId
  <2> QED
    BY <2>1, <2>2
<1>3. ConsumerTypeOK'
  BY DEF NackRequeues, MalformedDropped, ConsumerTypeOK, MessageId
<1> QED
  BY <1>2, <1>3

\* The steps of the consumer, its faults and the inbox's expiry included.
LEMMA ConsumerType ==
  ASSUME TypeOK,
         \/ \E i \in Instances : Delivers(i)
         \/ \E h \in Handlers : Handles(h)
         \/ ConsumerFaults
         \/ InboxExpiry
  PROVE  TypeOK'
<1>1. StoreTypeOK /\ BrokerTypeOK /\ ConsumerTypeOK
  BY DEF TypeOK
<1> DEFINE Typed == StoreTypeOK' /\ BrokerTypeOK' /\ ConsumerTypeOK'
<1> DEFINE SameStore == UNCHANGED storeVars
<1>2. ASSUME SameStore PROVE StoreTypeOK'
  BY <1>1, <1>2 DEF StoreTypeOK, storeVars
<1>3. ASSUME NEW i \in Instances, NEW h \in Handlers, NEW m \in queue, Deliver(h, i, m)
      PROVE  Typed
  <2>1. [msg |-> m, inst |-> i, open |-> TRUE, stage |-> "running"] \in Delivery
    BY <1>1 DEF Delivery, BrokerTypeOK
  <2> QED
    BY <1>1, <1>2, <1>3, <2>1
    DEF Deliver, BrokerTypeOK, ConsumerTypeOK, MessageId, Message
<1>4. ASSUME NEW h \in Handlers, CompleteTransfer(h) \/ SkipTransfer(h)
      PROVE  Typed
  <2>1. handler[h] \in Delivery
    BY <1>1, <1>4
    DEF CompleteTransfer, SkipTransfer, Claims, InStage, Busy, ConsumerTypeOK
  <2>2. ConsumerTypeOK'
    BY <1>1, <1>4, <2>1
    DEF CompleteTransfer, SkipTransfer, Finish, ConsumerTypeOK, Delivery, Message, MessageId
  <2>3. StoreTypeOK'
    BY <1>1, <1>2, <1>4, CompleteType DEF SkipTransfer
  <2> QED
    BY <1>1, <1>4, <2>2, <2>3
    DEF CompleteTransfer, SkipTransfer, BrokerTypeOK, brokerVars, MessageId
<1>5. ASSUME NEW h \in Handlers, Ack(h) PROVE Typed
  BY <1>1, <1>2, <1>5 DEF Ack, ConsumerTypeOK, BrokerTypeOK, brokerVars, MessageId
<1>6. ASSUME NEW h \in Handlers,
             \/ DuplicateRequeued(h)
             \/ UncastableRequeued(h)
             \/ FailureRequeued(h)
             \/ MalformedDropped(h)
      PROVE  Typed
  <2>1. Busy(h) /\ (NackRequeues(h) \/ MalformedDropped(h))
    BY <1>6
    DEF DuplicateRequeued, UncastableRequeued, FailureRequeued, MalformedDropped,
        Duplicate, Uncastable, Claims, InStage
  <2>2. SameStore
    BY <2>1 DEF NackRequeues, MalformedDropped
  <2> QED
    BY <1>1, <1>2, <2>1, <2>2, NackType
<1>7. ASSUME NEW i \in Instances, ChannelLost(i) PROVE Typed
  <2>1. {handler[h].msg : h \in Unacked(i)} \subseteq Message
    BY <1>1, HeldAreMessages DEF Unacked
  <2>2. BrokerTypeOK'
    BY <1>1, <1>7, <2>1, RequeueType DEF ChannelLost
  <2>3. ConsumerTypeOK'
    BY <1>1, <1>7 DEF ChannelLost, ConsumerTypeOK, Delivery, Unacked, Busy, MessageId
  <2> QED
    BY <1>2, <1>7, <2>2, <2>3 DEF ChannelLost
<1>8. ASSUME NEW id \in inbox, InboxExpires(id) PROVE Typed
  BY <1>1, <1>2, <1>8
  DEF InboxExpires, ConsumerTypeOK, BrokerTypeOK, brokerVars, MessageId
<1>9. ASSUME NEW h \in Handlers, CreditAborts(h) PROVE Typed
  <2>1. handler[h].msg.to \in Wallets /\ handler[h].msg.amount \in Nat
    BY <1>1, <1>9
    DEF CreditAborts, Claims, InStage, Busy, ConsumerTypeOK, Delivery, Message, StoreTypeOK
  <2>2. cache' \in [CachedWallets -> Nat \cup {Miss}]
    BY <1>1, <1>9, <2>1, SetCachedType DEF CreditAborts, StoreTypeOK
  <2> QED
    BY <1>1, <1>9, <2>2
    DEF CreditAborts, StoreTypeOK, ConsumerTypeOK, BrokerTypeOK, brokerVars, consumerVars,
        MessageId
<1>10. Typed
  BY <1>3, <1>4, <1>5, <1>6, <1>7, <1>8, <1>9
  DEF Delivers, Handles, ConsumerFaults, InboxExpiry
<1>11. OnlyConsumer /\ up' = up /\ faults' \in 0..MaxFaults
  BY PlatformAssumption
  DEF Delivers, Handles, ConsumerFaults, InboxExpiry, NoFault, Fault, platformVars, TypeOK
<1> HIDE DEF Typed
<1> QED
  BY <1>10, <1>11
  DEF Typed, TypeOK, OnlyConsumer, sweepVars, RelayTypeOK, SweepTypeOK

-----------------------------------------------------------------------------
(* The sweep, and the lives of processes.                                   *)

\* A refund leaves natural balances.
LEMMA RefundType ==
  ASSUME StoreTypeOK, NEW i \in Instances, NEW t \in TransferIds, SweepRefund(i, t)
  PROVE  StoreTypeOK'
<1> DEFINE from == transfer[t].from
           a == transfer[t].amount
           after == balance[from] + a
<1>1. transfer[t] \in TransferDoc
  BY DEF StoreTypeOK, SweepRefund, Pending, InStatus
<1>2. from \in Wallets /\ a \in Nat /\ after \in Nat
  <2>1. from \in Wallets /\ a \in Amounts
    BY <1>1 DEF TransferDoc
  <2>2. balance[from] \in Nat
    BY <2>1 DEF StoreTypeOK
  <2> HIDE DEF from, a
  <2> QED
    BY <2>1, <2>2, AmountsAreNaturals
<1>3. balance' \in [Wallets -> Nat]
  BY <1>2, SetBalanceType DEF StoreTypeOK, SweepRefund
<1>4. ledger' \in [Wallets -> Seq(Posting)]
  BY <1>2, RecordType DEF StoreTypeOK, SweepRefund, TransactionType
<1>5. transfer' \in [TransferIds -> TransferDoc \cup {None}]
  BY <1>1 DEF StoreTypeOK, SweepRefund, TransferDoc, TransferStatus
<1> QED
  BY <1>3, <1>4, <1>5 DEF StoreTypeOK, SweepRefund

\* The steps of the sweep, its faults and the passing of time included.
LEMMA SweepType ==
  ASSUME TypeOK,
         \/ \E t \in TransferIds : Ages(t)
         \/ \E i \in Instances : SweepTicks(i)
         \/ \E i \in Instances, t \in TransferIds : Sweeps(i, t)
         \/ SweepFaults
  PROVE  TypeOK'
<1>1. StoreTypeOK /\ SweepTypeOK /\ up \subseteq Instances
  BY DEF TypeOK
<1> DEFINE Typed == StoreTypeOK' /\ SweepTypeOK'
<1>2. ASSUME UNCHANGED storeVars PROVE StoreTypeOK'
  BY <1>1, <1>2 DEF StoreTypeOK, storeVars
<1>3. ASSUME NEW t \in TransferIds, Age(t) PROVE Typed
  BY <1>1, <1>2, <1>3 DEF Age, SweepTypeOK
<1>4. ASSUME NEW i \in Instances, SweepTick(i) PROVE Typed
  BY <1>1, <1>2, <1>4 DEF SweepTick, SweepTypeOK, Overdue
<1>5. ASSUME NEW i \in Instances, NEW t \in TransferIds,
             SweepRefund(i, t) \/ SweepSkips(i, t) \/ SweepErrs(i, t)
      PROVE  Typed
  <2>1. StoreTypeOK'
    BY <1>1, <1>2, <1>5, RefundType DEF SweepSkips, SweepErrs
  <2> QED
    BY <1>1, <1>5, <2>1 DEF SweepRefund, SweepSkips, SweepErrs, Done, SweepTypeOK
<1>6. Typed
  BY <1>1, <1>3, <1>4, <1>5 DEF Ages, SweepTicks, Sweeps, SweepFaults
<1>7. OnlySweep /\ up' = up /\ faults' \in 0..MaxFaults
  BY PlatformAssumption
  DEF Ages, SweepTicks, Sweeps, SweepFaults, NoFault, Fault, platformVars, TypeOK
<1> HIDE DEF Typed
<1> QED
  BY <1>6, <1>7
  DEF Typed, TypeOK, OnlySweep, brokerVars, consumerVars, RelayTypeOK,
      BrokerTypeOK, ConsumerTypeOK, MessageId

\* A process dies, or starts.
LEMMA ProcessType ==
  ASSUME TypeOK,
         \/ \E i \in Instances : Crash(i) \/ Start(i)
         \/ \E h \in Handlers : UnhandledRejection(h)
  PROVE  TypeOK'
<1>1. ASSUME NEW i, Dies(i), faults' \in 0..MaxFaults PROVE TypeOK'
  <2>1. StoreTypeOK'
    BY <1>1 DEF Dies, TypeOK, StoreTypeOK, storeVars
  <2>2. BrokerTypeOK'
    <3>1. {handler[h].msg : h \in Unacked(i)} \subseteq Message
      BY HeldAreMessages DEF TypeOK, Unacked
    <3> QED
      BY <1>1, <3>1, RequeueType DEF Dies, TypeOK
  <2>3. RelayTypeOK'
    BY <1>1 DEF Dies, TypeOK, RelayTypeOK, RelayState, IdleRelay
  <2>4. ConsumerTypeOK' /\ SweepTypeOK'
    BY <1>1 DEF Dies, TypeOK, ConsumerTypeOK, SweepTypeOK, MessageId
  <2>5. up' \subseteq Instances
    BY <1>1 DEF Dies, TypeOK
  <2> QED
    BY <1>1, <2>1, <2>2, <2>3, <2>4, <2>5 DEF TypeOK
<1>2. ASSUME NEW i \in Instances, Crash(i) PROVE TypeOK'
  BY <1>1, <1>2, PlatformAssumption DEF Crash, TypeOK
<1>3. ASSUME NEW h \in Handlers, UnhandledRejection(h) PROVE TypeOK'
  BY <1>1, <1>3 DEF UnhandledRejection, TypeOK
<1>4. ASSUME NEW i \in Instances, Start(i) PROVE TypeOK'
  BY <1>4
  DEF Start, TypeOK, storeVars, brokerVars, consumerVars, sweepVars, StoreTypeOK,
      BrokerTypeOK, RelayTypeOK, ConsumerTypeOK, SweepTypeOK, MessageId
<1> QED
  BY <1>2, <1>3, <1>4

-----------------------------------------------------------------------------

\* Every step keeps the types.
LEMMA NextType == TypeOK /\ [Next]_vars => TypeOK'
<1> SUFFICES ASSUME TypeOK, [Next]_vars PROVE TypeOK'
  OBVIOUS
<1>1. CASE Api \/ Expiry \/ ApiAborts
  BY <1>1, ApiType
<1>2. CASE \E i \in Instances : RelayTicks(i) \/ Publishes(i) \/ Marks(i) \/ RelayFaults(i)
  BY <1>2, RelayType
<1>3. CASE \/ \E i \in Instances : Delivers(i)
           \/ \E h \in Handlers : Handles(h)
           \/ ConsumerFaults
           \/ InboxExpiry
  BY <1>3, ConsumerType
<1>4. CASE \/ \E t \in TransferIds : Ages(t)
           \/ \E i \in Instances : SweepTicks(i)
           \/ \E i \in Instances, t \in TransferIds : Sweeps(i, t)
           \/ SweepFaults
  BY <1>4, SweepType
<1>5. CASE \/ \E i \in Instances : Crash(i) \/ Start(i)
           \/ \E h \in Handlers : UnhandledRejection(h)
  BY <1>5, ProcessType
<1>6. CASE UNCHANGED vars
  BY <1>6
  DEF vars, TypeOK, storeVars, brokerVars, consumerVars, sweepVars, platformVars,
      StoreTypeOK, BrokerTypeOK, RelayTypeOK, ConsumerTypeOK,
      SweepTypeOK, MessageId
<1> QED
  BY <1>1, <1>2, <1>3, <1>4, <1>5, <1>6 DEF Next

\* Balances are natural numbers and every document, message and process state
\* has its type, in every reachable state: no interleaving of withdrawals,
\* transfers, credits and refunds takes a wallet below zero.
THEOREM TypeCorrect == Spec => []TypeOK
BY InitType, NextType, PTL DEF Spec

-----------------------------------------------------------------------------
(* What the steps do, and what messages say.                                *)

\* The steps that write documents other than the inbox, one by one.
LEMMA WritingSteps ==
  ASSUME [Next]_vars
  PROVE  \/ \E w \in Wallets : CreateWallet(w)
         \/ \E w \in Wallets, a \in Amounts : Deposit(w, a)
         \/ \E w \in Wallets, a \in Amounts : Withdraw(w, a)
         \/ \E t \in TransferIds, from, to \in Wallets, a \in Amounts,
              k \in Keys \cup {NoKey} : Transfer(t, from, to, a, k)
         \/ \E h \in Handlers : CompleteTransfer(h)
         \/ \E i \in Instances, t \in TransferIds : SweepRefund(i, t)
         \/ \E i \in Instances, n \in DOMAIN outbox : MarkPublished(i, n)
         \/ UNCHANGED <<created, balance, transfer, ledger, outbox>>
<1> DEFINE Same == UNCHANGED <<created, balance, transfer, ledger, outbox>>
<1>1. CASE Api
  BY <1>1 DEF Api
<1>2. CASE Expiry \/ ApiAborts
  BY <1>2 DEF Expiry, ApiAborts, CacheExpires, DepositAborts, DebitAborts
<1>3. CASE \E i \in Instances : RelayTicks(i) \/ Publishes(i) \/ Marks(i) \/ RelayFaults(i)
  BY <1>3
  DEF RelayTicks, Publishes, Marks, RelayFaults, RelayTick, Publish, PublishFails,
      MarkFails, storeVars
<1>4. CASE \/ \E i \in Instances : Delivers(i)
           \/ \E h \in Handlers : Handles(h)
  BY <1>4
  DEF Delivers, Deliver, Handles, SkipTransfer, Ack, DuplicateRequeued,
      UncastableRequeued, NackRequeues, MalformedDropped, storeVars
<1>5. CASE ConsumerFaults \/ InboxExpiry
  BY <1>5
  DEF ConsumerFaults, FailureRequeued, CreditAborts, NackRequeues, ChannelLost, InboxExpiry,
      InboxExpires, storeVars
<1>6. CASE \/ \E t \in TransferIds : Ages(t)
           \/ \E i \in Instances : SweepTicks(i)
           \/ \E i \in Instances, t \in TransferIds : Sweeps(i, t)
           \/ SweepFaults
  BY <1>6
  DEF Ages, Age, SweepTicks, SweepTick, Sweeps, SweepSkips, SweepFaults, SweepErrs,
      storeVars
<1>7. CASE \/ \E i \in Instances : Crash(i) \/ Start(i)
           \/ \E h \in Handlers : UnhandledRejection(h)
  BY <1>7 DEF Crash, Start, UnhandledRejection, Dies, storeVars
<1>8. CASE UNCHANGED vars
  BY <1>8 DEF vars, storeVars
<1> QED
  BY <1>1, <1>2, <1>3, <1>4, <1>5, <1>6, <1>7, <1>8 DEF Next

\* The steps of a relay.
RelayStep(i) == RelayTicks(i) \/ Publishes(i) \/ Marks(i) \/ RelayFaults(i)

\* A relay sends copies of one message, made of an event that is routed.
LEMMA RelaySends ==
  ASSUME NEW i \in Instances, RelayStep(i)
  PROVE  /\ UNCHANGED <<handler, inbox, transfer>>
         /\ \/ UNCHANGED <<queue, published>>
            \/ \E n \in DOMAIN outbox, copies \in SUBSET {1, 2} :
                 /\ Routed(outbox[n])
                 /\ queue' = queue \cup {NewMessage(c, outbox[n]) : c \in copies}
                 /\ published' = published + 1
<1>1. UNCHANGED <<handler, inbox, transfer>>
  BY DEF RelayStep, RelayTicks, Publishes, Marks, RelayFaults, OnlyRelay, consumerVars,
         RelayTick, Publish, PublishFails, MarkPublished, MarkFails, storeVars
<1>2. \/ UNCHANGED <<queue, published>>
      \/ \E n \in DOMAIN outbox, copies \in SUBSET {1, 2} : PublishCopies(outbox[n], copies)
  BY DEF RelayStep, RelayTicks, Publishes, Marks, RelayFaults, RelayTick, Publish, PublishFails,
         MarkPublished, MarkFails, brokerVars
<1> QED BY <1>1, <1>2 DEF PublishCopies, brokerVars

\* Every other step only moves messages, or drops them.
LEMMA OthersMoveMessages ==
  ASSUME TypeOK, [Next]_vars, \A i \in Instances : ~RelayStep(i), NEW m \in queue' \cup Held'
  PROVE  m \in queue \cup Held
<1> USE DEF Held, Busy
<1>1. CASE UNCHANGED <<queue, handler>>
  BY <1>1
<1>2. ASSUME NEW i \in Instances, Delivers(i) PROVE m \in queue \cup Held
  <2>1. PICK h \in Handlers, x \in queue : Deliver(h, i, x)
    BY <1>2 DEF Delivers
  <2>2. handler \in [Handlers -> Delivery \cup {None}]
    BY DEF TypeOK, ConsumerTypeOK
  <2> QED
    BY <2>1, <2>2 DEF Deliver
<1>3. ASSUME NEW h \in Handlers,
             Handles(h) \/ FailureRequeued(h) \/ CreditAborts(h)
      PROVE  m \in queue \cup Held
  <2>1. handler \in [Handlers -> Delivery \cup {None}]
    BY DEF TypeOK, ConsumerTypeOK
  <2>2. CASE CompleteTransfer(h) \/ SkipTransfer(h)
    <3>1. queue' = queue /\ handler' = [handler EXCEPT ![h].stage = "done"] /\ handler[h] \in Delivery
      BY <2>1, <2>2 DEF CompleteTransfer, SkipTransfer, Finish, brokerVars, Claims, InStage
    <3>2. \A g \in Handlers : handler'[g] # None =>
            handler[g] # None /\ handler'[g].msg = handler[g].msg
      BY <2>1, <3>1, NoneNotDelivery DEF Delivery
    <3> QED
      BY <3>1, <3>2
  <2>3. CASE Ack(h)
    BY <2>1, <2>3 DEF Ack, brokerVars
  <2>4. CASE Busy(h) /\ NackRequeues(h)
    BY <2>1, <2>4 DEF NackRequeues, Requeue
  <2>5. CASE MalformedDropped(h)
    BY <2>1, <2>5 DEF MalformedDropped, DeadLetter
  <2>6. CASE CreditAborts(h)
    BY <2>6 DEF CreditAborts, brokerVars, consumerVars
  <2> QED
    BY <1>3, <2>2, <2>3, <2>4, <2>5, <2>6
    DEF Handles, DuplicateRequeued, UncastableRequeued, FailureRequeued, Duplicate,
        Uncastable, Claims, InStage
<1>4. ASSUME NEW i \in Instances, ChannelLost(i) PROVE m \in queue \cup Held
  <2>1. handler \in [Handlers -> Delivery \cup {None}]
    BY DEF TypeOK, ConsumerTypeOK
  <2>2. \A h \in Handlers : handler'[h] # None => Busy(h) /\ handler'[h].msg = handler[h].msg
    BY <1>4, <2>1 DEF ChannelLost, Unacked, Delivery
  <2> QED
    BY <1>4, <2>2 DEF ChannelLost, Requeue, Unacked
<1>5. ASSUME NEW i, Dies(i) PROVE m \in queue \cup Held
  BY <1>5 DEF Dies, Requeue, Unacked
<1>6. CASE Api \/ Expiry \/ ApiAborts
  BY <1>1, <1>6 DEF Api, Expiry, ApiAborts, OnlyApi, brokerVars, consumerVars
<1>7. CASE \/ \E t \in TransferIds : Ages(t)
           \/ \E i \in Instances : SweepTicks(i)
           \/ \E i \in Instances, t \in TransferIds : Sweeps(i, t)
           \/ SweepFaults
  BY <1>1, <1>7 DEF Ages, SweepTicks, Sweeps, SweepFaults, OnlySweep, brokerVars, consumerVars
<1>8. CASE InboxExpiry
  BY <1>1, <1>8 DEF InboxExpiry, InboxExpires, brokerVars
<1>9. CASE \E i \in Instances : Start(i)
  BY <1>1, <1>9 DEF Start, brokerVars, consumerVars
<1>10. CASE UNCHANGED vars
  BY <1>1, <1>10 DEF vars, brokerVars, consumerVars
<1> QED
  BY <1>2, <1>3, <1>4, <1>5, <1>6, <1>7, <1>8, <1>9, <1>10
  DEF Next, RelayStep, ConsumerFaults, Crash, UnhandledRejection

\* A message that a step puts in play was in play before, or is what the relay
\* makes of an event.
LEMMA MessagesInPlay ==
  ASSUME TypeOK, [Next]_vars, NEW m \in queue' \cup Held'
  PROVE  \/ m \in queue \cup Held
         \/ \E n \in DOMAIN outbox, c \in {1, 2} :
              Routed(outbox[n]) /\ m = NewMessage(c, outbox[n])
<1>1. CASE \A i \in Instances : ~RelayStep(i)
  BY <1>1, OthersMoveMessages
<1>2. ASSUME NEW i \in Instances, RelayStep(i)
      PROVE  \/ m \in queue \cup Held
             \/ \E n \in DOMAIN outbox, c \in {1, 2} :
                  Routed(outbox[n]) /\ m = NewMessage(c, outbox[n])
  <2>1. Held' = Held
    BY <1>2, RelaySends DEF Held, Busy
  <2> QED BY <1>2, <2>1, RelaySends
<1> QED BY <1>1, <1>2

-----------------------------------------------------------------------------
(* Payloads agree with the transfers they name.                             *)

\* A handler that completes a transfer has a message that names it.
LEMMA CompletedIsNamed ==
  ASSUME PayloadAgreement, NEW h \in Handlers, CompleteTransfer(h)
  PROVE  LET m == handler[h].msg IN Names(m.transfer, m.to, m.amount)
BY DEF PayloadAgreement, Held, CompleteTransfer, Claims, InStage, Busy

\* Ending a transfer changes no other, and of that one only the status.
LEMMA EndKeepsTerms ==
  ASSUME TypeOK, NEW u \in TransferIds, Exists(u), NEW s \in TransferStatus,
         transfer' = [transfer EXCEPT ![u].status = s]
  PROVE  \A t \in TransferIds : Exists(t) =>
           /\ transfer'[t] # None
           /\ transfer'[t].from = transfer[t].from
           /\ transfer'[t].to = transfer[t].to
           /\ transfer'[t].amount = transfer[t].amount
<1>1. transfer \in [TransferIds -> TransferDoc \cup {None}]
  BY DEF TypeOK, StoreTypeOK
<1>2. transfer[u] \in TransferDoc
  BY <1>1 DEF Exists
<1>3. [transfer[u] EXCEPT !.status = s] \in TransferDoc
  BY <1>2 DEF TransferDoc
<1>4. [transfer[u] EXCEPT !.status = s] # None
  BY <1>3, NoneAssumption
<1> QED
  BY <1>1, <1>2, <1>4 DEF TransferDoc, Exists

\* A transfer is never forgotten, its terms never change, and no wallet goes.
LEMMA TermsAreFixed ==
  ASSUME TypeOK, PayloadAgreement, [Next]_vars
  PROVE  /\ created \subseteq created'
         /\ \A t \in TransferIds : Exists(t) =>
              /\ transfer'[t] # None
              /\ transfer'[t].from = transfer[t].from
              /\ transfer'[t].to = transfer[t].to
              /\ transfer'[t].amount = transfer[t].amount
<1>1. CASE UNCHANGED transfer
  <2>1. created \subseteq created'
    BY <1>1, WritingSteps
    DEF CreateWallet, Deposit, Withdraw, Transfer, CompleteTransfer, SweepRefund,
        MarkPublished
  <2> QED
    BY <1>1, <2>1 DEF Exists
<1>2. ASSUME NEW u \in TransferIds, NEW from \in Wallets, NEW to \in Wallets,
             NEW a \in Amounts, NEW k \in Keys \cup {NoKey}, Transfer(u, from, to, a, k)
      PROVE  /\ created' = created
             /\ \A t \in TransferIds : Exists(t) => transfer'[t] = transfer[t]
  BY <1>2 DEF Transfer, Exists, TypeOK, StoreTypeOK
<1>3. ASSUME NEW h \in Handlers, CompleteTransfer(h)
      PROVE  /\ created' = created
             /\ \E u \in TransferIds, s \in TransferStatus :
                  Exists(u) /\ transfer' = [transfer EXCEPT ![u].status = s]
  BY <1>3, CompletedIsNamed DEF CompleteTransfer, Names, TransferStatus
<1>4. ASSUME NEW i \in Instances, NEW u \in TransferIds, SweepRefund(i, u)
      PROVE  /\ created' = created
             /\ \E s \in TransferStatus :
                  Exists(u) /\ transfer' = [transfer EXCEPT ![u].status = s]
  BY <1>4 DEF SweepRefund, Pending, InStatus, Exists, TransferStatus
<1>5. CASE ~UNCHANGED transfer
  <2>1. \/ created' = created /\ \A t \in TransferIds : Exists(t) => transfer'[t] = transfer[t]
        \/ created' = created /\ \E u \in TransferIds, s \in TransferStatus :
             Exists(u) /\ transfer' = [transfer EXCEPT ![u].status = s]
    BY <1>2, <1>3, <1>4, <1>5, WritingSteps
    DEF CreateWallet, Deposit, Withdraw, MarkPublished
  <2> QED
    BY <2>1, EndKeepsTerms DEF Exists
<1> QED
  BY <1>1, <1>5

\* Names, of the next state's transfers.
NamesNext(t, w, a) ==
  t \in TransferIds /\ transfer'[t] # None /\ transfer'[t].to = w /\ transfer'[t].amount = a

\* What an event or a message names, it still names after a step.
LEMMA NamesIsStable ==
  ASSUME TypeOK, PayloadAgreement, [Next]_vars, NEW t, NEW w, NEW a, Names(t, w, a)
  PROVE  NamesNext(t, w, a)
BY TermsAreFixed DEF Names, NamesNext, Exists

\* The initial store names nothing.
LEMMA InitAgrees == Init => PayloadAgreement
<1> SUFFICES ASSUME Init PROVE PayloadAgreement
  OBVIOUS
<1>1. DOMAIN outbox = {}
  BY DEF Init, StoreInit
<1>2. \A m \in queue : m.kind # "initiated"
  <2>1. \A n \in DOMAIN Foreign : Foreign[n] # "initiated"
    BY BrokerAssumption, LenProperties, ElementOfSeq
  <2> QED
    BY <2>1 DEF Init, BrokerInit, ForeignMessage
<1>3. Held = {}
  BY DEF Init, ConsumerInit, Held, Busy
<1>4. \A t \in TransferIds : ~Exists(t)
  BY DEF Init, StoreInit, Exists
<1> QED
  BY <1>1, <1>2, <1>3, <1>4 DEF PayloadAgreement

\* Every step keeps payloads and transfers in agreement.
LEMMA NextAgrees ==
  ASSUME TypeOK, PayloadAgreement, [Next]_vars
  PROVE  PayloadAgreement'
<1>1. ASSUME NEW n \in DOMAIN outbox', Routed(outbox'[n])
      PROVE  NamesNext(outbox'[n].transfer, outbox'[n].wallet, outbox'[n].amount)
  <2>1. outbox \in Seq(OutboxEvent) /\ DOMAIN outbox = 1..Len(outbox) /\ Len(outbox) \in Nat
    BY LenProperties DEF TypeOK, StoreTypeOK
  <2>2. CASE /\ n \in DOMAIN outbox
             /\ outbox'[n].transfer = outbox[n].transfer
             /\ outbox'[n].wallet = outbox[n].wallet
             /\ outbox'[n].amount = outbox[n].amount
             /\ outbox'[n].routingKey = outbox[n].routingKey
    <3>1. Names(outbox[n].transfer, outbox[n].wallet, outbox[n].amount)
      BY <1>1, <2>2 DEF PayloadAgreement, Routed
    <3> QED
      BY <2>2, <3>1, NamesIsStable
  <2> DEFINE event(key, t, w, a) ==
        [routingKey |-> key, transfer |-> t, wallet |-> w, amount |-> a,
         status |-> "PENDING"]
  <2>3. ASSUME NEW key \in RoutingKey, NEW t \in TransferIds \cup {None},
               NEW w \in Wallets, NEW a \in Nat, Enqueue(key, t, w, a),
               \/ key # "transfer.initiated"
               \/ NamesNext(t, w, a)
        PROVE  NamesNext(outbox'[n].transfer, outbox'[n].wallet, outbox'[n].amount)
    <3>1. event(key, t, w, a) \in OutboxEvent
      BY DEF OutboxEvent, OutboxStatus
    <3>2. outbox' = Append(outbox, event(key, t, w, a))
      BY <2>3 DEF Enqueue
    <3> HIDE DEF event
    <3>3. \/ n \in DOMAIN outbox /\ outbox'[n] = outbox[n]
          \/ outbox'[n] = event(key, t, w, a)
      BY <2>1, <3>1, <3>2, AppendProperties, LenProperties
    <3> QED
      BY <1>1, <2>2, <2>3, <3>3 DEF event, Routed
  <2>4. ASSUME NEW w \in Wallets, CreateWallet(w)
        PROVE  NamesNext(outbox'[n].transfer, outbox'[n].wallet, outbox'[n].amount)
    BY <2>3, <2>4 DEF CreateWallet, RoutingKey
  <2>5. ASSUME NEW w \in Wallets, NEW a \in Amounts, Deposit(w, a) \/ Withdraw(w, a)
        PROVE  NamesNext(outbox'[n].transfer, outbox'[n].wallet, outbox'[n].amount)
    BY <2>3, <2>5, AmountsAreNaturals DEF Deposit, Withdraw, RoutingKey
  <2>6. ASSUME NEW t \in TransferIds, NEW from \in Wallets, NEW to \in Wallets,
               NEW a \in Amounts, NEW k \in Keys \cup {NoKey}, Transfer(t, from, to, a, k)
        PROVE  NamesNext(outbox'[n].transfer, outbox'[n].wallet, outbox'[n].amount)
    <3>1. transfer'[t] =
            [from |-> from, to |-> to, amount |-> a, status |-> "PENDING", key |-> k]
      BY <2>6 DEF Transfer, TypeOK, StoreTypeOK
    <3>2. transfer'[t] # None
      <4>1. transfer'[t] \in TransferDoc
        BY <3>1 DEF TransferDoc, TransferStatus
      <4> QED
        BY <4>1, NoneAssumption
    <3>3. NamesNext(t, to, a)
      BY <3>1, <3>2 DEF NamesNext
    <3> QED
      BY <2>3, <2>6, <3>3, AmountsAreNaturals DEF Transfer, RoutingKey
  <2>7. ASSUME NEW i \in Instances, NEW x \in DOMAIN outbox, MarkPublished(i, x)
        PROVE  NamesNext(outbox'[n].transfer, outbox'[n].wallet, outbox'[n].amount)
    <3>1. n \in DOMAIN outbox /\ outbox[n] \in OutboxEvent
      BY <2>1, <2>7, ElementOfSeq DEF MarkPublished
    <3>2. /\ outbox'[n].transfer = outbox[n].transfer
          /\ outbox'[n].wallet = outbox[n].wallet
          /\ outbox'[n].amount = outbox[n].amount
          /\ outbox'[n].routingKey = outbox[n].routingKey
      BY <2>7, <3>1 DEF MarkPublished, OutboxEvent
    <3> QED
      BY <2>2, <3>1, <3>2
  <2>8. CASE outbox' = outbox
    BY <2>2, <2>8
  <2> QED
    BY <2>4, <2>5, <2>6, <2>7, <2>8, WritingSteps DEF CompleteTransfer, SweepRefund
<1>2. ASSUME NEW m \in queue' \cup Held', m.kind = "initiated"
      PROVE  NamesNext(m.transfer, m.to, m.amount)
  <2>1. CASE m \in queue \cup Held
    BY <1>2, <2>1, NamesIsStable DEF PayloadAgreement
  <2>2. ASSUME NEW n \in DOMAIN outbox, NEW c \in {1, 2}, Routed(outbox[n]),
               m = NewMessage(c, outbox[n])
        PROVE  NamesNext(m.transfer, m.to, m.amount)
    BY <2>2, NamesIsStable DEF PayloadAgreement, NewMessage
  <2> QED
    BY <2>1, <2>2, MessagesInPlay
<1>3. ASSUME NEW t \in TransferIds, transfer'[t] # None
      PROVE  transfer'[t].from \in created' /\ transfer'[t].to \in created'
  <2>1. CASE Exists(t)
    BY <2>1, TermsAreFixed DEF PayloadAgreement
  <2>2. ASSUME NEW u \in TransferIds, NEW from \in Wallets, NEW to \in Wallets,
               NEW a \in Amounts, NEW k \in Keys \cup {NoKey}, Transfer(u, from, to, a, k),
               ~Exists(t)
        PROVE  transfer'[t].from \in created' /\ transfer'[t].to \in created'
    BY <1>3, <2>2 DEF Transfer, TransferAllowed, Exists, TypeOK, StoreTypeOK
  <2>3. ASSUME NEW h \in Handlers, CompleteTransfer(h), ~Exists(t) PROVE FALSE
    BY <1>3, <2>3, CompletedIsNamed
    DEF CompleteTransfer, Names, Exists, TypeOK, StoreTypeOK
  <2>4. ASSUME NEW i \in Instances, NEW u \in TransferIds, SweepRefund(i, u), ~Exists(t)
        PROVE  FALSE
    BY <1>3, <2>4 DEF SweepRefund, Pending, InStatus, Exists, TypeOK, StoreTypeOK
  <2> QED
    BY <1>3, <2>1, <2>2, <2>3, <2>4, WritingSteps
    DEF CreateWallet, Deposit, Withdraw, MarkPublished, Exists
<1> QED
  BY <1>1, <1>2, <1>3 DEF PayloadAgreement, Exists, Names, NamesNext, Routed

\* Every event and message of a transfer agrees with its document, and its
\* wallets exist: the consumer's "Destination wallet not found" and the sweep's
\* missing sender cannot happen to a transfer the platform made.
THEOREM PayloadsAgree == Spec => []PayloadAgreement
<1>1. Init => PayloadAgreement
  BY InitAgrees
<1>2. TypeOK /\ PayloadAgreement /\ [Next]_vars => PayloadAgreement'
  BY NextAgrees
<1> QED
  BY <1>1, <1>2, TypeCorrect, PTL DEF Spec

-----------------------------------------------------------------------------
(* The platform implements the bank.                                        *)

\* A credit by the consumer settles the transfer in full.
LEMMA CompleteSettles ==
  ASSUME TypeOK, PayloadAgreement, NEW h \in Handlers, CompleteTransfer(h)
  PROVE  \E t \in TransferIds : Promise!Settle(t)
<1> DEFINE m == handler[h].msg
<1>1. Names(m.transfer, m.to, m.amount)
  BY CompletedIsNamed
<1>2. Promise!InFlight(m.transfer)
  BY DEF CompleteTransfer, Pending, InStatus, Promise!InFlight
<1>3. Promise!Move(m.transfer, transfer[m.transfer].to, "COMPLETED")
  BY <1>1 DEF CompleteTransfer, SetBalance, Names, Promise!Move
<1> QED
  BY <1>1, <1>2, <1>3 DEF Names, Promise!Settle

\* A refund by the sweep returns the transfer in full.
LEMMA RefundReturns ==
  ASSUME NEW i \in Instances, NEW t \in TransferIds, SweepRefund(i, t)
  PROVE  Promise!Return(t)
BY DEF SweepRefund, SetBalance, Pending, InStatus, Promise!Return, Promise!InFlight,
       Promise!Move

\* The request that creates a transfer initiates it.
LEMMA TransferInitiates ==
  ASSUME NEW t \in TransferIds, NEW from \in Wallets, NEW to \in Wallets,
         NEW a \in Amounts, NEW k \in Keys \cup {NoKey}, Transfer(t, from, to, a, k)
  PROVE  Promise!Initiate(t, from, to, a, k)
BY DEF Transfer, TransferAllowed, KeyUnused, SetBalance, Promise!Initiate

\* Every step of the platform is a step of the bank or none of its business.
LEMMA StepsAreBankSteps ==
  ASSUME TypeOK, PayloadAgreement, [Next]_vars
  PROVE  [Promise!Next]_(Promise!vars)
<1>1. ASSUME NEW w \in Wallets, CreateWallet(w) PROVE Promise!Next
  BY <1>1 DEF CreateWallet, Promise!Next, Promise!Open
<1>2. ASSUME NEW w \in Wallets, NEW a \in Amounts, Deposit(w, a) PROVE Promise!Next
  BY <1>2 DEF Deposit, SetBalance, Promise!Next, Promise!Deposit
<1>3. ASSUME NEW w \in Wallets, NEW a \in Amounts, Withdraw(w, a) PROVE Promise!Next
  BY <1>3 DEF Withdraw, SetBalance, Promise!Next, Promise!Withdraw
<1>4. ASSUME NEW t \in TransferIds, NEW from \in Wallets, NEW to \in Wallets,
             NEW a \in Amounts, NEW k \in Keys \cup {NoKey}, Transfer(t, from, to, a, k)
      PROVE  Promise!Next
  <2>1. Promise!Initiate(t, from, to, a, k)
    BY <1>4, TransferInitiates
  <2> QED
    BY <2>1 DEF Promise!Next
<1>5. ASSUME NEW h \in Handlers, CompleteTransfer(h) PROVE Promise!Next
  BY <1>5, CompleteSettles DEF Promise!Next, Promise!Resolve
<1>6. ASSUME NEW i \in Instances, NEW t \in TransferIds, SweepRefund(i, t)
      PROVE  Promise!Next
  BY <1>6, RefundReturns DEF Promise!Next, Promise!Resolve
<1>7. ASSUME NEW i \in Instances, NEW n \in DOMAIN outbox, MarkPublished(i, n)
      PROVE  UNCHANGED Promise!vars
  BY <1>7 DEF MarkPublished, Promise!vars
<1>8. CASE UNCHANGED <<created, balance, transfer, ledger, outbox>>
  BY <1>8 DEF Promise!vars
<1> QED
  BY <1>1, <1>2, <1>3, <1>4, <1>5, <1>6, <1>7, <1>8, WritingSteps

\* The platform implements the bank: with any number of processes, handlers
\* and faults, every transfer takes its money once and ends once, and no
\* redelivered, republished or overlapping work is seen in any balance.
THEOREM PromiseKept == Spec => KeepsPromise
<1>1. Init => Promise!Init
  BY DEF Init, StoreInit, Promise!Init
<1>2. TypeOK /\ PayloadAgreement /\ [Next]_vars => [Promise!Next]_(Promise!vars)
  BY StepsAreBankSteps
<1> QED
  BY <1>1, <1>2, TypeCorrect, PayloadsAgree, PTL DEF Spec, KeepsPromise, Promise!Spec

-----------------------------------------------------------------------------
(* What a step does to transfers that ended, to messages and to the inbox.  *)

\* A transfer that has ended never changes again.
LEMMA EndedStays ==
  ASSUME TypeOK, PayloadAgreement, [Next]_vars,
         NEW t \in TransferIds, Exists(t), ~Pending(t)
  PROVE  transfer'[t] = transfer[t]
<1>1. transfer \in [TransferIds -> TransferDoc \cup {None}]
  BY DEF TypeOK, StoreTypeOK
<1>2. ASSUME NEW u \in TransferIds, NEW from \in Wallets, NEW to \in Wallets,
             NEW a \in Amounts, NEW k \in Keys \cup {NoKey}, Transfer(u, from, to, a, k)
      PROVE  transfer'[t] = transfer[t]
  BY <1>1, <1>2 DEF Transfer, Exists
<1>3. ASSUME NEW h \in Handlers, CompleteTransfer(h)
      PROVE  transfer'[t] = transfer[t]
  <2>1. PICK u : u = handler[h].msg.transfer
    OBVIOUS
  <2>2. u \in TransferIds
    BY <1>3, <2>1, CompletedIsNamed DEF Names
  <2>3. Pending(u)
    BY <1>3, <2>1 DEF CompleteTransfer
  <2>4. PICK d : transfer' = [transfer EXCEPT ![u] = d]
    BY <1>3, <2>1 DEF CompleteTransfer
  <2> QED BY <1>1, <2>2, <2>3, <2>4
<1>4. ASSUME NEW i \in Instances, NEW u \in TransferIds, SweepRefund(i, u)
      PROVE  transfer'[t] = transfer[t]
  BY <1>1, <1>4 DEF SweepRefund
<1>5. CASE UNCHANGED transfer
  BY <1>5
<1> QED
  BY <1>2, <1>3, <1>4, <1>5, WritingSteps
  DEF CreateWallet, Deposit, Withdraw, MarkPublished

\* Nor is it pending again.
LEMMA PendingBefore ==
  ASSUME TypeOK, PayloadAgreement, [Next]_vars,
         NEW t \in TransferIds, Exists(t), Pending(t)'
  PROVE  Pending(t)
BY EndedStays DEF Pending, InStatus, Exists

\* A message that is new has a new id, and the step that makes it ends no
\* transfer and claims nothing.
LEMMA NewMessagesAreNew ==
  ASSUME TypeOK, [Next]_vars
  PROVE  \/ /\ published' = published
            /\ \A m \in queue' \cup Held' : m \in queue \cup Held
         \/ \E n \in DOMAIN outbox :
              /\ Routed(outbox[n]) /\ published' = published + 1
              /\ inbox' = inbox /\ transfer' = transfer
              /\ \A m \in queue' \cup Held' :
                   m \in queue \cup Held \/ \E c \in {1, 2} : m = NewMessage(c, outbox[n])
<1>1. CASE \A i \in Instances : ~RelayStep(i)
  <2>1. published' = published
    <3>1. CASE Api \/ Expiry \/ ApiAborts
      BY <3>1 DEF Api, Expiry, ApiAborts, OnlyApi, brokerVars
    <3>2. CASE \/ \E i \in Instances : Delivers(i)
               \/ \E h \in Handlers : Handles(h)
      BY <3>2
      DEF Delivers, Deliver, Handles, CompleteTransfer, SkipTransfer, Ack, DuplicateRequeued,
          UncastableRequeued, NackRequeues, MalformedDropped, Requeue, DeadLetter, brokerVars
    <3>3. CASE ConsumerFaults \/ InboxExpiry
      BY <3>3
      DEF ConsumerFaults, FailureRequeued, CreditAborts, NackRequeues, ChannelLost, Requeue,
          InboxExpiry, InboxExpires, brokerVars
    <3>4. CASE \/ \E t \in TransferIds : Ages(t)
               \/ \E i \in Instances : SweepTicks(i)
               \/ \E i \in Instances, t \in TransferIds : Sweeps(i, t)
               \/ SweepFaults
      BY <3>4 DEF Ages, SweepTicks, Sweeps, SweepFaults, OnlySweep, brokerVars
    <3>5. CASE \/ \E i \in Instances : Crash(i) \/ Start(i)
               \/ \E h \in Handlers : UnhandledRejection(h)
      BY <3>5 DEF Crash, Start, UnhandledRejection, Dies, Requeue, brokerVars
    <3>6. CASE UNCHANGED vars
      BY <3>6 DEF vars, brokerVars
    <3> QED BY <1>1, <3>1, <3>2, <3>3, <3>4, <3>5, <3>6 DEF Next, RelayStep
  <2> QED BY <1>1, <2>1, OthersMoveMessages
<1>2. ASSUME NEW i \in Instances, RelayStep(i)
      PROVE  \/ /\ published' = published
                /\ \A m \in queue' \cup Held' : m \in queue \cup Held
             \/ \E n \in DOMAIN outbox :
                  /\ Routed(outbox[n]) /\ published' = published + 1
                  /\ inbox' = inbox /\ transfer' = transfer
                  /\ \A m \in queue' \cup Held' :
                       m \in queue \cup Held \/ \E c \in {1, 2} : m = NewMessage(c, outbox[n])
  <2>1. Held' = Held /\ inbox' = inbox /\ transfer' = transfer
    BY <1>2, RelaySends DEF Held, Busy
  <2> QED BY <1>2, <2>1, RelaySends
<1> QED BY <1>1, <1>2

\* Ids get into the inbox when a handler's transaction commits, and only so.
LEMMA InboxSteps ==
  ASSUME [Next]_vars
  PROVE  \/ inbox' \subseteq inbox
         \/ \E h \in Handlers :
              /\ CompleteTransfer(h) \/ SkipTransfer(h)
              /\ inbox' = inbox \cup {handler[h].msg.id}
<1>1. CASE Api \/ Expiry \/ ApiAborts
  BY <1>1 DEF Api, Expiry, ApiAborts, OnlyApi, consumerVars
<1>2. CASE \E i \in Instances : RelayStep(i)
  BY <1>2, RelaySends
<1>3. CASE \E i \in Instances : Delivers(i)
  BY <1>3 DEF Delivers, Deliver
<1>4. CASE \E h \in Handlers : Handles(h)
  BY <1>4
  DEF Handles, CompleteTransfer, SkipTransfer, Finish, Ack, DuplicateRequeued,
      UncastableRequeued, NackRequeues, MalformedDropped
<1>5. CASE ConsumerFaults \/ InboxExpiry
  BY <1>5
  DEF ConsumerFaults, FailureRequeued, CreditAborts, NackRequeues, ChannelLost,
      InboxExpiry, InboxExpires, consumerVars
<1>6. CASE \/ \E t \in TransferIds : Ages(t)
           \/ \E i \in Instances : SweepTicks(i)
           \/ \E i \in Instances, t \in TransferIds : Sweeps(i, t)
           \/ SweepFaults
  BY <1>6 DEF Ages, SweepTicks, Sweeps, SweepFaults, OnlySweep, consumerVars
<1>7. CASE \/ \E i \in Instances : Crash(i) \/ Start(i)
           \/ \E h \in Handlers : UnhandledRejection(h)
  BY <1>7 DEF Crash, Start, UnhandledRejection, Dies, consumerVars
<1>8. CASE UNCHANGED vars
  BY <1>8 DEF vars, consumerVars
<1> QED BY <1>1, <1>2, <1>3, <1>4, <1>5, <1>6, <1>7, <1>8 DEF Next, RelayStep

-----------------------------------------------------------------------------
(* A claimed id is of a transfer that has ended.                            *)

\* Ids are drawn one after the other, and claimed after they are drawn.
IdsAreDrawn ==
  /\ \A m \in queue \cup Held : m.id \in 1 .. published
  /\ inbox \subseteq 1 .. published

\* Copies with one id are of one message.
IdsIdentify ==
  \A m, x \in queue \cup Held : m.id = x.id => m.kind = x.kind /\ m.transfer = x.transfer

\* What is foreign names no transfer.
ForeignNamesNothing ==
  \A m \in queue \cup Held : m.kind # "initiated" => m.transfer = None

MessagesKnown == IdsAreDrawn /\ IdsIdentify /\ ForeignNamesNothing

LEMMA InitMessagesKnown ==
  ASSUME Init
  PROVE  MessagesKnown /\ ClaimedMeansResolved
<1>1. Held = {} /\ inbox = {}
  BY DEF Init, ConsumerInit, Held, Busy
<1>2. Len(Foreign) \in Nat /\ DOMAIN Foreign = 1 .. Len(Foreign) /\ published = Len(Foreign)
  BY BrokerAssumption, LenProperties DEF Init, BrokerInit
<1>3. \A m \in queue : \E n \in 1 .. published :
        m.id = n /\ m.kind = Foreign[n] /\ m.transfer = None
  BY <1>2 DEF Init, BrokerInit, ForeignMessage
<1> QED
  BY <1>1, <1>3 DEF MessagesKnown, IdsAreDrawn, IdsIdentify, ForeignNamesNothing,
                    ClaimedMeansResolved

LEMMA NextMessagesKnown ==
  ASSUME TypeOK, MessagesKnown, [Next]_vars
  PROVE  MessagesKnown'
<1>1. published \in Nat
  BY BrokerAssumption DEF TypeOK, BrokerTypeOK
<1>2. CASE /\ published' = published
           /\ \A m \in queue' \cup Held' : m \in queue \cup Held
  <2>1. inbox' \subseteq 1 .. published
    <3>1. ASSUME NEW h \in Handlers, CompleteTransfer(h) \/ SkipTransfer(h)
          PROVE  handler[h].msg.id \in 1 .. published
      BY <3>1 DEF CompleteTransfer, SkipTransfer, Claims, InStage, Busy, Held,
                  MessagesKnown, IdsAreDrawn
    <3>2. inbox \subseteq 1 .. published
      BY DEF MessagesKnown, IdsAreDrawn
    <3>3. ASSUME NEW id \in inbox' PROVE id \in 1 .. published
      <4>1. CASE inbox' \subseteq inbox
        BY <3>2, <3>3, <4>1
      <4>2. ASSUME NEW h \in Handlers, CompleteTransfer(h) \/ SkipTransfer(h),
                   inbox' = inbox \cup {handler[h].msg.id}
            PROVE  id \in 1 .. published
        BY <3>1, <3>2, <3>3, <4>2
      <4> QED BY <4>1, <4>2, InboxSteps
    <3> QED BY <3>3
  <2> QED BY <1>2, <2>1 DEF MessagesKnown, IdsAreDrawn, IdsIdentify, ForeignNamesNothing
<1>3. ASSUME NEW n \in DOMAIN outbox,
             Routed(outbox[n]), published' = published + 1, inbox' = inbox,
             \A m \in queue' \cup Held' :
               m \in queue \cup Held \/ \E c \in {1, 2} : m = NewMessage(c, outbox[n])
      PROVE  MessagesKnown'
  <2>1. \A c : /\ NewMessage(c, outbox[n]).id = published + 1
               /\ NewMessage(c, outbox[n]).kind = "initiated"
               /\ NewMessage(c, outbox[n]).transfer = outbox[n].transfer
    BY DEF NewMessage
  <2>2. \A m \in queue' \cup Held' :
          \/ m \in queue \cup Held
          \/ m.id = published + 1 /\ m.kind = "initiated" /\ m.transfer = outbox[n].transfer
    BY <1>3, <2>1
  <2>3. \A m \in queue \cup Held : m.id \in 1 .. published /\ m.id # published + 1
    BY <1>1 DEF MessagesKnown, IdsAreDrawn
  <2>4. IdsAreDrawn'
    <3>1. 1 .. published \subseteq 1 .. (published + 1) /\ published + 1 \in 1 .. (published + 1)
      BY <1>1
    <3> QED BY <1>3, <2>2, <2>3, <3>1 DEF MessagesKnown, IdsAreDrawn
  <2>5. IdsIdentify'
    BY <2>2, <2>3 DEF MessagesKnown, IdsIdentify
  <2>6. ForeignNamesNothing'
    BY <2>2 DEF MessagesKnown, ForeignNamesNothing
  <2> QED BY <2>4, <2>5, <2>6 DEF MessagesKnown
<1> QED BY <1>2, <1>3, NewMessagesAreNew

\* A handler whose transaction commits leaves the transfer of its message ended.
LEMMA CommitEnds ==
  ASSUME TypeOK, PayloadAgreement, NEW h \in Handlers,
         CompleteTransfer(h) \/ SkipTransfer(h), handler[h].msg.kind = "initiated"
  PROVE  LET t == handler[h].msg.transfer IN
           t \in TransferIds /\ Exists(t) /\ transfer'[t] # None /\ transfer'[t].status # "PENDING"
<1> DEFINE m == handler[h].msg
           t == m.transfer
<1>1. m \in Held
  BY DEF Held, Busy, CompleteTransfer, SkipTransfer, Claims, InStage
<1>2. t \in TransferIds /\ Exists(t)
  BY <1>1 DEF PayloadAgreement, Names
<1>3. transfer \in [TransferIds -> TransferDoc \cup {None}]
  BY DEF TypeOK, StoreTypeOK
<1>4. CASE CompleteTransfer(h)
  <2>1. PICK d : d = [transfer[t] EXCEPT !.status = "COMPLETED"]
    OBVIOUS
  <2>2. transfer[t] \in TransferDoc
    BY <1>2, <1>3 DEF Exists
  <2>3. d \in TransferDoc /\ d.status = "COMPLETED"
    BY <2>1, <2>2 DEF TransferDoc, TransferStatus
  <2>4. transfer'[t] = d
    BY <1>2, <1>3, <1>4, <2>1 DEF CompleteTransfer
  <2> QED BY <1>2, <2>3, <2>4, NoneAssumption
<1>5. CASE SkipTransfer(h)
  BY <1>2, <1>5 DEF SkipTransfer, storeVars, Pending, InStatus, Exists
<1> QED BY <1>4, <1>5

LEMMA NextClaimed ==
  ASSUME TypeOK, PayloadAgreement, MessagesKnown, ClaimedMeansResolved, [Next]_vars
  PROVE  ClaimedMeansResolved'
<1> SUFFICES ASSUME NEW m \in queue' \cup Held', m.id \in inbox', m.kind = "initiated"
             PROVE  transfer'[m.transfer] # None /\ transfer'[m.transfer].status # "PENDING"
  BY DEF ClaimedMeansResolved, Exists, Pending, InStatus
<1>1. published \in Nat
  BY BrokerAssumption DEF TypeOK, BrokerTypeOK
<1>2. CASE m \in queue \cup Held
  <2>1. m.transfer \in TransferIds /\ Exists(m.transfer)
    BY <1>2 DEF PayloadAgreement, Names
  <2>2. CASE m.id \in inbox
    <3>1. ~Pending(m.transfer)
      BY <1>2, <2>2 DEF ClaimedMeansResolved
    <3>2. transfer'[m.transfer] = transfer[m.transfer]
      BY <2>1, <3>1, EndedStays
    <3> QED BY <2>1, <3>1, <3>2 DEF Exists, Pending, InStatus
  <2>3. ASSUME NEW h \in Handlers, CompleteTransfer(h) \/ SkipTransfer(h),
               m.id = handler[h].msg.id
        PROVE  transfer'[m.transfer] # None /\ transfer'[m.transfer].status # "PENDING"
    <3>1. handler[h].msg \in Held
      BY <2>3 DEF Held, Busy, CompleteTransfer, SkipTransfer, Claims, InStage
    <3>2. handler[h].msg.kind = "initiated" /\ handler[h].msg.transfer = m.transfer
      BY <1>2, <2>3, <3>1 DEF MessagesKnown, IdsIdentify
    <3> QED BY <2>3, <3>2, CommitEnds
  <2> QED BY <2>2, <2>3, InboxSteps
<1>3. CASE m \notin queue \cup Held
  <2>1. PICK n \in DOMAIN outbox, c \in {1, 2} : inbox' = inbox /\ m = NewMessage(c, outbox[n])
    BY <1>3, NewMessagesAreNew
  <2>2. m.id = published + 1
    BY <2>1 DEF NewMessage
  <2> QED BY <1>1, <2>1, <2>2 DEF MessagesKnown, IdsAreDrawn
<1> QED BY <1>2, <1>3

\* The inbox never makes the consumer pass over a transfer that is pending.
THEOREM ClaimsAreOfTheEnded == Spec => []ClaimedMeansResolved
<1>1. Init => MessagesKnown /\ ClaimedMeansResolved
  BY InitMessagesKnown
<1>2. TypeOK /\ PayloadAgreement /\ MessagesKnown /\ ClaimedMeansResolved /\ [Next]_vars
        => (MessagesKnown /\ ClaimedMeansResolved)'
  BY NextMessagesKnown, NextClaimed
<1> QED BY <1>1, <1>2, TypeCorrect, PayloadsAgree, PTL DEF Spec

-----------------------------------------------------------------------------
(* An event that is marked published has a message in the broker's hands.   *)

\* A handler is done with a message when its transfer has ended.
DoneMeansEnded ==
  \A h \in Handlers :
    InStage(h, "done") /\ handler[h].msg.kind = "initiated" => ~Pending(handler[h].msg.transfer)

\* The broker keeps a message of a pending transfer: acks and dead letters are
\* of messages whose work is done, or that name no transfer.
LEMMA BrokerKeeps ==
  ASSUME TypeOK, ForeignNamesNothing, DoneMeansEnded, [Next]_vars,
         NEW m \in InBroker, m.transfer \in TransferIds, Pending(m.transfer)
  PROVE  m \in InBroker'
<1> USE DEF InBroker, Busy
<1>1. handler \in [Handlers -> Delivery \cup {None}]
  BY DEF TypeOK, ConsumerTypeOK
<1>2. m.transfer # None
  BY StoreAssumption
<1>3. CASE UNCHANGED <<queue, handler>>
  BY <1>3
<1>4. ASSUME NEW i \in Instances, RelayStep(i) PROVE m \in InBroker'
  BY <1>4, RelaySends
<1>5. ASSUME NEW i \in Instances, Delivers(i) PROVE m \in InBroker'
  <2>1. PICK h \in Handlers, x \in queue : Deliver(h, i, x)
    BY <1>5 DEF Delivers
  <2>2. PICK d : /\ d = [msg |-> x, inst |-> i, open |-> TRUE, stage |-> "running"]
                 /\ handler' = [handler EXCEPT ![h] = d]
    BY <2>1 DEF Deliver
  <2>3. d \in Delivery
    BY <2>1, <2>2 DEF Delivery, TypeOK, BrokerTypeOK
  <2>4. d # None
    BY <2>3, NoneNotDelivery
  <2> QED BY <1>1, <2>1, <2>2, <2>4 DEF Deliver
<1>6. ASSUME NEW h \in Handlers,
             Handles(h) \/ FailureRequeued(h) \/ CreditAborts(h)
      PROVE  m \in InBroker'
  <2>1. CASE CompleteTransfer(h) \/ SkipTransfer(h)
    <3>1. queue' = queue /\ handler' = [handler EXCEPT ![h].stage = "done"] /\ handler[h] \in Delivery
      BY <1>1, <2>1 DEF CompleteTransfer, SkipTransfer, Finish, brokerVars, Claims, InStage
    <3>2. handler'[h] \in Delivery
      BY <1>1, <3>1 DEF Delivery
    <3>3. \A g \in Handlers : handler[g] # None =>
            handler'[g] # None /\ handler'[g].msg = handler[g].msg
              /\ handler'[g].open = handler[g].open
      BY <1>1, <3>1, <3>2, NoneNotDelivery DEF Delivery
    <3> QED BY <3>1, <3>3
  <2>2. CASE Ack(h)
    <3>1. handler[h].msg.kind = "initiated" => ~Pending(handler[h].msg.transfer)
      BY <2>2 DEF Ack, DoneMeansEnded
    <3>2. handler[h].msg.kind # "initiated" => handler[h].msg.transfer = None
      BY <2>2 DEF Ack, InStage, ForeignNamesNothing, Held
    <3>3. m # handler[h].msg
      BY <1>2, <3>1, <3>2
    <3> QED BY <1>1, <2>2, <3>3 DEF Ack, brokerVars
  <2>3. CASE Busy(h) /\ NackRequeues(h)
    BY <1>1, <2>3 DEF NackRequeues, Requeue
  <2>4. CASE MalformedDropped(h)
    <3>1. handler[h].msg.transfer = None
      BY <2>4 DEF MalformedDropped, InStage, ForeignNamesNothing, Held
    <3> QED BY <1>1, <1>2, <2>4, <3>1 DEF MalformedDropped, DeadLetter
  <2>5. CASE CreditAborts(h)
    BY <2>5 DEF CreditAborts, brokerVars, consumerVars
  <2> QED
    BY <1>6, <2>1, <2>2, <2>3, <2>4, <2>5
    DEF Handles, DuplicateRequeued, UncastableRequeued, FailureRequeued, Duplicate,
        Uncastable, Claims, InStage
<1>7. ASSUME NEW i \in Instances, ChannelLost(i) PROVE m \in InBroker'
  <2>1. queue' = queue \cup {handler[h].msg : h \in Unacked(i)}
    BY <1>7 DEF ChannelLost, Requeue
  <2>2. \A h \in Handlers \ Unacked(i) : handler'[h] = handler[h]
    BY <1>7 DEF ChannelLost
  <2> QED BY <2>1, <2>2
<1>8. ASSUME NEW i, Dies(i) PROVE m \in InBroker'
  <2>1. queue' = queue \cup {handler[h].msg : h \in Unacked(i)}
    BY <1>8 DEF Dies, Requeue
  <2>2. \A h \in Handlers : handler[h] # None /\ handler[h].open =>
          h \in Unacked(i) \/ handler'[h] = handler[h]
    BY <1>8 DEF Dies, Unacked
  <2> QED BY <2>1, <2>2
<1>9. CASE Api \/ Expiry \/ ApiAborts
  BY <1>3, <1>9 DEF Api, Expiry, ApiAborts, OnlyApi, brokerVars, consumerVars
<1>10. CASE \/ \E t \in TransferIds : Ages(t)
            \/ \E i \in Instances : SweepTicks(i)
            \/ \E i \in Instances, t \in TransferIds : Sweeps(i, t)
            \/ SweepFaults
  BY <1>3, <1>10 DEF Ages, SweepTicks, Sweeps, SweepFaults, OnlySweep, brokerVars, consumerVars
<1>11. CASE InboxExpiry
  BY <1>3, <1>11 DEF InboxExpiry, InboxExpires, brokerVars
<1>12. CASE \E i \in Instances : Start(i)
  BY <1>3, <1>12 DEF Start, brokerVars, consumerVars
<1>13. CASE UNCHANGED vars
  BY <1>3, <1>13 DEF vars, brokerVars, consumerVars
<1> QED
  BY <1>4, <1>5, <1>6, <1>7, <1>8, <1>9, <1>10, <1>11, <1>12, <1>13
  DEF Next, RelayStep, ConsumerFaults, Crash, UnhandledRejection

\* A handler gets done with its message when its transaction commits.
LEMMA DoneIsReached ==
  ASSUME TypeOK, [Next]_vars, NEW h \in Handlers,
         handler'[h] # None, handler'[h].stage = "done"
  PROVE  /\ Busy(h)
         /\ handler'[h].msg = handler[h].msg
         /\ handler[h].stage = "done" \/ CompleteTransfer(h) \/ SkipTransfer(h)
<1> USE DEF Busy
<1> DEFINE Reached ==
      /\ Busy(h)
      /\ handler'[h].msg = handler[h].msg
      /\ handler[h].stage = "done" \/ CompleteTransfer(h) \/ SkipTransfer(h)
<1>1. handler \in [Handlers -> Delivery \cup {None}]
  BY DEF TypeOK, ConsumerTypeOK
<1>2. CASE UNCHANGED handler
  BY <1>2
<1>3. ASSUME NEW i \in Instances, RelayStep(i) PROVE Reached
  BY <1>3, <1>2, RelaySends
<1>4. ASSUME NEW i \in Instances, Delivers(i) PROVE Reached
  <2>1. PICK g \in Handlers, x \in queue : Deliver(g, i, x)
    BY <1>4 DEF Delivers
  <2>2. PICK d : /\ d = [msg |-> x, inst |-> i, open |-> TRUE, stage |-> "running"]
                 /\ handler' = [handler EXCEPT ![g] = d]
    BY <2>1 DEF Deliver
  <2>3. d.stage # "done"
    BY <2>2
  <2> QED BY <1>1, <2>2, <2>3
<1>5. ASSUME NEW g \in Handlers,
             Handles(g) \/ FailureRequeued(g) \/ CreditAborts(g)
      PROVE  Reached
  <2>1. CASE CompleteTransfer(g) \/ SkipTransfer(g)
    <3>1. handler' = [handler EXCEPT ![g].stage = "done"] /\ handler[g] \in Delivery
      BY <1>1, <2>1 DEF CompleteTransfer, SkipTransfer, Finish, Claims, InStage
    <3>2. handler[g] # None /\ handler'[g].msg = handler[g].msg
      BY <1>1, <3>1, NoneNotDelivery DEF Delivery
    <3> QED BY <1>1, <2>1, <3>1, <3>2
  <2>2. CASE handler' = [handler EXCEPT ![g] = None]
    BY <1>1, <2>2
  <2>3. CASE CreditAborts(g)
    BY <1>2, <2>3 DEF CreditAborts, consumerVars
  <2> QED
    BY <1>5, <2>1, <2>2, <2>3
    DEF Handles, DuplicateRequeued, UncastableRequeued, FailureRequeued, NackRequeues, Ack,
        MalformedDropped
<1>6. ASSUME NEW i \in Instances, ChannelLost(i) PROVE Reached
  <2>1. handler'[h] = IF h \in Unacked(i) THEN [handler[h] EXCEPT !.open = FALSE] ELSE handler[h]
    BY <1>6 DEF ChannelLost
  <2>2. CASE h \notin Unacked(i)
    BY <2>1, <2>2
  <2>3. CASE h \in Unacked(i)
    <3>1. handler[h] \in Delivery /\ handler[h] # None
      BY <1>1, <2>3 DEF Unacked
    <3> QED BY <2>1, <2>3, <3>1 DEF Delivery
  <2> QED BY <2>2, <2>3
<1>7. ASSUME NEW i, Dies(i) PROVE Reached
  BY <1>7 DEF Dies
<1>8. CASE Api \/ Expiry \/ ApiAborts
  BY <1>2, <1>8 DEF Api, Expiry, ApiAborts, OnlyApi, consumerVars
<1>9. CASE \/ \E t \in TransferIds : Ages(t)
           \/ \E i \in Instances : SweepTicks(i)
           \/ \E i \in Instances, t \in TransferIds : Sweeps(i, t)
           \/ SweepFaults
  BY <1>2, <1>9 DEF Ages, SweepTicks, Sweeps, SweepFaults, OnlySweep, consumerVars
<1>10. CASE InboxExpiry
  BY <1>2, <1>10 DEF InboxExpiry, InboxExpires
<1>11. CASE \E i \in Instances : Start(i)
  BY <1>2, <1>11 DEF Start, consumerVars
<1>12. CASE UNCHANGED vars
  BY <1>2, <1>12 DEF vars, consumerVars
<1> QED
  BY <1>3, <1>4, <1>5, <1>6, <1>7, <1>8, <1>9, <1>10, <1>11, <1>12
  DEF Next, RelayStep, ConsumerFaults, Crash, UnhandledRejection

LEMMA NextDone ==
  ASSUME TypeOK, PayloadAgreement, DoneMeansEnded, [Next]_vars
  PROVE  DoneMeansEnded'
<1> SUFFICES ASSUME NEW h \in Handlers, handler'[h] # None, handler'[h].stage = "done",
                    handler'[h].msg.kind = "initiated"
             PROVE  LET t == handler'[h].msg.transfer IN transfer'[t].status # "PENDING"
  BY DEF DoneMeansEnded, InStage, Busy, Pending, InStatus
<1> DEFINE t == handler[h].msg.transfer
<1>1. /\ Busy(h) /\ handler'[h].msg = handler[h].msg
      /\ handler[h].stage = "done" \/ CompleteTransfer(h) \/ SkipTransfer(h)
  BY DoneIsReached
<1>2. t \in TransferIds /\ Exists(t)
  BY <1>1 DEF PayloadAgreement, Names, Held
<1>3. CASE handler[h].stage = "done"
  <2>1. ~Pending(t)
    BY <1>1, <1>3 DEF DoneMeansEnded, InStage
  <2> QED BY <1>1, <1>2, <2>1, EndedStays DEF Pending, InStatus, Exists
<1>4. CASE CompleteTransfer(h) \/ SkipTransfer(h)
  BY <1>1, <1>4, CommitEnds
<1> QED BY <1>1, <1>3, <1>4

\* What a step does to the events of the outbox: they keep what they say, and
\* only a relay marks them.
LEMMA OutboxSteps ==
  ASSUME TypeOK, [Next]_vars
  PROVE  /\ DOMAIN outbox \subseteq DOMAIN outbox'
         /\ \A n \in DOMAIN outbox :
              /\ outbox'[n].routingKey = outbox[n].routingKey
              /\ outbox'[n].transfer = outbox[n].transfer
              /\ \/ outbox'[n].status = outbox[n].status
                 \/ \E i \in Instances : MarkPublished(i, n)
         /\ \A n \in DOMAIN outbox' \ DOMAIN outbox : outbox'[n].status = "PENDING"
<1>1. outbox \in Seq(OutboxEvent) /\ DOMAIN outbox = 1..Len(outbox) /\ Len(outbox) \in Nat
  BY LenProperties DEF TypeOK, StoreTypeOK
<1>2. CASE outbox' = outbox
  BY <1>2
<1>3. ASSUME NEW key \in RoutingKey, NEW t \in TransferIds \cup {None},
             NEW w \in Wallets, NEW a \in Nat, Enqueue(key, t, w, a)
      PROVE  /\ DOMAIN outbox \subseteq DOMAIN outbox'
             /\ \A n \in DOMAIN outbox : outbox'[n] = outbox[n]
             /\ \A n \in DOMAIN outbox' \ DOMAIN outbox : outbox'[n].status = "PENDING"
  <2>1. PICK e : /\ e = [routingKey |-> key, transfer |-> t, wallet |-> w, amount |-> a,
                         status |-> "PENDING"]
                 /\ outbox' = Append(outbox, e)
    BY <1>3 DEF Enqueue
  <2>2. e \in OutboxEvent /\ e.status = "PENDING"
    BY <2>1 DEF OutboxEvent, OutboxStatus
  <2> QED BY <1>1, <2>1, <2>2, AppendProperties, LenProperties
<1>4. ASSUME NEW i \in Instances, NEW x \in DOMAIN outbox, MarkPublished(i, x)
      PROVE  /\ DOMAIN outbox' = DOMAIN outbox
             /\ \A n \in DOMAIN outbox :
                  /\ outbox'[n].routingKey = outbox[n].routingKey
                  /\ outbox'[n].transfer = outbox[n].transfer
                  /\ n # x => outbox'[n].status = outbox[n].status
  <2>1. \A n \in DOMAIN outbox : outbox[n] \in OutboxEvent
    BY <1>1, ElementOfSeq
  <2> QED BY <1>4, <2>1 DEF MarkPublished, OutboxEvent
<1>5. ASSUME NEW w \in Wallets, CreateWallet(w)
      PROVE  \E t \in TransferIds \cup {None}, a \in Nat, key \in RoutingKey : Enqueue(key, t, w, a)
  BY <1>5 DEF CreateWallet, RoutingKey
<1>6. ASSUME NEW w \in Wallets, NEW a \in Amounts, Deposit(w, a) \/ Withdraw(w, a)
      PROVE  \E t \in TransferIds \cup {None}, b \in Nat, key \in RoutingKey : Enqueue(key, t, w, b)
  BY <1>6, AmountsAreNaturals DEF Deposit, Withdraw, RoutingKey
<1>7. ASSUME NEW t \in TransferIds, NEW from \in Wallets, NEW to \in Wallets,
             NEW a \in Amounts, NEW k \in Keys \cup {NoKey}, Transfer(t, from, to, a, k)
      PROVE  \E b \in Nat, key \in RoutingKey : Enqueue(key, t, to, b)
  BY <1>7, AmountsAreNaturals DEF Transfer, RoutingKey
<1> QED
  BY <1>2, <1>3, <1>4, <1>5, <1>6, <1>7, WritingSteps DEF CompleteTransfer, SweepRefund

\* What a step does to the relay of a process: nothing; it starts over or
\* moves on, the next event unsent; or it sends the event it has reached.
LEMMA RelaySteps ==
  ASSUME TypeOK, [Next]_vars, NEW i \in Instances
  PROVE  \/ relay'[i] = relay[i]
         \/ /\ relay'[i].sent = FALSE
            /\ relay'[i].todo \subseteq relay[i].todo \cup DOMAIN outbox
         \/ /\ relay'[i].todo = relay[i].todo
            /\ \E n \in DOMAIN outbox :
                 Current(i, n) /\ (Routed(outbox[n]) => NewMessage(1, outbox[n]) \in queue')
<1> DEFINE Moves ==
      \/ relay'[i] = relay[i]
      \/ /\ relay'[i].sent = FALSE
         /\ relay'[i].todo \subseteq relay[i].todo \cup DOMAIN outbox
      \/ /\ relay'[i].todo = relay[i].todo
         /\ \E n \in DOMAIN outbox :
              Current(i, n) /\ (Routed(outbox[n]) => NewMessage(1, outbox[n]) \in queue')
<1>1. relay \in [Instances -> RelayState]
  BY DEF TypeOK, RelayTypeOK
<1>2. CASE relay' = relay
  BY <1>2
<1>3. ASSUME NEW j \in Instances, RelayStep(j) PROVE Moves
  <2>1. CASE i # j
    BY <1>1, <1>3, <2>1
    DEF RelayStep, RelayTicks, Publishes, Marks, RelayFaults, RelayTick, Publish,
        PublishFails, MarkPublished, MarkFails
  <2>2. CASE RelayTick(i)
    BY <1>1, <2>2 DEF RelayTick, Batch, PendingEvents
  <2>3. ASSUME NEW n \in DOMAIN outbox, NEW copies \in {{1}, {1, 2}}, Publish(i, n, copies)
        PROVE  Moves
    <3>1. Current(i, n) /\ relay' = [relay EXCEPT ![i].sent = TRUE]
      BY <2>3 DEF Publish
    <3>2. relay'[i].todo = relay[i].todo
      BY <1>1, <3>1 DEF RelayState
    <3>3. Routed(outbox[n]) => NewMessage(1, outbox[n]) \in queue'
      BY <2>3 DEF Publish, PublishCopies
    <3> QED BY <3>1, <3>2, <3>3
  <2>4. ASSUME NEW n \in DOMAIN outbox, MarkPublished(i, n) PROVE Moves
    BY <1>1, <2>4 DEF MarkPublished, RelayState
  <2>5. CASE relay' = [relay EXCEPT ![i] = IdleRelay]
    BY <1>1, <2>5 DEF IdleRelay
  <2> QED
    BY <1>3, <2>1, <2>2, <2>3, <2>4, <2>5
    DEF RelayStep, RelayTicks, Publishes, Marks, RelayFaults, PublishFails, MarkFails
<1>4. ASSUME NEW j, Dies(j) PROVE Moves
  BY <1>1, <1>4 DEF Dies, IdleRelay
<1>5. CASE Api \/ Expiry \/ ApiAborts
  BY <1>2, <1>5 DEF Api, Expiry, ApiAborts, OnlyApi
<1>6. CASE \/ \E j \in Instances : Delivers(j)
           \/ \E h \in Handlers : Handles(h)
           \/ ConsumerFaults \/ InboxExpiry
  BY <1>2, <1>6 DEF Delivers, Handles, ConsumerFaults, InboxExpiry, OnlyConsumer
<1>7. CASE \/ \E t \in TransferIds : Ages(t)
           \/ \E j \in Instances : SweepTicks(j)
           \/ \E j \in Instances, t \in TransferIds : Sweeps(j, t)
           \/ SweepFaults
  BY <1>2, <1>7 DEF Ages, SweepTicks, Sweeps, SweepFaults, OnlySweep
<1>8. CASE (\E j \in Instances : Start(j)) \/ UNCHANGED vars
  BY <1>2, <1>8 DEF Start, vars
<1> QED
  BY <1>3, <1>4, <1>5, <1>6, <1>7, <1>8 DEF Next, RelayStep, Crash, UnhandledRejection

\* A relay works on events that exist, and the broker has a message of the one
\* that it has sent and not yet marked.
RelayKnows == \A i \in Instances : relay[i].todo \subseteq DOMAIN outbox

Covered(t) == \E m \in InBroker : m.transfer = t
CoveredNext(t) == \E m \in InBroker' : m.transfer = t

SentMeansCovered ==
  \A i \in Instances, n \in DOMAIN outbox :
    Current(i, n) /\ relay[i].sent /\ Routed(outbox[n]) /\ Pending(outbox[n].transfer) =>
      Covered(outbox[n].transfer)

Covers == ForeignNamesNothing /\ DoneMeansEnded /\ RelayKnows /\ SentMeansCovered

\* An event whose transfer is pending, and covered before the step, still is.
LEMMA CoverStays ==
  ASSUME TypeOK, PayloadAgreement, Covers, [Next]_vars, NEW n \in DOMAIN outbox,
         Routed(outbox[n]), NEW t, t = outbox[n].transfer,
         transfer'[t] # None, transfer'[t].status = "PENDING"
  PROVE  Pending(t) /\ (Covered(t) => CoveredNext(t))
<1>1. t \in TransferIds /\ Exists(t)
  BY DEF PayloadAgreement, Names
<1>2. Pending(t)
  BY <1>1, EndedStays DEF Pending, InStatus, Exists
<1>3. ASSUME NEW m \in InBroker, m.transfer = t PROVE m \in InBroker'
  BY <1>1, <1>2, <1>3, BrokerKeeps DEF Covers
<1> QED BY <1>2, <1>3 DEF Covered, CoveredNext

LEMMA NextCovers ==
  ASSUME TypeOK, PayloadAgreement, Covers, [Next]_vars
  PROVE  RelayKnows' /\ SentMeansCovered'
<1>1. relay \in [Instances -> RelayState] /\ MaxEvents \in Nat
  BY AmountsAreNaturals DEF TypeOK, RelayTypeOK
<1>2. ASSUME NEW i \in Instances PROVE relay'[i].todo \subseteq DOMAIN outbox
  BY RelaySteps DEF Covers, RelayKnows
<1>3. RelayKnows'
  BY <1>2, OutboxSteps DEF RelayKnows
<1>4. SentMeansCovered'
  <2> SUFFICES ASSUME NEW i \in Instances, NEW n \in DOMAIN outbox',
                      n \in relay'[i].todo, \A m \in relay'[i].todo : n <= m,
                      relay'[i].sent, Routed(outbox'[n]),
                      transfer'[outbox'[n].transfer] # None,
                      transfer'[outbox'[n].transfer].status = "PENDING"
               PROVE  CoveredNext(outbox'[n].transfer)
    BY DEF SentMeansCovered, Covered, CoveredNext, Current, Routed, Pending, InStatus
  <2>1. n \in DOMAIN outbox
    BY <1>2
  <2>2. PICK t : t = outbox[n].transfer
    OBVIOUS
  <2>3. Routed(outbox[n]) /\ outbox'[n].transfer = t
    BY <2>1, <2>2, OutboxSteps DEF Routed
  <2>4. Pending(t) /\ (Covered(t) => CoveredNext(t))
    BY <2>1, <2>2, <2>3, CoverStays
  <2>5. CASE relay'[i] = relay[i]
    <3>1. Covered(t)
      BY <2>1, <2>2, <2>3, <2>4, <2>5 DEF Covers, SentMeansCovered, Current
    <3> QED BY <2>3, <2>4, <3>1
  <2>6. ASSUME relay'[i].todo = relay[i].todo, NEW x \in DOMAIN outbox, Current(i, x),
               Routed(outbox[x]) => NewMessage(1, outbox[x]) \in queue'
        PROVE  CoveredNext(outbox'[n].transfer)
    <3>1. x = n
      <4>1. relay[i].todo \subseteq 1 .. MaxEvents
        BY <1>1 DEF RelayState
      <4>2. x \in Int /\ n \in Int /\ x <= n /\ n <= x
        BY <1>1, <2>6, <4>1 DEF Current
      <4> QED BY <4>2
    <3>2. NewMessage(1, outbox[n]) \in InBroker' /\ NewMessage(1, outbox[n]).transfer = t
      BY <2>2, <2>3, <2>6, <3>1 DEF InBroker, NewMessage
    <3> QED BY <2>3, <3>2 DEF CoveredNext
  <2> QED BY <2>5, <2>6, RelaySteps
<1> QED BY <1>3, <1>4

LEMMA NextNothingLost ==
  ASSUME TypeOK, PayloadAgreement, Covers, NoMessageLost, [Next]_vars
  PROVE  NoMessageLost'
<1> SUFFICES ASSUME NEW n \in DOMAIN outbox', Routed(outbox'[n]), outbox'[n].status = "PUBLISHED",
                    transfer'[outbox'[n].transfer] # None,
                    transfer'[outbox'[n].transfer].status = "PENDING"
             PROVE  CoveredNext(outbox'[n].transfer)
  BY DEF NoMessageLost, CoveredNext, Routed, Pending, InStatus
<1>1. n \in DOMAIN outbox
  BY OutboxSteps
<1>2. PICK t : t = outbox[n].transfer
  OBVIOUS
<1>3. Routed(outbox[n]) /\ outbox'[n].transfer = t
  BY <1>1, <1>2, OutboxSteps DEF Routed
<1>4. Pending(t) /\ (Covered(t) => CoveredNext(t))
  BY <1>1, <1>2, <1>3, CoverStays
<1>5. ASSUME outbox[n].status = "PUBLISHED" PROVE Covered(t)
  BY <1>1, <1>2, <1>3, <1>4, <1>5 DEF NoMessageLost, Covered
<1>6. ASSUME NEW i \in Instances, MarkPublished(i, n) PROVE Covered(t)
  BY <1>1, <1>2, <1>3, <1>4, <1>6 DEF Covers, SentMeansCovered, MarkPublished
<1>7. Covered(t)
  BY <1>1, <1>2, <1>4, <1>5, <1>6, OutboxSteps
<1> QED BY <1>3, <1>4, <1>7

\* The event of a pending transfer is marked published only while the broker
\* still has a message of it to deliver, whatever fails and dies.
THEOREM NothingIsLost == Spec => []NoMessageLost
<1>1. Init => DoneMeansEnded /\ RelayKnows /\ SentMeansCovered /\ NoMessageLost
  <2> SUFFICES ASSUME Init PROVE DoneMeansEnded /\ RelayKnows /\ SentMeansCovered /\ NoMessageLost
    OBVIOUS
  <2>1. DOMAIN outbox = {} /\ \A h \in Handlers : handler[h] = None
    BY DEF Init, StoreInit, ConsumerInit
  <2>2. \A i \in Instances : relay[i].todo = {}
    BY DEF Init, RelayInit, IdleRelay
  <2> QED
    BY <2>1, <2>2
    DEF DoneMeansEnded, InStage, Busy, RelayKnows, SentMeansCovered, NoMessageLost
<1>2. TypeOK /\ PayloadAgreement /\ MessagesKnown /\ DoneMeansEnded /\ RelayKnows
      /\ SentMeansCovered /\ NoMessageLost /\ [Next]_vars
        => (DoneMeansEnded /\ RelayKnows /\ SentMeansCovered /\ NoMessageLost)'
  BY NextDone, NextCovers, NextNothingLost DEF Covers, MessagesKnown
<1>3. Spec => []MessagesKnown
  <2>1. Init => MessagesKnown
    BY InitMessagesKnown
  <2>2. TypeOK /\ MessagesKnown /\ [Next]_vars => MessagesKnown'
    BY NextMessagesKnown
  <2> QED BY <2>1, <2>2, TypeCorrect, PTL DEF Spec
<1> QED BY <1>1, <1>2, <1>3, TypeCorrect, PayloadsAgree, PTL DEF Spec

-----------------------------------------------------------------------------
(* How many messages the relays send: one for each event and process, and   *)
(* one more for each fault.                                                 *)
(*                                                                          *)
(* A process spends a pair of itself and an event when it sends the event,  *)
(* and does not get the pair back but by a fault: it drops an event that    *)
(* it has sent only when the mark fails or the process dies.  A process     *)
(* also dies without a new fault, of a handler whose channel was lost, but  *)
(* once for each loss: Mourning are the processes that have such a death    *)
(* still to come.                                                           *)

\* A relay in state r has sent event n of outbox o, or need not send it again.
Spends(o, r, n) ==
  /\ Routed(o[n])
  /\ \/ o[n].status = "PUBLISHED" /\ n \notin r.todo
     \/ r.sent /\ n \in r.todo /\ \A m \in r.todo : n <= m

Spent == {p \in Instances \X DOMAIN outbox : Spends(outbox, relay[p[1]], p[2])}

Mourning ==
  {i \in Instances : \E h \in Handlers : Busy(h) /\ handler[h].inst = i /\ ~handler[h].open}

SentBounded ==
  published + Cardinality(Mourning) <= Len(Foreign) + faults + Cardinality(Spent)

-----------------------------------------------------------------------------
(* What a step does to the processes in mourning.                           *)

\* A handler whose channel is closed was there before, and the channel was
\* closed already, or is lost in this step.
LEMMA ClosedBefore ==
  ASSUME TypeOK, [Next]_vars, NEW h \in Handlers, handler'[h] # None, ~handler'[h].open
  PROVE  /\ Busy(h)
         /\ handler'[h].inst = handler[h].inst
         /\ handler[h].inst \in Instances
         /\ ~handler[h].open \/ (faults' = faults + 1 /\ ChannelLost(handler[h].inst)
                                   /\ OnlyConsumer)
<1> USE DEF Busy
<1> DEFINE Was ==
      /\ Busy(h)
      /\ handler'[h].inst = handler[h].inst
      /\ handler[h].inst \in Instances
      /\ ~handler[h].open \/ (faults' = faults + 1 /\ ChannelLost(handler[h].inst)
                                /\ OnlyConsumer)
<1>1. handler \in [Handlers -> Delivery \cup {None}]
  BY DEF TypeOK, ConsumerTypeOK
<1>2. CASE handler'[h] = handler[h]
  BY <1>1, <1>2 DEF Delivery
<1>3. ASSUME NEW i \in Instances, RelayStep(i) PROVE Was
  BY <1>3, <1>2, RelaySends
<1>4. ASSUME NEW i \in Instances, Delivers(i) PROVE Was
  <2>1. PICK g \in Handlers, x \in queue : Deliver(g, i, x)
    BY <1>4 DEF Delivers
  <2>2. PICK d : /\ d = [msg |-> x, inst |-> i, open |-> TRUE, stage |-> "running"]
                 /\ handler' = [handler EXCEPT ![g] = d]
    BY <2>1 DEF Deliver
  <2>3. d.open
    BY <2>2
  <2> QED BY <1>1, <1>2, <2>2, <2>3
<1>5. ASSUME NEW g \in Handlers,
             Handles(g) \/ FailureRequeued(g) \/ CreditAborts(g)
      PROVE  Was
  <2>1. CASE CompleteTransfer(g) \/ SkipTransfer(g)
    <3>1. handler' = [handler EXCEPT ![g].stage = "done"] /\ handler[g] \in Delivery
      BY <1>1, <2>1 DEF CompleteTransfer, SkipTransfer, Finish, Claims, InStage
    <3>2. /\ handler[g] # None /\ handler'[g].inst = handler[g].inst
          /\ handler'[g].open = handler[g].open /\ handler[g].inst \in Instances
      BY <1>1, <3>1, NoneNotDelivery DEF Delivery
    <3> QED BY <1>1, <1>2, <2>1, <3>1, <3>2
  <2>2. CASE handler' = [handler EXCEPT ![g] = None]
    BY <1>1, <1>2, <2>2
  <2>3. CASE CreditAborts(g)
    BY <1>2, <2>3 DEF CreditAborts, consumerVars
  <2> QED
    BY <1>5, <2>1, <2>2, <2>3
    DEF Handles, DuplicateRequeued, UncastableRequeued, FailureRequeued, NackRequeues, Ack,
        MalformedDropped
<1>6. ASSUME NEW i \in Instances, ChannelLost(i), OnlyConsumer, Fault PROVE Was
  <2>1. handler'[h] = IF h \in Unacked(i) THEN [handler[h] EXCEPT !.open = FALSE] ELSE handler[h]
    BY <1>6 DEF ChannelLost
  <2>2. CASE h \notin Unacked(i)
    BY <1>2, <2>1, <2>2
  <2>3. CASE h \in Unacked(i)
    <3>1. handler[h] \in Delivery /\ handler[h] # None /\ handler[h].inst = i
      BY <1>1, <2>3 DEF Unacked
    <3> QED BY <1>6, <2>1, <2>3, <3>1 DEF Delivery, Fault
  <2> QED BY <2>2, <2>3
<1>7. ASSUME NEW i, Dies(i) PROVE Was
  BY <1>2, <1>7 DEF Dies
<1>8. CASE Api \/ Expiry \/ ApiAborts
  BY <1>2, <1>8 DEF Api, Expiry, ApiAborts, OnlyApi, consumerVars
<1>9. CASE \/ \E t \in TransferIds : Ages(t)
           \/ \E i \in Instances : SweepTicks(i)
           \/ \E i \in Instances, t \in TransferIds : Sweeps(i, t)
           \/ SweepFaults
  BY <1>2, <1>9 DEF Ages, SweepTicks, Sweeps, SweepFaults, OnlySweep, consumerVars
<1>10. CASE InboxExpiry
  BY <1>2, <1>10 DEF InboxExpiry, InboxExpires
<1>11. CASE \E i \in Instances : Start(i)
  BY <1>2, <1>11 DEF Start, consumerVars
<1>12. CASE UNCHANGED vars
  BY <1>2, <1>12 DEF vars, consumerVars
<1> QED
  BY <1>3, <1>4, <1>5, <1>6, <1>7, <1>8, <1>9, <1>10, <1>11, <1>12
  DEF Next, RelayStep, ConsumerFaults, Crash, UnhandledRejection

\* A process comes to mourn by a lost channel, a fault; and not when it dies.
LEMMA MourningSteps ==
  ASSUME TypeOK, [Next]_vars
  PROVE  \/ Mourning' \subseteq Mourning
         \/ \E i \in Instances :
              /\ faults' = faults + 1 /\ ChannelLost(i) /\ OnlyConsumer
              /\ Mourning' \subseteq Mourning \cup {i}
<1>1. CASE \E i \in Instances : ChannelLost(i) /\ OnlyConsumer /\ faults' = faults + 1
  <2>1. PICK i \in Instances : ChannelLost(i) /\ OnlyConsumer /\ faults' = faults + 1
    BY <1>1
  <2>2. \A h \in Handlers : h \notin Unacked(i) => handler'[h] = handler[h]
    BY <2>1 DEF ChannelLost
  <2>3. \A h \in Unacked(i) : handler[h].inst = i
    BY DEF Unacked
  <2>4. ASSUME NEW j \in Mourning', j # i PROVE j \in Mourning
    <3>1. PICK h \in Handlers : handler'[h] # None /\ handler'[h].inst = j /\ ~handler'[h].open
      BY <2>4 DEF Mourning, Busy
    <3>2. Busy(h) /\ handler'[h].inst = handler[h].inst
      BY <3>1, ClosedBefore
    <3>3. handler'[h] = handler[h]
      BY <2>2, <2>3, <2>4, <3>1, <3>2
    <3> QED BY <2>4, <3>1, <3>2, <3>3 DEF Mourning, Busy
  <2> QED BY <2>1, <2>4
<1>2. CASE ~ \E i \in Instances : ChannelLost(i) /\ OnlyConsumer /\ faults' = faults + 1
  <2>1. ASSUME NEW j \in Mourning' PROVE j \in Mourning
    <3>1. PICK h \in Handlers : handler'[h] # None /\ handler'[h].inst = j /\ ~handler'[h].open
      BY <2>1 DEF Mourning, Busy
    <3>2. Busy(h) /\ handler'[h].inst = handler[h].inst /\ ~handler[h].open
      BY <1>2, <3>1, ClosedBefore
    <3> QED BY <2>1, <3>1, <3>2 DEF Mourning
  <2> QED BY <2>1
<1> QED BY <1>1, <1>2

-----------------------------------------------------------------------------
(* What a step does to the pairs that are spent.                            *)

\* An event that is published stays so, and a relay that does not hold it has
\* no need to send it.
LEMMA PublishedIsSpent ==
  ASSUME TypeOK, [Next]_vars, NEW n \in DOMAIN outbox, Routed(outbox[n]),
         outbox[n].status = "PUBLISHED", NEW r, n \notin r.todo
  PROVE  Spends(outbox', r, n)
<1>1. outbox'[n].routingKey = outbox[n].routingKey
  BY OutboxSteps
<1>2. outbox'[n].status = "PUBLISHED"
  <2>1. \A e \in OutboxEvent : [e EXCEPT !.status = "PUBLISHED"].status = "PUBLISHED"
    BY DEF OutboxEvent
  <2>2. ASSUME NEW i \in Instances, MarkPublished(i, n) PROVE outbox'[n].status = "PUBLISHED"
    <3>1. outbox[n] \in OutboxEvent
      BY LenProperties, ElementOfSeq DEF TypeOK, StoreTypeOK
    <3> QED BY <2>1, <2>2, <3>1 DEF MarkPublished
  <2> QED BY <2>2, OutboxSteps
<1> QED BY <1>1, <1>2 DEF Spends, Routed

\* What a relay has spent it keeps as long as it does nothing.
LEMMA IdlingSpendsOn ==
  ASSUME TypeOK, [Next]_vars, NEW i \in Instances, NEW n \in DOMAIN outbox,
         Spends(outbox, relay[i], n), relay'[i] = relay[i]
  PROVE  Spends(outbox', relay'[i], n)
<1>1. CASE outbox[n].status = "PUBLISHED" /\ n \notin relay[i].todo
  BY <1>1, PublishedIsSpent DEF Spends
<1>2. CASE relay[i].sent /\ n \in relay[i].todo /\ \A m \in relay[i].todo : n <= m
  BY <1>2, OutboxSteps DEF Spends, Routed
<1> QED BY <1>1, <1>2 DEF Spends

\* From pairs to the set of them.
LEMMA SpentLifts ==
  ASSUME TypeOK, [Next]_vars, NEW X,
         \A i \in Instances, n \in DOMAIN outbox :
           Spends(outbox, relay[i], n) => Spends(outbox', relay'[i], n) \/ <<i, n>> \in X
  PROVE  Spent \subseteq Spent' \cup X
<1> SUFFICES ASSUME NEW p \in Spent, p \notin X PROVE p \in Spent'
  OBVIOUS
<1>1. PICK i \in Instances, n \in DOMAIN outbox : p = <<i, n>> /\ Spends(outbox, relay[i], n)
  BY DEF Spent
<1>2. Spends(outbox', relay'[i], n) /\ n \in DOMAIN outbox'
  BY <1>1, OutboxSteps
<1> QED BY <1>1, <1>2 DEF Spent

\* A step that is of no relay, and in which no process dies, sends nothing.
LEMMA OthersSendNothing ==
  ASSUME TypeOK, [Next]_vars, \A i \in Instances : ~RelayStep(i) /\ ~Crash(i),
         \A h \in Handlers : ~UnhandledRejection(h)
  PROVE  relay' = relay /\ published' = published /\ faults' \in {faults, faults + 1}
<1>1. CASE Api \/ Expiry \/ ApiAborts
  BY <1>1 DEF Api, Expiry, ApiAborts, OnlyApi, brokerVars, NoFault, Fault, platformVars
<1>2. CASE \/ \E i \in Instances : Delivers(i)
           \/ \E h \in Handlers : Handles(h)
  BY <1>2
  DEF Delivers, Deliver, Handles, CompleteTransfer, SkipTransfer, Ack, DuplicateRequeued,
      UncastableRequeued, NackRequeues, MalformedDropped, Requeue, DeadLetter, brokerVars,
      OnlyConsumer, NoFault, platformVars
<1>3. CASE ConsumerFaults \/ InboxExpiry
  BY <1>3
  DEF ConsumerFaults, FailureRequeued, CreditAborts, NackRequeues, ChannelLost, Requeue,
      InboxExpiry, InboxExpires, brokerVars, OnlyConsumer, NoFault, Fault, platformVars
<1>4. CASE \/ \E t \in TransferIds : Ages(t)
           \/ \E i \in Instances : SweepTicks(i)
           \/ \E i \in Instances, t \in TransferIds : Sweeps(i, t)
           \/ SweepFaults
  BY <1>4 DEF Ages, SweepTicks, Sweeps, SweepFaults, OnlySweep, brokerVars, NoFault, Fault,
              platformVars
<1>5. CASE \E i \in Instances : Start(i)
  BY <1>5 DEF Start, brokerVars
<1>6. CASE UNCHANGED vars
  BY <1>6 DEF vars, brokerVars, platformVars
<1> QED
  BY <1>1, <1>2, <1>3, <1>4, <1>5, <1>6 DEF Next, RelayStep

\* A relay that gives its batch up loses at most one pair, of the event it has
\* sent; none if it has sent none.
LEMMA GivingUp ==
  ASSUME TypeOK, [Next]_vars, NEW i \in Instances, relay' = [relay EXCEPT ![i] = IdleRelay]
  PROVE  /\ \E p : Spent \subseteq Spent' \cup {p}
         /\ ~relay[i].sent => Spent \subseteq Spent'
<1>1. relay \in [Instances -> RelayState] /\ MaxEvents \in Nat
  BY AmountsAreNaturals DEF TypeOK, RelayTypeOK
<1>2. \A j \in Instances : j # i => relay'[j] = relay[j]
  BY <1>1
<1>3. relay'[i].todo = {}
  BY <1>1 DEF IdleRelay
<1>4. ASSUME NEW n \in DOMAIN outbox, Spends(outbox, relay[i], n),
             ~(relay[i].sent /\ Current(i, n))
      PROVE  Spends(outbox', relay'[i], n)
  BY <1>3, <1>4, PublishedIsSpent DEF Spends, Current
<1>5. ASSUME ~relay[i].sent PROVE Spent \subseteq Spent' \cup {}
  BY <1>2, <1>4, <1>5, IdlingSpendsOn, SpentLifts
<1>6. \E p : Spent \subseteq Spent' \cup {p}
  <2>1. CASE \E n \in DOMAIN outbox : Current(i, n)
    <3>1. PICK n \in DOMAIN outbox : Current(i, n)
      BY <2>1
    <3>2. \A m : Current(i, m) => m = n
      <4>1. relay[i].todo \subseteq 1 .. MaxEvents
        BY <1>1 DEF RelayState
      <4> QED BY <1>1, <3>1, <4>1 DEF Current
    <3>3. Spent \subseteq Spent' \cup {<<i, n>>}
      BY <1>2, <1>4, <3>2, IdlingSpendsOn, SpentLifts
    <3> QED BY <3>3
  <2>2. CASE \A n \in DOMAIN outbox : ~Current(i, n)
    <3>1. Spent \subseteq Spent' \cup {}
      BY <1>2, <1>4, <2>2, IdlingSpendsOn, SpentLifts
    <3> QED BY <3>1
  <2> QED BY <2>1, <2>2
<1> QED BY <1>5, <1>6

\* What a relay does: it sends nothing and loses nothing; it spends a new pair
\* on a message; or a fault pays for the message, or for the pair it loses.
LEMMA RelayAccount ==
  ASSUME TypeOK, [Next]_vars, NEW i \in Instances, RelayStep(i)
  PROVE  \/ published' = published /\ Spent \subseteq Spent' /\ faults' \in {faults, faults + 1}
         \/ /\ published' = published + 1 /\ Spent \subseteq Spent' /\ faults' \in {faults, faults + 1}
            /\ \E p \in Spent' : p \notin Spent
         \/ /\ published' \in {published, published + 1} /\ Spent \subseteq Spent'
            /\ faults' = faults + 1
         \/ /\ published' = published /\ faults' = faults + 1
            /\ \E p : Spent \subseteq Spent' \cup {p}
<1> DEFINE Account ==
      \/ published' = published /\ Spent \subseteq Spent' /\ faults' \in {faults, faults + 1}
      \/ /\ published' = published + 1 /\ Spent \subseteq Spent' /\ faults' \in {faults, faults + 1}
         /\ \E p \in Spent' : p \notin Spent
      \/ /\ published' \in {published, published + 1} /\ Spent \subseteq Spent'
         /\ faults' = faults + 1
      \/ /\ published' = published /\ faults' = faults + 1
         /\ \E p : Spent \subseteq Spent' \cup {p}
<1>1. relay \in [Instances -> RelayState]
  BY DEF TypeOK, RelayTypeOK
<1>2. \A j \in Instances : j # i => relay'[j] = relay[j]
  BY <1>1
  DEF RelayStep, RelayTicks, Publishes, Marks, RelayFaults, RelayTick, Publish,
      PublishFails, MarkPublished, MarkFails
<1>3. ASSUME \A n \in DOMAIN outbox :
               Spends(outbox, relay[i], n) => Spends(outbox', relay'[i], n)
      PROVE  Spent \subseteq Spent'
  <2>1. Spent \subseteq Spent' \cup {}
    BY <1>2, <1>3, IdlingSpendsOn, SpentLifts
  <2> QED BY <2>1
<1>4. CASE RelayTick(i) /\ NoFault
  <2>1. relay[i].todo = {} /\ relay'[i].todo \subseteq PendingEvents
    BY <1>1, <1>4 DEF RelayTick, Running, Batch
  <2>2. Spent \subseteq Spent'
    BY <1>3, <2>1, PublishedIsSpent DEF Spends, PendingEvents
  <2> QED BY <1>4, <2>2 DEF RelayTick, brokerVars, NoFault, platformVars
<1>5. ASSUME NEW n \in DOMAIN outbox, NEW copies, Publish(i, n, copies),
             faults' \in {faults, faults + 1}
      PROVE  Account
  <2>1. /\ relay'[i].todo = relay[i].todo /\ relay'[i].sent /\ ~relay[i].sent
        /\ Current(i, n) /\ outbox' = outbox
    BY <1>1, <1>5 DEF Publish, RelayState, storeVars
  <2>2. Spent \subseteq Spent'
    BY <1>3, <2>1 DEF Spends
  <2>3. CASE ~Routed(outbox[n])
    BY <1>5, <2>2, <2>3 DEF Publish, PublishCopies, brokerVars
  <2>4. CASE Routed(outbox[n])
    <3>1. Spends(outbox', relay'[i], n) /\ ~Spends(outbox, relay[i], n)
      BY <2>1, <2>4 DEF Spends, Current
    <3>2. <<i, n>> \in Spent' /\ <<i, n>> \notin Spent
      BY <2>1, <3>1 DEF Spent
    <3>3. published' = published + 1
      BY <1>5, <2>4 DEF Publish, PublishCopies
    <3> QED BY <1>5, <2>2, <3>2, <3>3
  <2> QED BY <2>3, <2>4
<1>6. ASSUME NEW n \in DOMAIN outbox, NEW copies, PublishFails(i, n, copies), Fault
      PROVE  Account
  <2>1. Spent \subseteq Spent'
    BY <1>6, GivingUp DEF PublishFails
  <2>2. published' \in {published, published + 1}
    BY <1>6 DEF PublishFails, PublishCopies, brokerVars
  <2> QED BY <1>6, <2>1, <2>2 DEF Fault
<1>7. ASSUME NEW n \in DOMAIN outbox, MarkPublished(i, n), NoFault PROVE Account
  <2>1. /\ relay'[i].todo = relay[i].todo \ {n} /\ Current(i, n)
        /\ outbox' = [outbox EXCEPT ![n].status = "PUBLISHED"]
    BY <1>1, <1>7 DEF MarkPublished, RelayState
  <2>2. relay[i].todo \subseteq 1 .. MaxEvents /\ MaxEvents \in Nat
    BY <1>1, AmountsAreNaturals DEF RelayState
  <2>3. outbox[n] \in OutboxEvent
    BY LenProperties, ElementOfSeq DEF TypeOK, StoreTypeOK
  <2>4. outbox'[n].status = "PUBLISHED"
    BY <2>1, <2>3 DEF OutboxEvent
  <2>5. ASSUME NEW m \in DOMAIN outbox, Spends(outbox, relay[i], m)
        PROVE  Spends(outbox', relay'[i], m)
    <3>1. CASE outbox[m].status = "PUBLISHED" /\ m \notin relay[i].todo
      BY <2>1, <2>5, <3>1, PublishedIsSpent DEF Spends
    <3>2. CASE m \in relay[i].todo /\ \A x \in relay[i].todo : m <= x
      <4>1. m = n
        BY <2>1, <2>2, <3>2 DEF Current
      <4> QED BY <2>1, <2>4, <2>5, <4>1, OutboxSteps DEF Spends, Routed
    <3> QED BY <2>5, <3>1, <3>2 DEF Spends
  <2>6. Spent \subseteq Spent'
    BY <1>3, <2>5
  <2> QED BY <1>7, <2>6 DEF MarkPublished, brokerVars, NoFault, platformVars
<1>8. CASE MarkFails(i) /\ Fault
  BY <1>8, GivingUp DEF MarkFails, Fault, brokerVars
<1> QED
  BY <1>4, <1>5, <1>6, <1>7, <1>8
  DEF RelayStep, RelayTicks, Publishes, Marks, RelayFaults, Fault, NoFault, platformVars

\* A process that dies sends nothing, loses at most one pair, and mourns no
\* more; what it dies of is a fault or a channel lost before.
LEMMA DeathAccount ==
  ASSUME TypeOK, [Next]_vars, NEW i \in Instances, Dies(i)
  PROVE  /\ published' = published
         /\ \E p : Spent \subseteq Spent' \cup {p}
         /\ Mourning' \subseteq Mourning \ {i}
<1>1. handler \in [Handlers -> Delivery \cup {None}]
  BY DEF TypeOK, ConsumerTypeOK
<1>2. \A h \in Handlers : handler'[h] # None => handler'[h] = handler[h] /\ handler[h].inst # i
  BY DEF Dies, Busy
<1>3. Mourning' \subseteq Mourning \ {i}
  BY <1>2 DEF Mourning, Busy
<1>4. published' = published /\ relay' = [relay EXCEPT ![i] = IdleRelay]
  BY DEF Dies, Requeue
<1> QED BY <1>3, <1>4, GivingUp

\* Every step keeps the account: a message or a lost pair is paid for by a pair,
\* by a fault or by the end of a mourning.
LEMMA StepAccount ==
  ASSUME TypeOK, [Next]_vars
  PROVE  \/ /\ published' = published /\ Spent \subseteq Spent'
            /\ Mourning' \subseteq Mourning /\ faults' \in {faults, faults + 1}
         \/ /\ published' = published + 1 /\ Spent \subseteq Spent'
            /\ Mourning' \subseteq Mourning /\ faults' \in {faults, faults + 1}
            /\ \E p \in Spent' : p \notin Spent
         \/ /\ published' \in {published, published + 1} /\ Spent \subseteq Spent'
            /\ Mourning' \subseteq Mourning /\ faults' = faults + 1
         \/ /\ published' = published /\ \E p : Spent \subseteq Spent' \cup {p}
            /\ Mourning' \subseteq Mourning /\ faults' = faults + 1
         \/ /\ published' = published /\ \E p : Spent \subseteq Spent' \cup {p}
            /\ \E i \in Mourning : Mourning' \subseteq Mourning \ {i}
            /\ faults' = faults
         \/ /\ published' = published /\ Spent \subseteq Spent'
            /\ \E i : Mourning' \subseteq Mourning \cup {i}
            /\ faults' = faults + 1
<1>1. CASE \E i \in Instances : RelayStep(i)
  <2>1. PICK i \in Instances : RelayStep(i)
    BY <1>1
  <2>2. Mourning' = Mourning
    BY <2>1, RelaySends DEF Mourning, Busy
  <2> QED BY <2>1, <2>2, RelayAccount
<1>2. CASE \E i \in Instances : Crash(i)
  <2>1. PICK i \in Instances : Crash(i)
    BY <1>2
  <2> QED BY <2>1, DeathAccount DEF Crash
<1>3. CASE \E h \in Handlers : UnhandledRejection(h)
  <2>1. PICK h \in Handlers : UnhandledRejection(h)
    BY <1>3
  <2>2. PICK i : i = handler[h].inst
    OBVIOUS
  <2>3. Busy(h) /\ ~handler[h].open /\ Dies(i) /\ faults' = faults
    BY <2>1, <2>2 DEF UnhandledRejection, EndsOnClosedChannel
  <2>4. i \in Instances
    BY <2>2, <2>3 DEF Busy, TypeOK, ConsumerTypeOK, Delivery
  <2>5. i \in Mourning
    BY <2>2, <2>3, <2>4 DEF Mourning
  <2> QED BY <2>3, <2>4, <2>5, DeathAccount
<1>4. CASE /\ \A i \in Instances : ~RelayStep(i) /\ ~Crash(i)
           /\ \A h \in Handlers : ~UnhandledRejection(h)
  <2>1. relay' = relay /\ published' = published /\ faults' \in {faults, faults + 1}
    BY <1>4, OthersSendNothing
  <2>2. Spent \subseteq Spent' \cup {}
    BY <2>1, IdlingSpendsOn, SpentLifts
  <2>3. Spent \subseteq Spent'
    BY <2>2
  <2> QED BY <2>1, <2>3, MourningSteps
<1> QED BY <1>1, <1>2, <1>3, <1>4

-----------------------------------------------------------------------------
(* Counting.                                                                *)

\* How much a finite set may change.
LEMMA Grows ==
  ASSUME NEW S, NEW T, IsFiniteSet(S), IsFiniteSet(T)
  PROVE  /\ Cardinality(S) \in Nat /\ Cardinality(T) \in Nat
         /\ S \subseteq T => Cardinality(S) <= Cardinality(T)
         /\ \A x : S \subseteq T \cup {x} => Cardinality(S) <= Cardinality(T) + 1
         /\ \A x \in T : S \subseteq T \ {x} => Cardinality(S) + 1 <= Cardinality(T)
<1>1. Cardinality(S) \in Nat /\ Cardinality(T) \in Nat
  BY FS_CardinalityType
<1>2. S \subseteq T => Cardinality(S) <= Cardinality(T)
  BY FS_Subset
<1>3. ASSUME NEW x, S \subseteq T \cup {x} PROVE Cardinality(S) <= Cardinality(T) + 1
  <2>1. /\ IsFiniteSet(T \cup {x})
        /\ Cardinality(T \cup {x}) = IF x \in T THEN Cardinality(T)
                                               ELSE Cardinality(T) + 1
    BY FS_AddElement
  <2>2. Cardinality(S) <= Cardinality(T \cup {x})
    BY <1>3, <2>1, FS_Subset
  <2>3. CASE x \in T
    BY <1>1, <2>1, <2>2, <2>3
  <2>4. CASE x \notin T
    BY <2>1, <2>2, <2>4
  <2> QED BY <2>3, <2>4
<1>4. ASSUME NEW x \in T, S \subseteq T \ {x} PROVE Cardinality(S) + 1 <= Cardinality(T)
  <2>1. IsFiniteSet(T \ {x}) /\ Cardinality(T \ {x}) = Cardinality(T) - 1
    BY FS_RemoveElement
  <2>2. Cardinality(S) <= Cardinality(T \ {x})
    BY <1>4, <2>1, FS_Subset
  <2> QED BY <1>1, <2>1, <2>2
<1> QED BY <1>1, <1>2, <1>3, <1>4

LEMMA SetsAreFinite ==
  ASSUME TypeOK
  PROVE  /\ IsFiniteSet(Spent) /\ IsFiniteSet(Mourning)
         /\ LET R == {n \in DOMAIN outbox : Routed(outbox[n])} IN
              /\ Cardinality(Instances) * Cardinality(R) \in Nat
              /\ Cardinality(Spent) <= Cardinality(Instances) * Cardinality(R)
<1> DEFINE R == {n \in DOMAIN outbox : Routed(outbox[n])}
<1>1. IsFiniteSet(Instances)
  BY StoreAssumption
<1>2. IsFiniteSet(R)
  <2>1. DOMAIN outbox = 1 .. Len(outbox) /\ Len(outbox) \in Nat
    BY LenProperties DEF TypeOK, StoreTypeOK
  <2>2. IsFiniteSet(1 .. Len(outbox))
    BY <2>1, FS_Interval
  <2> QED BY <2>1, <2>2, FS_Subset
<1>3. Mourning \subseteq Instances /\ Spent \subseteq Instances \X R
  BY DEF Mourning, Spent, Spends
<1>4. /\ IsFiniteSet(Instances \X R)
      /\ Cardinality(Instances \X R) = Cardinality(Instances) * Cardinality(R)
  BY <1>1, <1>2, FS_Product
<1> HIDE DEF R
<1>5. IsFiniteSet(Mourning) /\ IsFiniteSet(Spent) /\ Cardinality(Spent) <= Cardinality(Instances \X R)
  BY <1>1, <1>3, <1>4, FS_Subset
<1>6. Cardinality(Instances \X R) \in Nat
  BY <1>4, FS_CardinalityType
<1> QED BY <1>4, <1>5, <1>6 DEF R

\* The account, of numbers.
LEMMA Sums ==
  ASSUME NEW p \in Int, NEW p2 \in Int, NEW m \in Int, NEW m2 \in Int, NEW s \in Int,
         NEW s2 \in Int, NEW f \in Int, NEW f2 \in Int, NEW k \in Int, p + m <= k + f + s,
         \/ p2 = p /\ s <= s2 /\ m2 <= m /\ f2 \in {f, f + 1}
         \/ p2 = p + 1 /\ s + 1 <= s2 /\ m2 <= m /\ f2 \in {f, f + 1}
         \/ p2 \in {p, p + 1} /\ s <= s2 /\ m2 <= m /\ f2 = f + 1
         \/ p2 = p /\ s <= s2 + 1 /\ m2 <= m /\ f2 = f + 1
         \/ p2 = p /\ s <= s2 + 1 /\ m2 + 1 <= m /\ f2 = f
         \/ p2 = p /\ s <= s2 /\ m2 <= m + 1 /\ f2 = f + 1
  PROVE  p2 + m2 <= k + f2 + s2
OBVIOUS

LEMMA NextSentBounded ==
  ASSUME TypeOK, TypeOK', SentBounded, [Next]_vars
  PROVE  SentBounded'
<1>1. IsFiniteSet(Spent) /\ IsFiniteSet(Mourning)
  BY SetsAreFinite
<1>2. PICK S, M : S = Spent' /\ M = Mourning' /\ IsFiniteSet(S) /\ IsFiniteSet(M)
  <2>1. (IsFiniteSet(Spent) /\ IsFiniteSet(Mourning))'
    BY SetsAreFinite, PTL
  <2> QED BY <2>1
<1>3. /\ published \in Int /\ published' \in Int /\ faults \in Int /\ faults' \in Int
      /\ Len(Foreign) \in Int
  BY BrokerAssumption, PlatformAssumption, LenProperties DEF TypeOK, BrokerTypeOK
<1>4. /\ Cardinality(Spent) \in Int /\ Cardinality(S) \in Int
      /\ Cardinality(Mourning) \in Int /\ Cardinality(M) \in Int
  BY <1>1, <1>2, FS_CardinalityType
<1>5. ASSUME NEW p \in S, p \notin Spent, Spent \subseteq S
      PROVE  Cardinality(Spent) + 1 <= Cardinality(S)
  BY <1>1, <1>2, <1>5, Grows
<1>6. published' + Cardinality(M) <= Len(Foreign) + faults' + Cardinality(S)
  <2>1. CASE /\ published' = published /\ Spent \subseteq S
             /\ M \subseteq Mourning /\ faults' \in {faults, faults + 1}
    <3>1. Cardinality(Spent) <= Cardinality(S) /\ Cardinality(M) <= Cardinality(Mourning)
      BY <1>1, <1>2, <2>1, Grows
    <3> QED BY <1>3, <1>4, <2>1, <3>1, Sums DEF SentBounded
  <2>2. CASE /\ published' = published + 1 /\ Spent \subseteq S
             /\ M \subseteq Mourning /\ faults' \in {faults, faults + 1}
             /\ \E p \in S : p \notin Spent
    <3>1. Cardinality(Spent) + 1 <= Cardinality(S) /\ Cardinality(M) <= Cardinality(Mourning)
      BY <1>1, <1>2, <1>5, <2>2, Grows
    <3> QED BY <1>3, <1>4, <2>2, <3>1, Sums DEF SentBounded
  <2>3. CASE /\ published' \in {published, published + 1} /\ Spent \subseteq S
             /\ M \subseteq Mourning /\ faults' = faults + 1
    <3>1. Cardinality(Spent) <= Cardinality(S) /\ Cardinality(M) <= Cardinality(Mourning)
      BY <1>1, <1>2, <2>3, Grows
    <3> QED BY <1>3, <1>4, <2>3, <3>1, Sums DEF SentBounded
  <2>4. CASE /\ published' = published /\ \E p : Spent \subseteq S \cup {p}
             /\ M \subseteq Mourning /\ faults' = faults + 1
    <3>1. Cardinality(Spent) <= Cardinality(S) + 1 /\ Cardinality(M) <= Cardinality(Mourning)
      BY <1>1, <1>2, <2>4, Grows
    <3> QED BY <1>3, <1>4, <2>4, <3>1, Sums DEF SentBounded
  <2>5. CASE /\ published' = published /\ \E p : Spent \subseteq S \cup {p}
             /\ \E i \in Mourning : M \subseteq Mourning \ {i}
             /\ faults' = faults
    <3>1. Cardinality(Spent) <= Cardinality(S) + 1 /\ Cardinality(M) + 1 <= Cardinality(Mourning)
      BY <1>1, <1>2, <2>5, Grows
    <3> QED BY <1>3, <1>4, <2>5, <3>1, Sums DEF SentBounded
  <2>6. CASE /\ published' = published /\ Spent \subseteq S
             /\ \E i : M \subseteq Mourning \cup {i}
             /\ faults' = faults + 1
    <3>1. Cardinality(Spent) <= Cardinality(S) /\ Cardinality(M) <= Cardinality(Mourning) + 1
      BY <1>1, <1>2, <2>6, Grows
    <3> QED BY <1>3, <1>4, <2>6, <3>1, Sums DEF SentBounded
  <2> QED BY <1>2, <2>1, <2>2, <2>3, <2>4, <2>5, <2>6, StepAccount
<1> QED BY <1>2, <1>6 DEF SentBounded

\* Initially only the foreign messages were published.
LEMMA InitSentBounded == Init => SentBounded
<1> SUFFICES ASSUME Init PROVE SentBounded
  OBVIOUS
<1>1. Mourning = {}
  BY DEF Init, ConsumerInit, Mourning, Busy
<1>2. Spent = {}
  BY DEF Init, StoreInit, Spent
<1>3. published = Len(Foreign) /\ faults = 0 /\ Len(Foreign) \in Nat
  BY BrokerAssumption, LenProperties DEF Init, BrokerInit
<1> QED BY <1>1, <1>2, <1>3, FS_EmptySet DEF SentBounded

\* A relay sends an event once for each process that read it pending; every
\* further message is owed to a fault, in any number of processes.
THEOREM SurplusIsPaidFor == Spec => []DuplicatesBounded
<1>1. TypeOK /\ TypeOK' /\ SentBounded /\ [Next]_vars => SentBounded'
  BY NextSentBounded
<1>2. TypeOK /\ SentBounded => DuplicatesBounded
  <2> SUFFICES ASSUME TypeOK, SentBounded PROVE DuplicatesBounded
    OBVIOUS
  <2> DEFINE R == {n \in DOMAIN outbox : Routed(outbox[n])}
  <2>1. PICK c \in Nat : c = Cardinality(Instances) * Cardinality(R)
    BY SetsAreFinite
  <2>2. /\ Cardinality(Spent) \in Nat /\ Cardinality(Mourning) \in Nat
        /\ Cardinality(Spent) <= c
    BY <2>1, SetsAreFinite, FS_CardinalityType
  <2>3. published \in Nat /\ faults \in Nat /\ Len(Foreign) \in Nat
    BY BrokerAssumption, PlatformAssumption, LenProperties DEF TypeOK, BrokerTypeOK
  <2>4. published <= Len(Foreign) + faults + c
    BY <2>2, <2>3 DEF SentBounded
  <2> QED BY <2>1, <2>4 DEF DuplicatesBounded
<1> QED BY InitSentBounded, <1>1, <1>2, TypeCorrect, PTL DEF Spec

=============================================================================
