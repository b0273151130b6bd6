------------------------------ MODULE Platform ------------------------------
(***************************************************************************)
(* The wallet platform: the API's handlers, the outbox relay, the broker,  *)
(* the transfer consumer and the timeout sweep, in several processes that  *)
(* crash and are started again, over one store.                            *)
(***************************************************************************)
EXTENDS WalletsService, OutboxRelay, TransferConsumer, PendingTransferWorker

CONSTANTS
  MaxFaults   \* bound: crashes, lost channels, failed writes, unsure sends

ASSUME PlatformAssumption == MaxFaults \in Nat

VARIABLES
  up,       \* the processes that run
  faults    \* how many faults there were

platformVars == <<up, faults>>

vars == <<storeVars, brokerVars, relay, consumerVars, sweepVars, platformVars>>

Init ==
  /\ StoreInit
  /\ BrokerInit
  /\ RelayInit
  /\ ConsumerInit
  /\ SweepInit
  /\ up = Instances
  /\ faults = 0

TypeOK ==
  /\ StoreTypeOK
  /\ BrokerTypeOK
  /\ RelayTypeOK
  /\ ConsumerTypeOK
  /\ SweepTypeOK
  /\ up \subseteq Instances
  /\ faults \in 0..MaxFaults

-----------------------------------------------------------------------------
(* The steps of one component leave the others' variables alone.            *)

NoFault == UNCHANGED platformVars

Fault ==
  /\ faults < MaxFaults
  /\ faults' = faults + 1
  /\ UNCHANGED up

OnlyApi == UNCHANGED <<brokerVars, relay, consumerVars, sweepVars>>
OnlyRelay == UNCHANGED <<consumerVars, sweepVars>>
OnlyConsumer == UNCHANGED <<relay, sweepVars>>
OnlySweep == UNCHANGED <<brokerVars, relay, consumerVars>>

Api ==
  /\ up # {}
  /\ \/ \E w \in Wallets : CreateWallet(w)
     \/ \E w \in Wallets, a \in Amounts : Deposit(w, a)
     \/ \E w \in Wallets, a \in Amounts : Withdraw(w, a)
     \/ \E t \in TransferIds, from, to \in Wallets, a \in Amounts, k \in Keys \cup {NoKey} :
          Transfer(t, from, to, a, k)
  /\ OnlyApi
  /\ NoFault

Expiry == (\E w \in Wallets : CacheExpires(w)) /\ OnlyApi /\ NoFault

ApiAborts ==
  /\ up # {}
  /\ \E w \in Wallets, a \in Amounts : DepositAborts(w, a) \/ DebitAborts(w, a)
  /\ OnlyApi
  /\ Fault

RelayTicks(i) == i \in up /\ RelayTick(i) /\ OnlyRelay /\ NoFault
Publishes(i) ==
  /\ i \in up
  /\ \E n \in DOMAIN outbox : Publish(i, n, {1})
  /\ OnlyRelay
  /\ NoFault
Marks(i) ==
  /\ i \in up
  /\ \E n \in DOMAIN outbox : MarkPublished(i, n)
  /\ OnlyRelay
  /\ NoFault

\* The connection is lost before the confirm and the message sent again; the
\* publish fails, before or after the queue has the message; the mark fails.
RelayFaults(i) ==
  /\ i \in up
  /\ \/ \E n \in DOMAIN outbox : Routed(outbox[n]) /\ Publish(i, n, {1, 2})
     \/ \E n \in DOMAIN outbox, copies \in {{}, {1}} : PublishFails(i, n, copies)
     \/ MarkFails(i)
  /\ OnlyRelay
  /\ Fault

Delivers(i) ==
  /\ i \in up
  /\ \E h \in Handlers, m \in queue : Deliver(h, i, m)
  /\ OnlyConsumer
  /\ NoFault

Handles(h) ==
  /\ \/ CompleteTransfer(h)
     \/ SkipTransfer(h)
     \/ Ack(h)
     \/ DuplicateRequeued(h)
     \/ UncastableRequeued(h)
     \/ MalformedDropped(h)
  /\ OnlyConsumer
  /\ NoFault

ConsumerFaults ==
  /\ \/ \E h \in Handlers : FailureRequeued(h) \/ CreditAborts(h)
     \/ \E i \in Instances : ChannelLost(i)
  /\ OnlyConsumer
  /\ Fault

InboxExpiry ==
  /\ \E id \in inbox : InboxExpires(id)
  /\ OnlyConsumer
  /\ NoFault

Ages(t) == Age(t) /\ OnlySweep /\ NoFault
SweepTicks(i) == i \in up /\ SweepTick(i) /\ OnlySweep /\ NoFault
Sweeps(i, t) ==
  /\ i \in up
  /\ SweepRefund(i, t) \/ SweepSkips(i, t)
  /\ OnlySweep
  /\ NoFault
SweepFaults ==
  /\ \E i \in up, t \in TransferIds : SweepErrs(i, t)
  /\ OnlySweep
  /\ Fault

-----------------------------------------------------------------------------

\* What process i was doing is lost, and the broker takes back what it had not
\* acked.
Dies(i) ==
  /\ i \in up
  /\ up' = up \ {i}
  /\ relay' = [relay EXCEPT ![i] = IdleRelay]
  /\ stale' = [stale EXCEPT ![i] = {}]
  /\ handler' = [h \in Handlers |->
       IF Busy(h) /\ handler[h].inst = i THEN None ELSE handler[h]]
  /\ Requeue({handler[h].msg : h \in Unacked(i)})
  /\ UNCHANGED <<storeVars, inbox, aged>>

Crash(i) ==
  /\ faults < MaxFaults
  /\ faults' = faults + 1
  /\ Dies(i)

\* A handler that outlived its channel rejects, nobody catches it, and Node
\* ends the process.
UnhandledRejection(h) ==
  /\ EndsOnClosedChannel(h)
  /\ Dies(handler[h].inst)
  /\ UNCHANGED faults

Start(i) ==
  /\ i \in Instances \ up
  /\ up' = up \cup {i}
  /\ UNCHANGED <<storeVars, brokerVars, relay, consumerVars, sweepVars, faults>>

Next ==
  \/ Api
  \/ Expiry
  \/ ApiAborts
  \/ \E i \in Instances : RelayTicks(i) \/ Publishes(i) \/ Marks(i) \/ RelayFaults(i)
  \/ \E i \in Instances : Delivers(i)
  \/ \E h \in Handlers : Handles(h)
  \/ ConsumerFaults
  \/ InboxExpiry
  \/ \E t \in TransferIds : Ages(t)
  \/ \E i \in Instances : SweepTicks(i)
  \/ \E i \in Instances, t \in TransferIds : Sweeps(i, t)
  \/ SweepFaults
  \/ \E i \in Instances : Crash(i)
  \/ \E h \in Handlers : UnhandledRejection(h)
  \/ \E i \in Instances : Start(i)

Spec == Init /\ [][Next]_vars

\* Timers tick, the event loop runs what is ready, the broker delivers to a
\* process with room, time passes, and a process that died is started again.
\* No fault, no request of a client and no expiry has to happen.
Fairness ==
  /\ \A i \in Instances :
       /\ WF_vars(Start(i))
       /\ WF_vars(RelayTicks(i))
       /\ WF_vars(Publishes(i))
       /\ WF_vars(Marks(i))
       /\ WF_vars(Delivers(i))
       /\ WF_vars(SweepTicks(i))
       /\ \A t \in TransferIds : WF_vars(Sweeps(i, t))
  /\ \A h \in Handlers : WF_vars(Handles(h))
  /\ \A t \in TransferIds : WF_vars(Ages(t))

FairSpec == Spec /\ Fairness

-----------------------------------------------------------------------------
(* Safety.                                                                  *)

BalanceAfter(w, n) == IF n = 0 THEN 0 ELSE ledger[w][n].balanceAfter

\* The postings of a wallet form a chain: each balanceAfter is the one before
\* it plus or minus the amount, and the last is the wallet's balance.  However
\* requests, credits and refunds interleave, none is recorded twice, out of
\* order or not at all (getAuditTrail reads this chain).
AuditTrail ==
  \A w \in Wallets :
    /\ balance[w] = BalanceAfter(w, Len(ledger[w]))
    /\ \A n \in 1..Len(ledger[w]) :
         BalanceAfter(w, n) = BalanceAfter(w, n - 1) + Signed(ledger[w][n])

\* The postings of wallet w made for transfer t.
Legs(t, w, type) ==
  {n \in DOMAIN ledger[w] : ledger[w][n].transfer = t /\ ledger[w][n].type = type}

\* Wallet w has exactly one posting of this type for t, of the amount a.
OneLeg(t, w, type, a) ==
  \E n \in DOMAIN ledger[w] :
    Legs(t, w, type) = {n} /\ ledger[w][n].amount = a

NoLeg(t, W, type) == \A w \in W : Legs(t, w, type) = {}

\* The wallet a transfer that ended has paid.
Payee(d) == IF d.status = "COMPLETED" THEN d.to ELSE d.from

\* Every transfer took its amount from the sender once.  While it is pending
\* it has paid nobody; completed, it has paid the receiver once and nobody
\* else; failed, the sender once and nobody else.  The consumer and the sweeps
\* of several processes, with redelivered and republished messages, race for
\* this.
ResolvedOnce ==
  \A t \in TransferIds :
    IF transfer[t] = None
      THEN NoLeg(t, Wallets, "TRANSFER_OUT") /\ NoLeg(t, Wallets, "TRANSFER_IN")
      ELSE LET d == transfer[t] IN
        /\ OneLeg(t, d.from, "TRANSFER_OUT", d.amount)
        /\ NoLeg(t, Wallets \ {d.from}, "TRANSFER_OUT")
        /\ IF d.status = "PENDING"
             THEN NoLeg(t, Wallets, "TRANSFER_IN")
             ELSE /\ OneLeg(t, Payee(d), "TRANSFER_IN", d.amount)
                  /\ NoLeg(t, Wallets \ {Payee(d)}, "TRANSFER_IN")

\* Pending or not, there is a transfer t that pays a to wallet w.
Names(t, w, a) ==
  t \in TransferIds /\ Exists(t) /\ transfer[t].to = w /\ transfer[t].amount = a

Held == {handler[h].msg : h \in {g \in Handlers : Busy(g)}}

\* The consumer credits the wallet and the amount that the message says, not
\* those of the transfer document: every event and message of a transfer, and
\* every message in a handler's hands, agrees with the document, and the
\* wallets it is about exist.
PayloadAgreement ==
  /\ \A n \in DOMAIN outbox :
       Routed(outbox[n]) =>
         Names(outbox[n].transfer, outbox[n].wallet, outbox[n].amount)
  /\ \A m \in queue \cup Held :
       m.kind = "initiated" => Names(m.transfer, m.to, m.amount)
  /\ \A t \in TransferIds :
       Exists(t) => transfer[t].from \in created /\ transfer[t].to \in created

\* The copies the broker has not been told to forget: ready, or delivered on a
\* channel that is open and not yet acked.
InBroker ==
  queue \cup {handler[h].msg : h \in {g \in Handlers : Busy(g) /\ handler[g].open}}

\* The outbox may forget the event of a pending transfer (mark it published)
\* only while the broker still has a copy of it to deliver: no crash, failed
\* write, lost channel or dropped duplicate leaves the transfer to the timeout.
NoMessageLost ==
  \A n \in DOMAIN outbox :
    LET e == outbox[n] IN
      Routed(e) /\ e.status = "PUBLISHED" /\ Pending(e.transfer) =>
        \E m \in InBroker : m.transfer = e.transfer

\* A relay sends an event once for each process that read it pending; every
\* further message is owed to a fault.  Timer ticks that overlap a batch, and
\* batches of other processes, add none.
DuplicatesBounded ==
  published <= Len(Foreign) + faults + Cardinality(Instances)
                 * Cardinality({n \in DOMAIN outbox : Routed(outbox[n])})

\* A messageId is claimed only by the transaction that ends its transfer, or
\* finds it ended, so the inbox never makes the consumer pass over a transfer
\* that is pending.
ClaimedMeansResolved ==
  \A m \in queue \cup Held :
    m.id \in inbox /\ m.kind = "initiated" =>
      Exists(m.transfer) /\ ~Pending(m.transfer)

\* The sweep refunds only transfers that outlived the timeout, however old
\* the list of ids is that it works from.
RefundsOnlyOverdue ==
  \A t \in TransferIds : InStatus(t, "FAILED") => t \in aged

-----------------------------------------------------------------------------
(* The promise: this platform is a Bank, read through the documents that    *)
(* hold its money.                                                          *)

Promise == INSTANCE Bank

\* Whatever the relay, the broker, the consumer and the sweep do, clients see
\* each transfer take the money once and end once.
KeepsPromise == Promise!Spec

\* And every transfer ends: the sweep catches what the queue does not settle.
KeepsPromiseInTime == Promise!FairSpec

\* Every event staged in the outbox is published and marked so, through
\* failed publishes and crashed relays.
EveryEventPublished ==
  \A n \in 1..MaxEvents :
    (n \in DOMAIN outbox) ~> (n \in DOMAIN outbox /\ outbox[n].status = "PUBLISHED")

=============================================================================
