-------------------------- MODULE TransferConsumer --------------------------
(***************************************************************************)
(* TransferEventsConsumer: each process consumes the transfer queue with a *)
(* prefetch of Prefetch and handles its messages concurrently.  The        *)
(* transaction of completeTransfer and the ack that follows are two steps. *)
(***************************************************************************)
EXTENDS Broker

CONSTANTS
  Handlers,   \* bound: deliveries in progress at once, over all processes
  Prefetch    \* channel.prefetch(10)

ASSUME ConsumerAssumption == Prefetch \in Nat \ {0}

VARIABLES
  handler,   \* [Handlers -> a delivery in progress, or None]
  inbox      \* inbox_messages: the messageIds claimed

consumerVars == <<handler, inbox>>

\* open: the channel the message was delivered on still is.  Once it is lost
\* the broker has the message back, and the handler goes on without knowing.
Delivery ==
  [msg : Message, inst : Instances, open : BOOLEAN, stage : {"running", "done"}]

ASSUME NoneNotDelivery == None \notin Delivery

ConsumerInit ==
  /\ handler = [h \in Handlers |-> None]
  /\ inbox = {}

ConsumerTypeOK ==
  /\ handler \in [Handlers -> Delivery \cup {None}]
  /\ inbox \subseteq MessageId

-----------------------------------------------------------------------------

Busy(h) == handler[h] # None
InStage(h, s) == Busy(h) /\ handler[h].stage = s
Unacked(i) == {h \in Handlers : Busy(h) /\ handler[h].inst = i /\ handler[h].open}

Deliver(h, i, m) ==
  /\ ~Busy(h)
  /\ m \in queue
  /\ Cardinality(Unacked(i)) < Prefetch
  /\ queue' = queue \ {m}
  /\ handler' = [handler EXCEPT ![h] =
       [msg |-> m, inst |-> i, open |-> TRUE, stage |-> "running"]]
  /\ UNCHANGED <<storeVars, dead, published, inbox>>

\* The message names a transfer (or an id no transfer has) and its messageId
\* is not in the inbox: the claim succeeds, to be committed with the rest.
Claims(h) ==
  /\ InStage(h, "running")
  /\ handler[h].msg.kind \in {"initiated", "unknownId"}
  /\ handler[h].msg.id \notin inbox

Finish(h) ==
  /\ inbox' = inbox \cup {handler[h].msg.id}
  /\ handler' = [handler EXCEPT ![h].stage = "done"]

\* Mutant: the transfer's status is not part of the claim.
CompleteUnclaimed(h) ==
  /\ Claims(h)
  /\ handler[h].msg.kind = "initiated"
  /\ LET m == handler[h].msg
         after == balance[m.to] + m.amount IN
       /\ transfer' = [transfer EXCEPT ![m.transfer].status = "COMPLETED"]
       /\ SetBalance(m.to, after)
       /\ RecordCredit(m.to, "TRANSFER_IN", m.amount, after, m.transfer)
       /\ SetCachedBalance(m.to, after)
  /\ Finish(h)
  /\ UNCHANGED <<created, outbox, brokerVars>>

\* PENDING -> COMPLETED and the credit, to the wallet and of the amount that
\* the message says.
CompleteTransfer(h) ==
  /\ Claims(h)
  /\ handler[h].msg.kind = "initiated"
  /\ LET m == handler[h].msg
         after == balance[m.to] + m.amount IN
       /\ Pending(m.transfer)
       /\ m.to \in created
       /\ transfer' = [transfer EXCEPT ![m.transfer].status = "COMPLETED"]
       /\ SetBalance(m.to, after)
       /\ RecordCredit(m.to, "TRANSFER_IN", m.amount, after, m.transfer)
       /\ SetCachedBalance(m.to, after)
  /\ Finish(h)
  /\ UNCHANGED <<created, outbox, brokerVars>>

\* No transfer of that id is PENDING: the messageId is recorded, nothing else.
SkipTransfer(h) ==
  /\ Claims(h)
  /\ handler[h].msg.kind = "initiated" => ~Pending(handler[h].msg.transfer)
  /\ Finish(h)
  /\ UNCHANGED <<storeVars, brokerVars>>

Ack(h) ==
  /\ InStage(h, "done")
  /\ handler[h].open
  /\ handler' = [handler EXCEPT ![h] = None]
  /\ UNCHANGED <<storeVars, brokerVars, inbox>>

\* The messageId is in the inbox.  MongoDB aborts a transaction whose insert
\* hits a duplicate key, so the commit that follows the consumer's early
\* return fails; the driver retries all of it until its time limit and throws.
Duplicate(h) ==
  /\ InStage(h, "running")
  /\ handler[h].msg.kind \in {"initiated", "unknownId"}
  /\ handler[h].msg.id \in inbox

\* Mongoose refuses to cast the id, with a message that is not "fatal".
Uncastable(h) ==
  /\ InStage(h, "running")
  /\ handler[h].msg.kind = "badId"

\* nack(message, false, true), on an open channel.
NackRequeues(h) ==
  /\ handler[h].open
  /\ handler' = [handler EXCEPT ![h] = None]
  /\ Requeue({handler[h].msg})
  /\ UNCHANGED <<storeVars, inbox>>

DuplicateRequeued(h) == Duplicate(h) /\ NackRequeues(h)
UncastableRequeued(h) == Uncastable(h) /\ NackRequeues(h)

\* Mutants: a transaction that fails leaves its inbox claim behind, made in no
\* transaction; or its message is dead-lettered.
FailureKeepsClaim(h) ==
  /\ Claims(h)
  /\ handler[h].open
  /\ handler' = [handler EXCEPT ![h] = None]
  /\ inbox' = inbox \cup {handler[h].msg.id}
  /\ Requeue({handler[h].msg})
  /\ UNCHANGED storeVars

FailureDropped(h) ==
  /\ Claims(h)
  /\ handler[h].open
  /\ handler' = [handler EXCEPT ![h] = None]
  /\ DeadLetter(handler[h].msg)
  /\ UNCHANGED <<storeVars, inbox>>

\* A transaction that gives up for good: the network, the server, the driver's
\* time limit.
FailureRequeued(h) == Claims(h) /\ NackRequeues(h)

\* A transaction that aborts after its Redis SET and is started again.
CreditAborts(h) ==
  /\ Claims(h)
  /\ handler[h].msg.kind = "initiated"
  /\ LET m == handler[h].msg IN
       /\ Pending(m.transfer)
       /\ m.to \in CachedWallets \cap created
       /\ SetCachedBalance(m.to, balance[m.to] + m.amount)
  /\ UNCHANGED <<created, balance, transfer, ledger, outbox, brokerVars, consumerVars>>

\* nack(message, false, false): JSON.parse threw a SyntaxError.
MalformedDropped(h) ==
  /\ InStage(h, "running")
  /\ handler[h].msg.kind = "notJson"
  /\ handler[h].open
  /\ handler' = [handler EXCEPT ![h] = None]
  /\ DeadLetter(handler[h].msg)
  /\ UNCHANGED <<storeVars, inbox>>

\* The end of a handler whose channel is closed: ack throws, or the error that
\* brought it to nack does, and nack throws in the catch.
EndsOnClosedChannel(h) ==
  /\ Busy(h)
  /\ ~handler[h].open
  /\ ~Claims(h)

-----------------------------------------------------------------------------

\* The channel or connection of process i closes: the broker takes back what
\* was not acked.
ChannelLost(i) ==
  /\ Unacked(i) # {}
  /\ Requeue({handler[h].msg : h \in Unacked(i)})
  /\ handler' = [h \in Handlers |->
       IF h \in Unacked(i) THEN [handler[h] EXCEPT !.open = FALSE] ELSE handler[h]]
  /\ UNCHANGED <<storeVars, inbox>>

\* The inbox entry is seven days old.
InboxExpires(id) ==
  /\ id \in inbox
  /\ inbox' = inbox \ {id}
  /\ UNCHANGED <<storeVars, brokerVars, handler>>

=============================================================================
