------------------------------- MODULE Broker -------------------------------
(***************************************************************************)
(* RabbitMQ as RabbitMQService sets it up: a durable topic exchange, the   *)
(* transfer queue bound to 'transfer.*' with a dead-letter exchange, and   *)
(* its dead-letter queue.  The queue is a set of copies: deliveries of up  *)
(* to `prefetch' messages are handled concurrently and requeued ones       *)
(* overtake others, so no order between messages is relied on.             *)
(***************************************************************************)
EXTENDS Store

CONSTANTS
  MaxMessages,  \* bound: messages ever published
  Foreign       \* sequence of the kinds of message other programs left there

\* What a message turns out to be when the consumer reads it: one of the
\* relay's, text that is not JSON, one whose transferId is not an ObjectId, or
\* one whose transferId no transfer has.
MessageKind == {"initiated", "notJson", "badId", "unknownId"}

ASSUME BrokerAssumption ==
  /\ MaxMessages \in Nat
  /\ Foreign \in Seq(MessageKind \ {"initiated"})
  /\ Len(Foreign) <= MaxMessages

VARIABLES
  queue,     \* the copies that are ready
  dead,      \* the copies in the dead-letter queue
  published  \* how many messageIds were drawn

brokerVars == <<queue, dead, published>>

MessageId == 1..MaxMessages

\* The connection manager sends a message again, with its messageId, when the
\* connection is lost before the broker's confirm: a second copy.
Message ==
  [id : MessageId, copy : {1, 2}, kind : MessageKind,
   transfer : TransferIds \cup {None}, to : Wallets \cup {None}, amount : Nat]

\* A durable queue may hold messages that a test or an operator published.
ForeignMessage(n) ==
  [id |-> n, copy |-> 1, kind |-> Foreign[n], transfer |-> None,
   to |-> None, amount |-> 0]

BrokerInit ==
  /\ queue = {ForeignMessage(n) : n \in DOMAIN Foreign}
  /\ dead = {}
  /\ published = Len(Foreign)

BrokerTypeOK ==
  /\ queue \subseteq Message
  /\ dead \subseteq Message
  /\ published \in 0..MaxMessages

-----------------------------------------------------------------------------

QueueRoom == published < MaxMessages

\* publish draws a new messageId: the payload that the outbox keeps has none.
NewMessage(copy, e) ==
  [id |-> published + 1, copy |-> copy, kind |-> "initiated",
   transfer |-> e.transfer, to |-> e.wallet, amount |-> e.amount]

\* transfer.* is routed to the queue; wallet.* matches no binding and the
\* exchange drops it.
Routed(e) == e.routingKey = "transfer.initiated"

PublishCopies(e, copies) ==
  IF Routed(e)
    THEN /\ QueueRoom
         /\ queue' = queue \cup {NewMessage(c, e) : c \in copies}
         /\ published' = published + 1
         /\ UNCHANGED dead
    ELSE UNCHANGED brokerVars

Requeue(copies) ==
  /\ queue' = queue \cup copies
  /\ UNCHANGED <<dead, published>>

DeadLetter(m) ==
  /\ dead' = dead \cup {m}
  /\ UNCHANGED <<queue, published>>

=============================================================================
