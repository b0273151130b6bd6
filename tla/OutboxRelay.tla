---------------------------- MODULE OutboxRelay -----------------------------
(***************************************************************************)
(* OutboxRelayWorker, one timer in each process.  A run of relay reads a   *)
(* batch of pending events, then publishes each and marks it published,    *)
(* two writes to two systems with no transaction around them.              *)
(***************************************************************************)
EXTENDS Broker

CONSTANT
  BatchLimit   \* findPending(50)

ASSUME RelayAssumption == BatchLimit \in Nat \ {0}

VARIABLE
  relay   \* [Instances -> the events still to do, whether the first was sent]

RelayState == [todo : SUBSET (1..MaxEvents), sent : BOOLEAN]
IdleRelay == [todo |-> {}, sent |-> FALSE]

RelayInit == relay = [i \in Instances |-> IdleRelay]
RelayTypeOK == relay \in [Instances -> RelayState]

\* The running flag, which keeps a second timer tick of the process out.
Running(i) == relay[i].todo # {}

PendingEvents == {n \in DOMAIN outbox : outbox[n].status = "PENDING"}

\* findPending: the oldest BatchLimit pending events.
Batch ==
  {n \in PendingEvents : Cardinality({m \in PendingEvents : m < n}) < BatchLimit}

\* n is the event the for loop of i's relay has reached.
Current(i, n) ==
  /\ n \in relay[i].todo
  /\ \A m \in relay[i].todo : n <= m

-----------------------------------------------------------------------------

\* Mutant: no running flag, a tick starts the batch over.
RelayTickReentrant(i) ==
  /\ PendingEvents # {}
  /\ relay' = [relay EXCEPT ![i] = [todo |-> Batch, sent |-> FALSE]]
  /\ UNCHANGED <<storeVars, brokerVars>>

RelayTick(i) ==
  /\ ~Running(i)
  /\ PendingEvents # {}
  /\ relay' = [relay EXCEPT ![i] = [todo |-> Batch, sent |-> FALSE]]
  /\ UNCHANGED <<storeVars, brokerVars>>

Publish(i, n, copies) ==
  /\ Current(i, n)
  /\ ~relay[i].sent
  /\ PublishCopies(outbox[n], copies)
  /\ relay' = [relay EXCEPT ![i].sent = TRUE]
  /\ UNCHANGED storeVars

\* The broker refuses the message, or its confirm says no although the queue
\* has it: the catch leaves the batch.
PublishFails(i, n, copies) ==
  /\ Current(i, n)
  /\ ~relay[i].sent
  /\ IF copies = {} THEN UNCHANGED brokerVars ELSE PublishCopies(outbox[n], copies)
  /\ relay' = [relay EXCEPT ![i] = IdleRelay]
  /\ UNCHANGED storeVars

\* Mutant: an event is marked before it is published.
MarkUnsent(i, n) ==
  /\ Current(i, n)
  /\ outbox' = [outbox EXCEPT ![n].status = "PUBLISHED"]
  /\ relay' = [relay EXCEPT ![i] = [todo |-> @.todo \ {n}, sent |-> FALSE]]
  /\ UNCHANGED <<created, balance, transfer, ledger, cache, brokerVars>>

\* Mutant: the update matches no event.
MarkNothing(i, n) ==
  /\ Current(i, n)
  /\ relay[i].sent
  /\ relay' = [relay EXCEPT ![i] = [todo |-> @.todo \ {n}, sent |-> FALSE]]
  /\ UNCHANGED <<storeVars, brokerVars>>

MarkPublished(i, n) ==
  /\ Current(i, n)
  /\ relay[i].sent
  /\ outbox' = [outbox EXCEPT ![n].status = "PUBLISHED"]
  /\ relay' = [relay EXCEPT ![i] = [todo |-> @.todo \ {n}, sent |-> FALSE]]
  /\ UNCHANGED <<created, balance, transfer, ledger, cache, brokerVars>>

\* The update fails and the catch leaves the batch: the event was sent, stays
\* PENDING, and a later tick sends it again with another messageId.
MarkFails(i) ==
  /\ Running(i)
  /\ relay[i].sent
  /\ relay' = [relay EXCEPT ![i] = IdleRelay]
  /\ UNCHANGED <<storeVars, brokerVars>>

=============================================================================
