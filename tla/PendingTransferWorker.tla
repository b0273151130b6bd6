----------------------- MODULE PendingTransferWorker ------------------------
(***************************************************************************)
(* PendingTransferWorker, one timer in each process and no guard against   *)
(* overlapping runs: sweep reads ids of overdue pending transfers, then    *)
(* fails and refunds each in a transaction of its own.                     *)
(***************************************************************************)
EXTENDS Store

CONSTANT
  SweepLimit   \* limit(100)

ASSUME SweepAssumption == SweepLimit \in Nat \ {0}

VARIABLES
  aged,    \* transfers older than pendingTransferTimeoutMs
  stale    \* [Instances -> ids its sweeps have read and not yet done]

sweepVars == <<aged, stale>>

SweepInit ==
  /\ aged = {}
  /\ stale = [i \in Instances |-> {}]

SweepTypeOK ==
  /\ aged \subseteq TransferIds
  /\ stale \in [Instances -> SUBSET TransferIds]

\* Mutants: the sweep ignores createdAt, or compares it the wrong way round.
AnyPending == {t \in TransferIds : Pending(t)}
PendingNotAged == {t \in TransferIds \ aged : Pending(t)}

Overdue == {t \in aged : Pending(t)}

-----------------------------------------------------------------------------

\* Time passes: createdAt of a pending transfer falls behind the cutoff.
Age(t) ==
  /\ Pending(t)
  /\ t \notin aged
  /\ aged' = aged \cup {t}
  /\ UNCHANGED <<storeVars, stale>>

\* The find of a sweep.  An earlier sweep of the process may still be going:
\* its ids are kept.
SweepTick(i) ==
  /\ \E found \in SUBSET Overdue :
       /\ \/ found = Overdue
          \/ Cardinality(found) = SweepLimit
       /\ Cardinality(found) <= SweepLimit
       /\ ~ found \subseteq stale[i]
       /\ stale' = [stale EXCEPT ![i] = @ \cup found]
  /\ UNCHANGED <<storeVars, aged>>

Done(i, t) == stale' = [stale EXCEPT ![i] = @ \ {t}]

\* Mutant: the refund of a transfer that was read as stale, not claimed.
RefundUnclaimed(i, t) ==
  /\ t \in stale[i]
  /\ LET from == transfer[t].from
         a == transfer[t].amount
         after == balance[from] + a IN
       /\ SetBalance(from, after)
       /\ RecordCredit(from, "TRANSFER_IN", a, after, t)
  /\ transfer' = [transfer EXCEPT ![t].status = "FAILED"]
  /\ Done(i, t)
  /\ UNCHANGED <<created, outbox, cache, aged>>

\* Mutant: a refund that leaves no trace in the ledger.
RefundUnrecorded(i, t) ==
  /\ t \in stale[i]
  /\ Pending(t)
  /\ SetBalance(transfer[t].from, balance[transfer[t].from] + transfer[t].amount)
  /\ transfer' = [transfer EXCEPT ![t].status = "FAILED"]
  /\ Done(i, t)
  /\ UNCHANGED <<created, ledger, outbox, cache, aged>>

\* The claim PENDING -> FAILED, the refund, its transaction and its ledger
\* entry.  Redis is not told.
SweepRefund(i, t) ==
  /\ t \in stale[i]
  /\ Pending(t)
  /\ LET from == transfer[t].from
         a == transfer[t].amount
         after == balance[from] + a IN
       /\ SetBalance(from, after)
       /\ RecordCredit(from, "TRANSFER_IN", a, after, t)
  /\ transfer' = [transfer EXCEPT ![t].status = "FAILED"]
  /\ Done(i, t)
  /\ UNCHANGED <<created, outbox, cache, aged>>

\* The claim finds the transfer settled or refunded by someone else.
SweepSkips(i, t) ==
  /\ t \in stale[i]
  /\ ~Pending(t)
  /\ Done(i, t)
  /\ UNCHANGED <<storeVars, aged>>

\* The transaction fails; the loop logs it and goes on to the next id.
SweepErrs(i, t) ==
  /\ t \in stale[i]
  /\ Done(i, t)
  /\ UNCHANGED <<storeVars, aged>>

=============================================================================
