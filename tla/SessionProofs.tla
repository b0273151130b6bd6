---------------------------- MODULE SessionProofs ----------------------------
(***************************************************************************)
(* MongoSessions implements Bank: whatever the transactions do to one      *)
(* another, each that commits is one step of the Bank.                     *)
(*                                                                         *)
(* The argument is the invariant Isolated.  What an open transaction has   *)
(* written it holds: nobody else has written it, and nobody has committed  *)
(* it since the snapshot (HoldsAlone, HoldsCurrent).  Whatever was not     *)
(* committed since is in the database as in the snapshot (SnapshotAgrees). *)
(* So the filters a transaction has met in its snapshot are met in the     *)
(* database when it commits, and the balance it adds to is the wallet's.   *)
(* A transaction makes its SET while it holds the wallet, so the SETs of   *)
(* transactions on one wallet come in the order of their commits.          *)
(***************************************************************************)
EXTENDS MongoSessions, TLAPS

Snapshot ==
  [balance : [Wallets -> Nat], transfer : [TransferIds -> TransferDoc \cup {None}],
   inbox : SUBSET Messages]

Transaction ==
  [stage : {"idle", "begin", "run", "set", "commit"}, job : Job \cup {None},
   step : Nat, snap : Snapshot \cup {None}, missed : SUBSET Documents, dead : BOOLEAN]

Found == [wallet : CachedWallets, balance : Nat, miss : BOOLEAN]

Typed ==
  /\ balance \in [Wallets -> Nat]
  /\ transfer \in [TransferIds -> TransferDoc \cup {None}]
  /\ inbox \subseteq Messages
  /\ cache \in [CachedWallets -> Nat \cup {Miss}]
  /\ tx \in [Sessions -> Transaction]
  /\ lookup \in [Readers -> Found \cup {None}]

Alive(x) == x.stage \in {"run", "set", "commit"} /\ ~x.dead

TakenUpTo(j, n) == UNION {Takes(j, Statements(j)[i]) : i \in 1 .. n}

Held(x) == IF Alive(x) THEN TakenUpTo(x.job, x.step) ELSE {}

\* The job is about documents of the right collections, and a job about a
\* transfer that exists has its terms.
JobFits(j, docs) ==
  /\ j \in Job
  /\ j.op = "transfer" => j.other \in Wallets /\ j.other # j.wallet /\ j.transfer \in TransferIds
  /\ j.op \in {"complete", "refund"} =>
       /\ j.transfer \in TransferIds
       /\ docs[j.transfer] # None
       /\ j.amount = docs[j.transfer].amount
       /\ j.wallet = IF j.op = "complete" THEN docs[j.transfer].to ELSE docs[j.transfer].from
  /\ j.op = "complete" => j.message \in Messages

\* How far a transaction is.
Progress(x) ==
  /\ x.stage = "idle" => x = IdleTx
  /\ x.stage = "begin" => x = [IdleTx EXCEPT !.stage = "begin", !.job = x.job]
  /\ x.stage \in {"run", "set", "commit"} => x.snap \in Snapshot
  /\ x.stage = "run" => x.step < Len(Statements(x.job))
  /\ x.stage \in {"set", "commit"} =>
       \/ x.step = Len(Statements(x.job))
       \/ x.job.op = "complete" /\ x.step = 1
       \/ x.job.op = "refund" /\ x.step = 0
  /\ x.stage = "set" => After(x.job, x.snap.balance[x.job.wallet]) \in Nat

FiltersMet(x) ==
  \A i \in 1 .. x.step : Matches(x.job, Statements(x.job)[i], x.snap)

SnapshotAgrees(x, b, t, m) ==
  /\ \A w \in Wallets \ x.missed : x.snap.balance[w] = b[w]
  /\ \A u \in TransferIds \ x.missed : x.snap.transfer[u] = t[u]
  /\ \A i \in Messages \ x.missed : i \in x.snap.inbox <=> i \in m
  /\ \A u \in TransferIds, k \in Keys \ x.missed :
       t[u] # None /\ t[u].key = k => x.snap.transfer[u] # None /\ x.snap.transfer[u].key = k

HoldsCurrent(x) == Held(x) \cap x.missed = {}

IsolatedTx(x, b, t, m) ==
  /\ x.stage # "idle" => JobFits(x.job, t)
  /\ Progress(x)
  /\ Alive(x) => FiltersMet(x) /\ SnapshotAgrees(x, b, t, m) /\ HoldsCurrent(x)

Creates(x) == x.stage # "idle" /\ x.job.op = "transfer"

\* The transfer session s is to create does not exist and is nobody else's.
Fresh(txs, t) ==
  \A s \in Sessions : Creates(txs[s]) =>
    /\ t[txs[s].job.transfer] = None
    /\ \A o \in Sessions \ {s} :
         Creates(txs[o]) => txs[o].job.transfer # txs[s].job.transfer

HoldsAlone(txs) == \A s, o \in Sessions : s # o => Held(txs[s]) \cap Held(txs[o]) = {}

AllIsolated(txs, b, t, m) ==
  /\ \A s \in Sessions : IsolatedTx(txs[s], b, t, m)
  /\ Fresh(txs, t)
  /\ HoldsAlone(txs)

Isolated == Typed /\ AllIsolated(tx, balance, transfer, inbox)

-----------------------------------------------------------------------------
(* What a job takes.                                                        *)

AnyOp == {"deposit", "withdraw", "transfer", "complete", "refund"}

\* A job's fields, from its type.
LEMMA JobFields ==
  ASSUME NEW j \in Job
  PROVE  /\ j.op \in AnyOp
         /\ j.wallet \in Wallets
         /\ j.amount \in Amounts /\ j.amount \in Nat /\ j.amount > 0
         /\ j.key \in Keys \cup {NoKey}
<1>1. /\ j.op \in Ops /\ j.wallet \in Wallets /\ j.amount \in Amounts
      /\ j.key \in Keys \cup {NoKey}
  BY DEF Job
<1>2. j.op \in AnyOp
  BY <1>1, SessionsAssumption DEF AnyOp
<1>3. j.amount \in Nat /\ j.amount # 0
  BY <1>1, SessionsAssumption
<1> QED BY <1>1, <1>2, <1>3

\* The statements of each kind of job.
LEMMA StatementsOf ==
  ASSUME NEW j, j.op \in AnyOp
  PROVE  /\ j.op \in {"deposit", "withdraw"} => Statements(j) = <<j.wallet>>
         /\ j.op = "transfer" => Statements(j) = <<j.wallet, j.transfer>>
         /\ j.op = "complete" => Statements(j) = <<j.message, j.transfer, j.wallet>>
         /\ j.op = "refund" => Statements(j) = <<j.transfer, j.wallet>>
  BY DEF AnyOp, Statements

LEMMA StatementCount ==
  ASSUME NEW j, j.op \in AnyOp
  PROVE  /\ Len(Statements(j)) \in 1 .. 3
         /\ j.op \in {"deposit", "withdraw"} => Len(Statements(j)) = 1
         /\ j.op \in {"transfer", "refund"} => Len(Statements(j)) = 2
         /\ j.op = "complete" => Len(Statements(j)) = 3
  BY StatementsOf DEF AnyOp

\* A job takes documents statement by statement.
LEMMA TakenStep ==
  ASSUME NEW j, NEW n \in Nat
  PROVE  /\ TakenUpTo(j, 0) = {}
         /\ TakenUpTo(j, n + 1) = TakenUpTo(j, n) \cup Takes(j, Statements(j)[n + 1])
<1>1. TakenUpTo(j, 0) = {}
  <2>1. 1 .. 0 = {}
    OBVIOUS
  <2> QED BY <2>1 DEF TakenUpTo
<1>2. 1 .. n + 1 = 1 .. n \cup {n + 1}
  OBVIOUS
<1>3. \A d : d \in TakenUpTo(j, n + 1) <=>
              \E i \in 1 .. n + 1 : d \in Takes(j, Statements(j)[i])
  BY DEF TakenUpTo
<1>4. \A d : d \in TakenUpTo(j, n) <=> \E i \in 1 .. n : d \in Takes(j, Statements(j)[i])
  BY DEF TakenUpTo
<1>5. \A d : d \in TakenUpTo(j, n + 1)
              <=> d \in TakenUpTo(j, n) \cup Takes(j, Statements(j)[n + 1])
  BY <1>2, <1>3, <1>4
<1> QED BY <1>1, <1>5

\* What each kind of job has taken, after each of its statements.
LEMMA TakenOf ==
  ASSUME NEW j, j.op \in AnyOp
  PROVE  /\ TakenUpTo(j, 0) = {}
         /\ j.op \in {"deposit", "withdraw"} => TakenUpTo(j, 1) = {j.wallet}
         /\ j.op = "transfer" =>
              /\ TakenUpTo(j, 1) = Takes(j, j.wallet)
              /\ TakenUpTo(j, 2) = Takes(j, j.wallet) \cup Takes(j, j.transfer)
         /\ j.op = "complete" =>
              /\ TakenUpTo(j, 1) = {j.message}
              /\ TakenUpTo(j, 2) = {j.message, j.transfer}
              /\ TakenUpTo(j, 3) = {j.message, j.transfer, j.wallet}
         /\ j.op = "refund" =>
              /\ TakenUpTo(j, 1) = {j.transfer}
              /\ TakenUpTo(j, 2) = {j.transfer, j.wallet}
<1> DEFINE T(n) == Takes(j, Statements(j)[n])
<1>1. /\ TakenUpTo(j, 0) = {}
      /\ TakenUpTo(j, 1) = T(1)
      /\ TakenUpTo(j, 2) = T(1) \cup T(2)
      /\ TakenUpTo(j, 3) = T(1) \cup T(2) \cup T(3)
  <2>1. TakenUpTo(j, 0 + 1) = TakenUpTo(j, 0) \cup T(0 + 1)
    BY TakenStep
  <2>2. TakenUpTo(j, 1 + 1) = TakenUpTo(j, 1) \cup T(1 + 1)
    BY TakenStep
  <2>3. TakenUpTo(j, 2 + 1) = TakenUpTo(j, 2) \cup T(2 + 1)
    BY TakenStep
  <2>4. TakenUpTo(j, 0) = {}
    BY TakenStep
  <2>5. 0 + 1 = 1 /\ 1 + 1 = 2 /\ 2 + 1 = 3
    OBVIOUS
  <2> HIDE DEF T
  <2> QED BY <2>1, <2>2, <2>3, <2>4, <2>5
<1>2. CASE j.op \in {"deposit", "withdraw"}
  <2>1. T(1) = {j.wallet}
    BY <1>2, StatementsOf DEF Takes
  <2> QED BY <1>1, <1>2, <2>1
<1>3. CASE j.op = "transfer"
  <2>1. T(1) = Takes(j, j.wallet) /\ T(2) = Takes(j, j.transfer)
    BY <1>3, StatementsOf
  <2> QED BY <1>1, <1>3, <2>1
<1>4. CASE j.op = "complete"
  <2>1. T(1) = {j.message} /\ T(2) = {j.transfer} /\ T(3) = {j.wallet}
    BY <1>4, StatementsOf DEF Takes
  <2> QED BY <1>1, <1>4, <2>1
<1>5. CASE j.op = "refund"
  <2>1. T(1) = {j.transfer} /\ T(2) = {j.wallet}
    BY <1>5, StatementsOf DEF Takes
  <2> QED BY <1>1, <1>5, <2>1
<1> QED BY <1>2, <1>3, <1>4, <1>5 DEF AnyOp

\* A transfer's documents: the wallet it debits, itself and its key.
LEMMA TransferTakes ==
  ASSUME NEW j \in Job, j.op = "transfer", j.transfer \in TransferIds
  PROVE  /\ Takes(j, j.wallet) = {j.wallet}
         /\ Takes(j, j.transfer) = {j.transfer, j.key} \ {NoKey}
  BY JobFields, DocumentsAssumption DEF Takes

\* Jobs take documents only.
LEMMA TakesDocuments ==
  ASSUME NEW j \in Job, NEW docs, JobFits(j, docs), NEW n \in 1 .. Len(Statements(j))
  PROVE  Takes(j, Statements(j)[n]) \subseteq Documents
<1>1. Statements(j)[n] \in Documents
  BY JobFields, StatementsOf DEF JobFits, Documents, AnyOp
<1>2. j.key # NoKey => j.key \in Documents
  BY JobFields DEF Documents
<1> QED BY <1>1, <1>2 DEF Takes

-----------------------------------------------------------------------------
(* Steps of one session that commit nothing.                                *)

\* Session s goes on as x: what has to be said of x.
LEMMA Replaced ==
  ASSUME NEW txs \in [Sessions -> Transaction], NEW s \in Sessions, NEW x \in Transaction,
         NEW b, NEW t, NEW m,
         AllIsolated(txs, b, t, m), IsolatedTx(x, b, t, m),
         \A o \in Sessions \ {s} : Held(x) \cap Held(txs[o]) = {},
         Creates(x) =>
           /\ t[x.job.transfer] = None
           /\ \A o \in Sessions \ {s} : Creates(txs[o]) => txs[o].job.transfer # x.job.transfer
  PROVE  AllIsolated([txs EXCEPT ![s] = x], b, t, m)
<1> DEFINE new == [txs EXCEPT ![s] = x]
<1>1. new[s] = x /\ \A o \in Sessions \ {s} : new[o] = txs[o]
  OBVIOUS
<1> HIDE DEF new
<1>2. \A o \in Sessions : IsolatedTx(new[o], b, t, m)
  BY <1>1 DEF AllIsolated
<1>3. Fresh(new, t)
  BY <1>1 DEF AllIsolated, Fresh
<1>4. HoldsAlone(new)
  <2>1. SUFFICES ASSUME NEW o \in Sessions, NEW q \in Sessions, o # q
                 PROVE  Held(new[o]) \cap Held(new[q]) = {}
    BY DEF HoldsAlone
  <2>2. CASE o = s
    BY <1>1, <2>1, <2>2
  <2>3. CASE q = s
    BY <1>1, <2>1, <2>3
  <2>4. CASE o # s /\ q # s
    BY <1>1, <2>1, <2>4 DEF AllIsolated, HoldsAlone
  <2> QED BY <2>2, <2>3, <2>4
<1>5. AllIsolated(new, b, t, m)
  BY <1>2, <1>3, <1>4 DEF AllIsolated
<1> QED BY <1>5 DEF new

\* The same for a session that goes on with its job, or ends it, and takes nothing.
LEMMA Continues ==
  ASSUME NEW txs \in [Sessions -> Transaction], NEW s \in Sessions, NEW x \in Transaction,
         NEW b, NEW t, NEW m,
         AllIsolated(txs, b, t, m), IsolatedTx(x, b, t, m),
         Held(x) \subseteq Held(txs[s]),
         x.stage # "idle" => txs[s].stage # "idle" /\ x.job = txs[s].job
  PROVE  AllIsolated([txs EXCEPT ![s] = x], b, t, m)
<1>1. \A o \in Sessions \ {s} : Held(x) \cap Held(txs[o]) = {}
  BY DEF AllIsolated, HoldsAlone
<1>2. Creates(x) =>
        /\ t[x.job.transfer] = None
        /\ \A o \in Sessions \ {s} : Creates(txs[o]) => txs[o].job.transfer # x.job.transfer
  BY DEF AllIsolated, Fresh, Creates
<1> QED BY <1>1, <1>2, Replaced

LEMMA HeldWhenNotAlive ==
  ASSUME NEW x, ~Alive(x)
  PROVE  Held(x) = {}
  BY DEF Held

LEMMA WroteIsHeld ==
  ASSUME NEW s \in Sessions
  PROVE  Wrote(s) = Held(tx[s]) /\ (Open(s) <=> Alive(tx[s]))
<1>1. Open(s) <=> Alive(tx[s])
  BY DEF Open, Alive
<1>2. CASE Open(s)
  BY <1>1, <1>2 DEF Wrote, Held, TakenUpTo
<1>3. CASE ~Open(s)
  BY <1>1, <1>3 DEF Wrote, Held
<1> QED BY <1>1, <1>2, <1>3

\* A session with nothing to do, and one whose callback is about to run.
LEMMA IdleIsolated ==
  ASSUME NEW b, NEW t, NEW m
  PROVE  IdleTx \in Transaction /\ Held(IdleTx) = {} /\ IsolatedTx(IdleTx, b, t, m)
<1>1. IdleTx \in Transaction /\ IdleTx.stage = "idle"
  BY DEF IdleTx, Transaction
<1>2. ~Alive(IdleTx)
  BY <1>1 DEF Alive
<1>3. Progress(IdleTx)
  BY <1>1 DEF Progress
<1> QED BY <1>1, <1>2, <1>3, HeldWhenNotAlive DEF IsolatedTx

LEMMA BegunIsolated ==
  ASSUME NEW j \in Job, NEW b, NEW t, NEW m, JobFits(j, t),
         NEW x, x = [IdleTx EXCEPT !.stage = "begin", !.job = j]
  PROVE  x \in Transaction /\ Held(x) = {} /\ IsolatedTx(x, b, t, m)
<1>1. x \in Transaction /\ x.stage = "begin" /\ x.job = j
  BY DEF IdleTx, Transaction
<1>2. ~Alive(x)
  BY <1>1 DEF Alive
<1>3. Progress(x)
  BY <1>1 DEF Progress
<1> QED BY <1>1, <1>2, <1>3, HeldWhenNotAlive DEF IsolatedTx

\* A job begins.
LEMMA StartsIsolated ==
  ASSUME Isolated, NEW s \in Sessions, NEW j \in Job, Starts(s, j), JobFits(j, transfer),
         j.op = "transfer" =>
           /\ transfer[j.transfer] = None
           /\ \A o \in Sessions : tx[o] # IdleTx => tx[o].job.transfer # j.transfer
  PROVE  Isolated'
<1>1. PICK x : x = [IdleTx EXCEPT !.stage = "begin", !.job = j]
  OBVIOUS
<1>2. /\ tx' = [tx EXCEPT ![s] = x]
      /\ UNCHANGED <<balance, transfer, inbox, cache, lookup>>
  BY <1>1 DEF Starts, committed, redis
<1>3. x \in Transaction /\ Held(x) = {} /\ IsolatedTx(x, balance, transfer, inbox)
  BY <1>1, BegunIsolated
<1>4. x.job = j
  BY <1>1 DEF IdleTx
<1>5. \A o \in Sessions : Creates(tx[o]) => tx[o] # IdleTx
  BY DEF Creates, IdleTx
<1>6. Creates(x) =>
        /\ transfer[x.job.transfer] = None
        /\ \A o \in Sessions \ {s} : Creates(tx[o]) => tx[o].job.transfer # x.job.transfer
  BY <1>4, <1>5 DEF Creates
<1>7. AllIsolated([tx EXCEPT ![s] = x], balance, transfer, inbox)
  BY <1>3, <1>6, Replaced DEF Isolated, Typed
<1>8. AllIsolated(tx', balance', transfer', inbox')
  BY <1>2, <1>7
<1>9. Typed'
  BY <1>2, <1>3 DEF Isolated, Typed
<1> QED BY <1>8, <1>9 DEF Isolated

\* Session s becomes x, which goes on with the job or ends it and takes nothing.
LEMMA BecomesIsolated ==
  ASSUME Isolated, NEW s \in Sessions, NEW x \in Transaction,
         tx' = [tx EXCEPT ![s] = x], UNCHANGED <<balance, transfer, inbox, cache, lookup>>,
         IsolatedTx(x, balance, transfer, inbox), Held(x) \subseteq Held(tx[s]),
         x.stage # "idle" => tx[s].stage # "idle" /\ x.job = tx[s].job
  PROVE  Isolated'
<1>1. AllIsolated([tx EXCEPT ![s] = x], balance, transfer, inbox)
  BY Continues DEF Isolated, Typed
<1>2. AllIsolated(tx', balance', transfer', inbox')
  BY <1>1
<1>3. Typed'
  BY DEF Isolated, Typed
<1> QED BY <1>2, <1>3 DEF Isolated

LEMMA BeginIsolated ==
  ASSUME Isolated, NEW s \in Sessions, Begin(s)
  PROVE  Isolated'
<1>1. PICK x : x = [tx[s] EXCEPT !.stage = "run", !.snap = Database]
  OBVIOUS
<1>2. tx' = [tx EXCEPT ![s] = x] /\ UNCHANGED <<balance, transfer, inbox, cache, lookup>>
  BY <1>1 DEF Begin, Becomes, committed, redis
<1>3. /\ tx[s] \in Transaction /\ tx[s].stage = "begin"
      /\ tx[s] = [IdleTx EXCEPT !.stage = "begin", !.job = tx[s].job]
      /\ JobFits(tx[s].job, transfer)
  BY DEF Isolated, Typed, AllIsolated, IsolatedTx, Progress, Begin
<1>4. Database \in Snapshot
  BY DEF Isolated, Typed, Database, Snapshot
<1>5. /\ x \in Transaction /\ x.stage = "run" /\ x.job = tx[s].job /\ x.snap = Database
      /\ x.step = 0 /\ x.missed = {} /\ x.dead = FALSE
  <2>1. tx[s].step = 0 /\ tx[s].missed = {} /\ tx[s].dead = FALSE
    BY <1>3 DEF IdleTx
  <2> QED BY <1>1, <1>3, <1>4, <2>1 DEF Transaction
<1>6. Held(x) = {}
  BY <1>5, TakenStep DEF Held
<1>7. x.job \in Job /\ Len(Statements(x.job)) \in 1 .. 3
  BY <1>3, <1>5, JobFields, StatementCount DEF JobFits
<1>8. Progress(x)
  <2>1. x.step < Len(Statements(x.job))
    <3>1. \A k \in 1 .. 3 : 0 < k
      OBVIOUS
    <3>2. 0 < Len(Statements(x.job)) /\ x.step = 0
      BY <1>5, <1>7, <3>1
    <3> QED BY <3>2
  <2>2. x.stage = "run" /\ x.snap \in Snapshot
    BY <1>4, <1>5
  <2> QED BY <2>1, <2>2 DEF Progress
<1>9. FiltersMet(x)
  BY <1>5 DEF FiltersMet
<1>10. SnapshotAgrees(x, balance, transfer, inbox)
  BY <1>5 DEF SnapshotAgrees, Database
<1>11. IsolatedTx(x, balance, transfer, inbox)
  BY <1>3, <1>5, <1>6, <1>8, <1>9, <1>10 DEF IsolatedTx, HoldsCurrent
<1> QED BY <1>2, <1>3, <1>5, <1>6, <1>11, BecomesIsolated

\* The callback is run again from the start.
LEMMA RetryIsolated ==
  ASSUME Isolated, NEW s \in Sessions, tx[s].stage # "idle", Retry(s)
  PROVE  Isolated'
<1>1. PICK x : x = [IdleTx EXCEPT !.stage = "begin", !.job = tx[s].job]
  OBVIOUS
<1>2. tx' = [tx EXCEPT ![s] = x] /\ UNCHANGED <<balance, transfer, inbox, cache, lookup>>
  BY <1>1 DEF Retry, Becomes, committed, redis
<1>3. JobFits(tx[s].job, transfer) /\ tx[s].job \in Job
  BY DEF Isolated, AllIsolated, IsolatedTx, JobFits
<1>4. x \in Transaction /\ Held(x) = {} /\ IsolatedTx(x, balance, transfer, inbox)
  BY <1>1, <1>3, BegunIsolated
<1>5. x.job = tx[s].job
  BY <1>1 DEF IdleTx
<1> QED BY <1>2, <1>4, <1>5, BecomesIsolated

\* The callback throws, or withTransaction gives up.
LEMMA EndIsolated ==
  ASSUME Isolated, NEW s \in Sessions, Becomes(s, IdleTx)
  PROVE  Isolated'
<1>1. tx' = [tx EXCEPT ![s] = IdleTx] /\ UNCHANGED <<balance, transfer, inbox, cache, lookup>>
  BY DEF Becomes, committed, redis
<1>2. IdleTx.stage = "idle"
  BY DEF IdleTx
<1> QED BY <1>1, <1>2, IdleIsolated, BecomesIsolated

\* The write of an open transaction.
LEMMA WriteIsolated ==
  ASSUME Isolated, NEW s \in Sessions, Write(s)
  PROVE  Isolated'
<1> DEFINE y == tx[s]
           n == tx[s].step
           d == Statements(tx[s].job)[tx[s].step + 1]
<1>1. PICK x : x = [tx[s] EXCEPT !.step = @ + 1, !.stage = NextStage(tx[s].job, tx[s].step + 1)]
  OBVIOUS
<1>2. tx' = [tx EXCEPT ![s] = x] /\ UNCHANGED <<balance, transfer, inbox, cache, lookup>>
  BY <1>1 DEF Write, Becomes, committed, redis
<1>3. /\ y \in Transaction /\ y.stage = "run" /\ ~y.dead
      /\ n \in Nat /\ n < Len(Statements(y.job))
      /\ JobFits(y.job, transfer) /\ y.job \in Job /\ y.snap \in Snapshot
      /\ FiltersMet(y) /\ SnapshotAgrees(y, balance, transfer, inbox) /\ HoldsCurrent(y)
  <2>1. y \in Transaction /\ y.stage = "run" /\ ~y.dead
    BY DEF Isolated, Typed, Write, Running, Open
  <2>2. IsolatedTx(y, balance, transfer, inbox)
    BY DEF Isolated, AllIsolated
  <2>3. Alive(y)
    BY <2>1 DEF Alive
  <2>4. n \in Nat
    BY <2>1 DEF Transaction
  <2> HIDE DEF y
  <2> QED BY <2>1, <2>2, <2>3, <2>4 DEF IsolatedTx, Progress, JobFits, y
<1>4. y.job.op \in AnyOp /\ Len(Statements(y.job)) \in 1 .. 3
  BY <1>3, JobFields, StatementCount
<1>5. /\ NextStage(y.job, n + 1) \in {"run", "set", "commit"}
      /\ NextStage(y.job, n + 1) = "run" => n + 1 < Len(Statements(y.job))
      /\ NextStage(y.job, n + 1) \in {"set", "commit"} => n + 1 = Len(Statements(y.job))
      /\ NextStage(y.job, n + 1) = "set" => y.job.op # "refund"
  BY <1>3, <1>4 DEF NextStage
<1>6. /\ x \in Transaction /\ x.step = n + 1 /\ x.stage = NextStage(y.job, n + 1)
      /\ x.job = y.job /\ x.snap = y.snap /\ x.missed = y.missed /\ x.dead = FALSE
  <2>1. PICK st : st = NextStage(y.job, n + 1)
    OBVIOUS
  <2>2. x = [y EXCEPT !.step = n + 1, !.stage = st]
    BY <1>1, <2>1
  <2>3. st \in {"run", "set", "commit"} /\ n + 1 \in Nat
    BY <1>3, <1>5, <2>1
  <2>4. y \in Transaction /\ y.dead = FALSE
    BY <1>3 DEF Transaction
  <2> HIDE DEF y, n
  <2>5. x \in Transaction
    BY <2>2, <2>3, <2>4 DEF Transaction
  <2>6. /\ x.step = n + 1 /\ x.stage = st /\ x.job = y.job
        /\ x.snap = y.snap /\ x.missed = y.missed /\ x.dead = FALSE
    BY <2>2, <2>4 DEF Transaction
  <2> QED BY <2>1, <2>5, <2>6
<1>7. Matches(y.job, d, y.snap)
  BY DEF Write, Match, Statement
<1>8. \A e \in Takes(y.job, d) : e \notin y.missed /\ \A o \in Sessions \ {s} : e \notin Held(tx[o])
  BY WroteIsHeld DEF Write, Conflicts, Statement
<1>9. Held(y) = TakenUpTo(y.job, n) /\ Held(x) = TakenUpTo(y.job, n + 1)
  BY <1>3, <1>5, <1>6 DEF Held, Alive
<1>10. Held(x) = Held(y) \cup Takes(y.job, d)
  BY <1>3, <1>9, TakenStep
<1> HIDE DEF y, n, d
<1>11. FiltersMet(x)
  <2>1. SUFFICES ASSUME NEW i \in 1 .. n + 1
                 PROVE  Matches(y.job, Statements(y.job)[i], y.snap)
    BY <1>6 DEF FiltersMet
  <2>2. CASE i = n + 1
    BY <1>7, <2>2 DEF d, y, n
  <2>3. CASE i # n + 1
    BY <1>3, <2>3 DEF FiltersMet, n, y
  <2> QED BY <2>2, <2>3
<1>12. SnapshotAgrees(x, balance, transfer, inbox)
  BY <1>3, <1>6 DEF SnapshotAgrees
<1>13. HoldsCurrent(x)
  BY <1>3, <1>6, <1>8, <1>10 DEF HoldsCurrent
<1>14. x.stage = "set" => After(x.job, x.snap.balance[x.job.wallet]) \in Nat
  <2>1. SUFFICES ASSUME x.stage = "set"
                 PROVE  After(y.job, y.snap.balance[y.job.wallet]) \in Nat
    BY <1>6
  <2>2. /\ y.job.wallet \in Wallets /\ y.job.amount \in Nat
        /\ y.snap.balance[y.job.wallet] \in Nat
    BY <1>3, JobFields DEF Snapshot
  <2>3. CASE Credit(y.job)
    BY <2>2, <2>3 DEF After
  <2>4. CASE ~Credit(y.job)
    <3>1. Statements(y.job)[1] = y.job.wallet
      BY <1>4, <2>4, StatementsOf DEF Credit, AnyOp
    <3>2. Matches(y.job, y.job.wallet, y.snap)
      BY <1>3, <1>6, <1>11, <3>1 DEF FiltersMet
    <3>3. y.snap.balance[y.job.wallet] >= y.job.amount
      BY <2>4, <3>2 DEF Matches
    <3> QED BY <2>2, <2>4, <3>3 DEF After
  <2> QED BY <2>3, <2>4
<1>15. Progress(x)
  BY <1>3, <1>5, <1>6, <1>14 DEF Progress
<1>16. IsolatedTx(x, balance, transfer, inbox)
  BY <1>3, <1>6, <1>11, <1>12, <1>13, <1>15 DEF IsolatedTx
<1>17. \A o \in Sessions \ {s} : Held(x) \cap Held(tx[o]) = {}
  <2>1. \A o \in Sessions \ {s} : Held(y) \cap Held(tx[o]) = {}
    BY DEF Isolated, AllIsolated, HoldsAlone, y
  <2> QED BY <1>8, <1>10, <2>1
<1>18. Creates(x) =>
         /\ transfer[x.job.transfer] = None
         /\ \A o \in Sessions \ {s} : Creates(tx[o]) => tx[o].job.transfer # x.job.transfer
  <2>1. Creates(x) => Creates(tx[s]) /\ x.job = tx[s].job
    BY <1>3, <1>6 DEF Creates, y
  <2> QED BY <2>1 DEF Isolated, AllIsolated, Fresh
<1>19. AllIsolated([tx EXCEPT ![s] = x], balance, transfer, inbox)
  BY <1>6, <1>16, <1>17, <1>18, Replaced DEF Isolated, Typed
<1>20. AllIsolated(tx', balance', transfer', inbox')
  BY <1>2, <1>19
<1>21. Typed'
  BY <1>2, <1>6 DEF Isolated, Typed
<1> QED BY <1>20, <1>21 DEF Isolated

\* What Isolated says of one session.
LEMMA SessionFacts ==
  ASSUME Isolated, NEW s \in Sessions
  PROVE  /\ tx[s] \in Transaction
         /\ IsolatedTx(tx[s], balance, transfer, inbox)
         /\ tx[s].stage # "idle" =>
              /\ JobFits(tx[s].job, transfer)
              /\ tx[s].job \in Job /\ tx[s].job.op \in AnyOp
              /\ Len(Statements(tx[s].job)) \in 1 .. 3
<1>1. tx[s] \in Transaction /\ IsolatedTx(tx[s], balance, transfer, inbox)
  BY DEF Isolated, Typed, AllIsolated
<1>2. tx[s].stage # "idle" => JobFits(tx[s].job, transfer) /\ tx[s].job \in Job
  BY <1>1 DEF IsolatedTx, JobFits
<1> QED BY <1>1, <1>2, JobFields, StatementCount

\* A session that only changes its stage to commit takes nothing more.
LEMMA ToCommit ==
  ASSUME Isolated, NEW s \in Sessions, tx[s].stage \in {"run", "set"},
         NEW x, x = [tx[s] EXCEPT !.stage = "commit"],
         \/ x.step = Len(Statements(x.job))
         \/ x.job.op = "complete" /\ x.step = 1
         \/ x.job.op = "refund" /\ x.step = 0
  PROVE  /\ x \in Transaction /\ x.stage # "idle" /\ x.job = tx[s].job
         /\ Held(x) = Held(tx[s])
         /\ IsolatedTx(x, balance, transfer, inbox)
<1> DEFINE y == tx[s]
<1>1. y \in Transaction /\ IsolatedTx(y, balance, transfer, inbox) /\ y.stage \in {"run", "set"}
  BY SessionFacts
<1>2. x = [y EXCEPT !.stage = "commit"]
  OBVIOUS
<1> HIDE DEF y
<1>3. /\ x \in Transaction /\ x.stage = "commit"
      /\ x.step = y.step /\ x.job = y.job /\ x.snap = y.snap
      /\ x.missed = y.missed /\ x.dead = y.dead
  BY <1>1, <1>2 DEF Transaction
<1>4. Alive(x) <=> Alive(y)
  BY <1>1, <1>3 DEF Alive
<1>5. Held(x) = Held(y)
  BY <1>3, <1>4 DEF Held
<1>6. y.snap \in Snapshot
  BY <1>1 DEF IsolatedTx, Progress
<1>7. Progress(x)
  BY <1>3, <1>6 DEF Progress
<1>8. IsolatedTx(x, balance, transfer, inbox)
  BY <1>1, <1>3, <1>4, <1>5, <1>7
     DEF IsolatedTx, FiltersMet, SnapshotAgrees, HoldsCurrent
<1> QED BY <1>3, <1>5, <1>8 DEF y

\* A transfer that is not pending any more is left alone.
LEMMA SkipIsolated ==
  ASSUME Isolated, NEW s \in Sessions, Skip(s)
  PROVE  Isolated'
<1> DEFINE j == tx[s].job
           n == tx[s].step
<1>1. PICK x : x = [tx[s] EXCEPT !.stage = "commit"]
  OBVIOUS
<1>2. tx' = [tx EXCEPT ![s] = x] /\ UNCHANGED <<balance, transfer, inbox, cache, lookup>>
  BY <1>1 DEF Skip, Becomes, committed, redis
<1>3. /\ tx[s].stage = "run" /\ j.op \in {"complete", "refund"}
      /\ Statements(j)[n + 1] = j.transfer
  BY DEF Skip, Running, Skips, Statement
<1>4. /\ tx[s] \in Transaction /\ JobFits(j, transfer) /\ j.op \in AnyOp /\ j \in Job
      /\ Len(Statements(j)) \in 1 .. 3
      /\ n \in Nat /\ n < Len(Statements(j))
  <2>1. tx[s].stage # "idle"
    BY <1>3
  <2>2. n \in Nat
    BY SessionFacts DEF Transaction
  <2>3. n < Len(Statements(j))
    BY <1>3, SessionFacts DEF IsolatedTx, Progress
  <2> QED BY <2>1, <2>2, <2>3, SessionFacts
<1>5. /\ j.transfer \in TransferIds /\ j.wallet \in Wallets
      /\ j.op = "complete" => j.message \in Messages
  BY <1>3, <1>4, JobFields DEF JobFits
<1>6. j.transfer # j.wallet /\ (j.op = "complete" => j.transfer # j.message)
  BY <1>5, DocumentsAssumption
<1> HIDE DEF j, n
<1>7. CASE j.op = "complete"
  <2>1. Statements(j) = <<j.message, j.transfer, j.wallet>> /\ Len(Statements(j)) = 3
    BY <1>4, <1>7, StatementsOf, StatementCount
  <2>2. n = 0 \/ n = 1 \/ n = 2
    BY <1>4, <2>1
  <2>3. n = 1
    BY <1>3, <1>6, <1>7, <2>1, <2>2
  <2> QED BY <1>1, <1>2, <1>3, <1>7, <2>3, ToCommit, BecomesIsolated, <1>4 DEF Transaction, j, n
<1>8. CASE j.op = "refund"
  <2>1. Statements(j) = <<j.transfer, j.wallet>> /\ Len(Statements(j)) = 2
    BY <1>4, <1>8, StatementsOf, StatementCount
  <2>2. n = 0 \/ n = 1
    BY <1>4, <2>1
  <2>3. n = 0
    BY <1>3, <1>6, <1>8, <2>1, <2>2
  <2> QED BY <1>1, <1>2, <1>3, <1>8, <2>3, ToCommit, BecomesIsolated, <1>4 DEF Transaction, j, n
<1> QED BY <1>3, <1>7, <1>8

\* The SET, in a transaction that still lives or not.
LEMMA SetIsolated ==
  ASSUME Isolated, NEW s \in Sessions, SetCachedBalance(s)
  PROVE  Isolated'
<1> DEFINE w == tx[s].job.wallet
           b == After(tx[s].job, tx[s].snap.balance[w])
<1>1. PICK x : x = [tx[s] EXCEPT !.stage = "commit"]
  OBVIOUS
<1>2. /\ tx[s].stage = "set" /\ Remember(w, b)
      /\ tx' = [tx EXCEPT ![s] = x] \/ tx' = tx
      /\ UNCHANGED <<balance, transfer, inbox, lookup>>
  BY <1>1 DEF SetCachedBalance, Sets, committed
<1>3. Progress(tx[s]) /\ tx[s] \in Transaction
  BY SessionFacts DEF IsolatedTx
<1>4. x.step = tx[s].step /\ x.job = tx[s].job
  BY <1>1, <1>3 DEF Transaction
<1>5. /\ x \in Transaction /\ x.stage # "idle" /\ x.job = tx[s].job /\ Held(x) = Held(tx[s])
      /\ IsolatedTx(x, balance, transfer, inbox)
  BY <1>1, <1>2, <1>3, <1>4, ToCommit DEF Progress
<1>6. AllIsolated([tx EXCEPT ![s] = x], balance, transfer, inbox)
  BY <1>2, <1>5, Continues DEF Isolated, Typed
<1>7. AllIsolated(tx', balance', transfer', inbox')
  BY <1>2, <1>6 DEF Isolated
<1>8. b \in Nat
  BY <1>2, <1>3 DEF Progress
<1> HIDE DEF b, w
<1>9. cache' \in [CachedWallets -> Nat \cup {Miss}]
  BY <1>2, <1>8 DEF Remember, Isolated, Typed
<1>10. tx' \in [Sessions -> Transaction]
  BY <1>2, <1>5 DEF Isolated, Typed
<1>11. Typed'
  BY <1>2, <1>9, <1>10 DEF Isolated, Typed
<1> QED BY <1>7, <1>11 DEF Isolated

LEMMA AbortIsolated ==
  ASSUME Isolated, NEW s \in Sessions, ServerAborts(s)
  PROVE  Isolated'
<1> DEFINE y == tx[s]
<1>1. PICK x : x = [y EXCEPT !.dead = TRUE]
  OBVIOUS
<1>2. /\ tx' = [tx EXCEPT ![s] = x] /\ UNCHANGED <<balance, transfer, inbox, cache, lookup>>
      /\ y.stage \in {"run", "set", "commit"}
  BY <1>1 DEF ServerAborts, Open, committed, redis
<1>3. y \in Transaction /\ IsolatedTx(y, balance, transfer, inbox)
  BY SessionFacts
<1> HIDE DEF y
<1>4. /\ x \in Transaction /\ x.stage = y.stage /\ x.dead = TRUE
      /\ x.step = y.step /\ x.job = y.job /\ x.snap = y.snap
  BY <1>1, <1>2, <1>3 DEF Transaction
<1>5. ~Alive(x) /\ Held(x) = {}
  BY <1>4, HeldWhenNotAlive DEF Alive
<1>6. Progress(x)
  BY <1>2, <1>3, <1>4 DEF IsolatedTx, Progress
<1>7. IsolatedTx(x, balance, transfer, inbox)
  BY <1>3, <1>4, <1>5, <1>6 DEF IsolatedTx
<1> QED BY <1>2, <1>4, <1>5, <1>7, BecomesIsolated DEF y

\* GETs and expiry: the lookup and the cache, nothing else.
LEMMA ReadsIsolated ==
  ASSUME Isolated, NEW w \in CachedWallets,
         Expires(w) \/ \E r \in Readers : Reads(r, w)
  PROVE  Isolated'
<1>1. tx' = tx /\ UNCHANGED <<balance, transfer, inbox>>
  BY DEF Expires, Reads, Finds, Hits, GetMisses, Fills, committed, redis
<1>2. AllIsolated(tx', balance', transfer', inbox')
  BY <1>1 DEF Isolated
<1>3. /\ cache' \in [CachedWallets -> Nat \cup {Miss}]
      /\ lookup' \in [Readers -> Found \cup {None}]
  <2>1. /\ cache \in [CachedWallets -> Nat \cup {Miss}]
        /\ lookup \in [Readers -> Found \cup {None}]
        /\ balance \in [Wallets -> Nat] /\ w \in Wallets
    BY SessionsAssumption DEF Isolated, Typed
  <2>2. CASE Expires(w)
    BY <2>1, <2>2 DEF Expires
  <2>3. ASSUME NEW r \in Readers, Finds(r, w)
        PROVE  cache' = cache /\ lookup' \in [Readers -> Found \cup {None}]
    <3>1. [wallet |-> w, balance |-> balance[w], miss |-> FALSE] \in Found
      BY <2>1 DEF Found
    <3> QED BY <2>1, <2>3, <3>1 DEF Finds, redis
  <2>4. ASSUME NEW r \in Readers, Hits(r, w)
        PROVE  cache' = cache /\ lookup' \in [Readers -> Found \cup {None}]
    BY <2>1, <2>4 DEF Hits, redis
  <2>5. ASSUME NEW r \in Readers, GetMisses(r, w)
        PROVE  cache' = cache /\ lookup' \in [Readers -> Found \cup {None}]
    <3>1. lookup[r] \in Found
      BY <2>1, <2>5 DEF GetMisses, Asks
    <3>2. [lookup[r] EXCEPT !.miss = TRUE] \in Found
      BY <3>1 DEF Found
    <3>3. lookup' = [lookup EXCEPT ![r] = [lookup[r] EXCEPT !.miss = TRUE]]
      BY <2>5 DEF GetMisses
    <3> QED BY <2>1, <2>5, <3>2, <3>3 DEF GetMisses, redis
  <2>6. ASSUME NEW r \in Readers, Fills(r, w)
        PROVE  /\ cache' \in [CachedWallets -> Nat \cup {Miss}]
               /\ lookup' \in [Readers -> Found \cup {None}]
    <3>1. lookup[r] \in Found
      BY <2>1, <2>6 DEF Fills
    <3>2. lookup[r].balance \in Nat
      BY <3>1 DEF Found
    <3>3. cache' \in [CachedWallets -> Nat \cup {Miss}]
      BY <2>1, <2>6, <3>2 DEF Fills, Remember
    <3>4. lookup' = [lookup EXCEPT ![r] = None] \/ lookup' = lookup
      BY <2>6 DEF Fills
    <3> QED BY <2>1, <3>3, <3>4
  <2> QED BY <2>1, <2>2, <2>3, <2>4, <2>5, <2>6 DEF Reads
<1>4. Typed'
  BY <1>1, <1>3 DEF Isolated, Typed
<1> QED BY <1>2, <1>4 DEF Isolated

\* Requests, deliveries and sweeps begin jobs that fit the database.
LEMMA ArrivesIsolated ==
  ASSUME Isolated, NEW s \in Sessions, Arrives(s)
  PROVE  Isolated'
<1>1. transfer \in [TransferIds -> TransferDoc \cup {None}] /\ tx \in [Sessions -> Transaction]
  BY DEF Isolated, Typed
<1>2. ASSUME NEW op \in {"deposit", "withdraw"}, NEW w \in Wallets, NEW a \in Amounts,
             Moves(s, op, w, a)
      PROVE  Isolated'
  <2>1. PICK j : j = [op |-> op, wallet |-> w, other |-> None, amount |-> a,
                      transfer |-> None, key |-> NoKey, message |-> None]
    OBVIOUS
  <2>2. Starts(s, j) /\ j.op = op
    BY <1>2, <2>1 DEF Moves
  <2>3. j \in Job
    BY <2>1, <2>2 DEF Job, Starts
  <2>4. JobFits(j, transfer)
    BY <2>2, <2>3 DEF JobFits
  <2> QED BY <2>2, <2>3, <2>4, StartsIsolated
<1>3. ASSUME NEW t \in TransferIds, NEW from \in Wallets, NEW to \in Wallets, NEW a \in Amounts,
             NEW k \in Keys \cup {NoKey}, Transfers(s, t, from, to, a, k)
      PROVE  Isolated'
  <2>1. PICK j : j = [op |-> "transfer", wallet |-> from, other |-> to, amount |-> a,
                      transfer |-> t, key |-> k, message |-> None]
    OBVIOUS
  <2>2. /\ Starts(s, j) /\ j.op = "transfer" /\ j.transfer = t /\ j.wallet = from /\ j.other = to
        /\ transfer[t] = None /\ \A o \in Sessions : tx[o] # IdleTx => tx[o].job.transfer # t
        /\ from # to
    BY <1>3, <2>1 DEF Transfers
  <2>3. j \in Job
    BY <2>1, <2>2 DEF Job, Starts
  <2>4. JobFits(j, transfer)
    BY <2>2, <2>3 DEF JobFits
  <2> QED BY <2>2, <2>3, <2>4, StartsIsolated
<1>4. ASSUME NEW m \in Messages, Completes(s, m)
      PROVE  Isolated'
  <2> DEFINE t == About[m]
  <2>1. t \in TransferIds
    BY SessionsAssumption
  <2>2. transfer[t] # None /\ transfer[t] \in TransferDoc
    BY <1>1, <1>4, <2>1 DEF Completes
  <2>3. transfer[t].to \in Wallets /\ transfer[t].amount \in Amounts
    BY <2>2 DEF TransferDoc
  <2>4. PICK j : j = [op |-> "complete", wallet |-> transfer[t].to, other |-> None,
                      amount |-> transfer[t].amount, transfer |-> t, key |-> NoKey,
                      message |-> m]
    OBVIOUS
  <2>5. Starts(s, j)
    BY <1>4, <2>4 DEF Completes
  <2> HIDE DEF t
  <2>6. /\ j.op = "complete" /\ j.transfer = t /\ j.message = m
        /\ j.wallet = transfer[t].to /\ j.amount = transfer[t].amount
    BY <2>4
  <2>7. j \in Job
    BY <2>1, <2>3, <2>4, <2>5, <2>6 DEF Job, Starts
  <2>8. JobFits(j, transfer)
    BY <2>1, <2>2, <2>6, <2>7 DEF JobFits
  <2> QED BY <2>5, <2>6, <2>7, <2>8, StartsIsolated
<1>5. ASSUME NEW t \in TransferIds, Refunds(s, t)
      PROVE  Isolated'
  <2>1. transfer[t] # None /\ transfer[t] \in TransferDoc
    BY <1>1, <1>5 DEF Refunds
  <2>2. transfer[t].from \in Wallets /\ transfer[t].amount \in Amounts
    BY <2>1 DEF TransferDoc
  <2>3. PICK j : j = [op |-> "refund", wallet |-> transfer[t].from, other |-> None,
                      amount |-> transfer[t].amount, transfer |-> t, key |-> NoKey,
                      message |-> None]
    OBVIOUS
  <2>4. Starts(s, j)
    BY <1>5, <2>3 DEF Refunds
  <2>5. /\ j.op = "refund" /\ j.transfer = t
        /\ j.wallet = transfer[t].from /\ j.amount = transfer[t].amount
    BY <2>3
  <2>6. j \in Job
    BY <2>2, <2>3, <2>4, <2>5 DEF Job, Starts
  <2>7. JobFits(j, transfer)
    BY <2>1, <2>5, <2>6 DEF JobFits
  <2> QED BY <2>4, <2>5, <2>6, <2>7, StartsIsolated
<1> QED BY <1>2, <1>3, <1>4, <1>5 DEF Arrives

-----------------------------------------------------------------------------
(* A commit.                                                                *)

\* What the transaction holds when it commits, by the kind of its job.
LEMMA CommitHolds ==
  ASSUME Isolated, NEW s \in Sessions, Commit(s), NEW j, j = tx[s].job
  PROVE  /\ j \in Job /\ JobFits(j, transfer) /\ j.op \in AnyOp
         /\ FiltersMet(tx[s]) /\ SnapshotAgrees(tx[s], balance, transfer, inbox)
         /\ HoldsCurrent(tx[s]) /\ tx[s].snap \in Snapshot /\ tx[s].missed \subseteq Documents
         /\ Wrote(s) = Held(tx[s]) /\ Held(tx[s]) = TakenUpTo(j, tx[s].step)
         /\ tx[s].step \in 0 .. Len(Statements(j))
         /\ j.op \in {"deposit", "withdraw"} => tx[s].step = 1
         /\ j.op = "transfer" => tx[s].step = 2
         /\ j.op = "complete" => tx[s].step \in {1, 3}
         /\ j.op = "refund" => tx[s].step \in {0, 2}
<1>1. tx[s].stage = "commit" /\ ~tx[s].dead /\ Alive(tx[s])
  BY DEF Commit, Open, Alive
<1>2. /\ tx[s] \in Transaction /\ IsolatedTx(tx[s], balance, transfer, inbox)
      /\ j \in Job /\ JobFits(j, transfer) /\ j.op \in AnyOp
      /\ Len(Statements(j)) \in 1 .. 3
  BY <1>1, SessionFacts
<1>3. tx[s].step \in Nat /\ tx[s].missed \subseteq Documents
  BY <1>2 DEF Transaction
<1>4. \/ tx[s].step = Len(Statements(j))
      \/ j.op = "complete" /\ tx[s].step = 1
      \/ j.op = "refund" /\ tx[s].step = 0
  BY <1>1, <1>2 DEF IsolatedTx, Progress
<1>5. Held(tx[s]) = TakenUpTo(j, tx[s].step) /\ Wrote(s) = Held(tx[s])
  BY <1>1, WroteIsHeld DEF Held
<1>6. /\ FiltersMet(tx[s]) /\ SnapshotAgrees(tx[s], balance, transfer, inbox)
      /\ HoldsCurrent(tx[s]) /\ tx[s].snap \in Snapshot
  BY <1>1, <1>2 DEF IsolatedTx, Progress
<1>7. /\ tx[s].step \in 0 .. Len(Statements(j))
      /\ j.op \in {"deposit", "withdraw"} => tx[s].step = 1
      /\ j.op = "transfer" => tx[s].step = 2
      /\ j.op = "complete" => tx[s].step \in {1, 3}
      /\ j.op = "refund" => tx[s].step \in {0, 2}
  <2>1. /\ j.op \in {"deposit", "withdraw"} => Len(Statements(j)) = 1
        /\ j.op \in {"transfer", "refund"} => Len(Statements(j)) = 2
        /\ j.op = "complete" => Len(Statements(j)) = 3
    BY <1>2, StatementCount
  <2>2. \A n \in Nat, l \in 1 .. 3, op \in AnyOp :
          /\ op \in {"deposit", "withdraw"} => l = 1
          /\ op \in {"transfer", "refund"} => l = 2
          /\ op = "complete" => l = 3
          /\ n = l \/ (op = "complete" /\ n = 1) \/ (op = "refund" /\ n = 0)
          => /\ n \in 0 .. l
             /\ op \in {"deposit", "withdraw"} => n = 1
             /\ op = "transfer" => n = 2
             /\ op = "complete" => n \in {1, 3}
             /\ op = "refund" => n \in {0, 2}
    BY DEF AnyOp
  <2> QED BY <1>2, <1>3, <1>4, <2>1, <2>2
<1> QED BY <1>2, <1>3, <1>5, <1>6, <1>7

\* What is held was met by the filters, and is in the database as it was then.
LEMMA CommitMeets ==
  ASSUME Isolated, NEW s \in Sessions, Commit(s), NEW j, j = tx[s].job
  PROVE  /\ j.wallet \in Wrote(s) => tx[s].snap.balance[j.wallet] = balance[j.wallet]
         /\ j.transfer \in Wrote(s) \cap TransferIds =>
              tx[s].snap.transfer[j.transfer] = transfer[j.transfer]
         /\ \A i \in 1 .. tx[s].step : Matches(j, Statements(j)[i], tx[s].snap)
<1>1. j.wallet \in Wallets
  BY CommitHolds, JobFields
<1>2. \A d \in Wrote(s) : d \notin tx[s].missed
  BY CommitHolds DEF HoldsCurrent
<1> QED BY <1>1, <1>2, CommitHolds DEF SnapshotAgrees, FiltersMet

\* Each commit is a step of the Bank, or changes no wallet and no transfer.
DepositEffect(j) ==
  /\ j.op = "deposit"
  /\ balance' = [balance EXCEPT ![j.wallet] = @ + j.amount] /\ transfer' = transfer

WithdrawEffect(j) ==
  /\ j.op = "withdraw" /\ balance[j.wallet] >= j.amount
  /\ balance' = [balance EXCEPT ![j.wallet] = @ - j.amount] /\ transfer' = transfer

TransferEffect(j) ==
  /\ j.op = "transfer" /\ balance[j.wallet] >= j.amount
  /\ Currency[j.wallet] = Currency[j.other]
  /\ transfer[j.transfer] = None /\ KeyUnused(transfer, j.key)
  /\ balance' = [balance EXCEPT ![j.wallet] = @ - j.amount]
  /\ transfer' = [transfer EXCEPT ![j.transfer] =
       [from |-> j.wallet, to |-> j.other, amount |-> j.amount,
        status |-> "PENDING", key |-> j.key]]

ResolveEffect(j, status) ==
  /\ transfer[j.transfer].status = "PENDING"
  /\ balance' = [balance EXCEPT ![j.wallet] = @ + j.amount]
  /\ transfer' = [transfer EXCEPT ![j.transfer].status = status]

NoEffect == balance' = balance /\ transfer' = transfer

LEMMA CommitEffect ==
  ASSUME Isolated, NEW s \in Sessions, Commit(s), NEW j, j = tx[s].job
  PROVE  \/ DepositEffect(j) \/ WithdrawEffect(j) \/ TransferEffect(j)
         \/ j.op = "complete" /\ ResolveEffect(j, "COMPLETED")
         \/ j.op = "refund" /\ ResolveEffect(j, "FAILED")
         \/ NoEffect
<1> DEFINE snap == tx[s].snap
<1>1. /\ j \in Job /\ JobFits(j, transfer) /\ j.op \in AnyOp
      /\ Wrote(s) = TakenUpTo(j, tx[s].step)
      /\ j.op \in {"deposit", "withdraw"} => tx[s].step = 1
      /\ j.op = "transfer" => tx[s].step = 2
      /\ j.op = "complete" => tx[s].step \in {1, 3}
      /\ j.op = "refund" => tx[s].step \in {0, 2}
  BY CommitHolds
<1>2. /\ balance \in [Wallets -> Nat] /\ transfer \in [TransferIds -> TransferDoc \cup {None}]
      /\ j.wallet \in Wallets /\ j.amount \in Nat
  BY <1>1, JobFields DEF Isolated, Typed
<1>3. /\ balance' = [w \in Wallets |->
           IF w \in Wrote(s) THEN After(j, snap.balance[w]) ELSE balance[w]]
      /\ transfer' = [t \in TransferIds |->
           IF t \in Wrote(s) THEN Written(j, snap) ELSE transfer[t]]
  BY DEF Commit
<1>4. /\ j.wallet \in Wrote(s) => snap.balance[j.wallet] = balance[j.wallet]
      /\ j.transfer \in Wrote(s) \cap TransferIds => snap.transfer[j.transfer] = transfer[j.transfer]
      /\ \A i \in 1 .. tx[s].step : Matches(j, Statements(j)[i], snap)
  BY CommitMeets
<1> HIDE DEF snap
\* What the balances become when the one wallet that is held is the job's.
<1>5. ASSUME \A w \in Wallets : w \in Wrote(s) <=> w = j.wallet
      PROVE  balance' = [balance EXCEPT ![j.wallet] = After(j, @)]
  BY <1>2, <1>3, <1>4, <1>5
<1>6. ASSUME \A w \in Wallets : w \notin Wrote(s)
      PROVE  balance' = balance
  BY <1>2, <1>3, <1>6
<1>7. ASSUME \A t \in TransferIds : t \notin Wrote(s)
      PROVE  transfer' = transfer
  BY <1>2, <1>3, <1>7
<1>8. ASSUME j.transfer \in TransferIds, \A t \in TransferIds : t \in Wrote(s) <=> t = j.transfer
      PROVE  transfer' = [transfer EXCEPT ![j.transfer] = Written(j, snap)]
  BY <1>2, <1>3, <1>8
<1>9. CASE j.op = "deposit"
  <2>1. Wrote(s) = {j.wallet}
    BY <1>1, <1>9, TakenOf
  <2>2. balance' = [balance EXCEPT ![j.wallet] = After(j, @)] /\ transfer' = transfer
    BY <1>2, <1>5, <1>7, <2>1, DocumentsAssumption
  <2> QED BY <1>9, <2>2 DEF After, Credit, DepositEffect
<1>10. CASE j.op = "withdraw"
  <2>1. Wrote(s) = {j.wallet}
    BY <1>1, <1>10, TakenOf
  <2>2. balance' = [balance EXCEPT ![j.wallet] = After(j, @)] /\ transfer' = transfer
    BY <1>2, <1>5, <1>7, <2>1, DocumentsAssumption
  <2>3. Matches(j, j.wallet, snap)
    BY <1>1, <1>4, <1>10, StatementsOf
  <2>4. balance[j.wallet] >= j.amount
    BY <1>4, <1>10, <2>1, <2>3 DEF Matches, Credit
  <2> QED BY <1>10, <2>2, <2>4 DEF After, Credit, WithdrawEffect
<1>11. CASE j.op = "transfer"
  <2>1. j.transfer \in TransferIds /\ j.key \in Keys \cup {NoKey}
    BY <1>1, <1>11, JobFields DEF JobFits
  <2>2. Wrote(s) = {j.wallet} \cup ({j.transfer, j.key} \ {NoKey})
    BY <1>1, <1>11, <2>1, TakenOf, TransferTakes
  <2>3. /\ \A w \in Wallets : w \in Wrote(s) <=> w = j.wallet
        /\ \A t \in TransferIds : t \in Wrote(s) <=> t = j.transfer
    BY <1>2, <2>1, <2>2, DocumentsAssumption
  <2>4. Written(j, snap) = [from |-> j.wallet, to |-> j.other, amount |-> j.amount,
                            status |-> "PENDING", key |-> j.key]
    BY <1>11 DEF Written
  <2>5. Matches(j, j.wallet, snap) /\ Matches(j, j.transfer, snap)
    BY <1>1, <1>4, <1>11, StatementsOf
  <2>6. /\ balance[j.wallet] >= j.amount /\ Currency[j.wallet] = Currency[j.other]
        /\ KeyUnused(snap.transfer, j.key)
    BY <1>2, <1>4, <1>11, <2>3, <2>5 DEF Matches, Credit
  <2>7. KeyUnused(transfer, j.key)
    <3>1. SUFFICES ASSUME j.key # NoKey, NEW u \in TransferIds,
                          transfer[u] # None, transfer[u].key = j.key
                   PROVE  FALSE
      BY DEF KeyUnused
    <3>2. j.key \in Keys \ tx[s].missed
      BY <2>1, <2>2, <3>1, CommitHolds DEF HoldsCurrent
    <3>3. SnapshotAgrees(tx[s], balance, transfer, inbox)
      BY CommitHolds
    <3>4. snap.transfer[u] # None /\ snap.transfer[u].key = j.key
      BY <3>1, <3>2, <3>3 DEF SnapshotAgrees, snap
    <3> QED BY <2>6, <3>1, <3>4 DEF KeyUnused
  <2>8. transfer[j.transfer] = None
    <3>1. Creates(tx[s])
      BY <1>11 DEF Creates, Commit
    <3> QED BY <3>1 DEF Isolated, AllIsolated, Fresh
  <2>9. balance' = [balance EXCEPT ![j.wallet] = @ - j.amount]
    BY <1>5, <1>11, <2>3 DEF After, Credit
  <2>10. transfer' = [transfer EXCEPT ![j.transfer] =
           [from |-> j.wallet, to |-> j.other, amount |-> j.amount,
            status |-> "PENDING", key |-> j.key]]
    BY <1>8, <2>1, <2>3, <2>4
  <2> QED BY <1>11, <2>6, <2>7, <2>8, <2>9, <2>10 DEF TransferEffect
<1>12. ASSUME NEW status,
              \/ j.op = "complete" /\ status = "COMPLETED"
              \/ j.op = "refund" /\ status = "FAILED",
              j.transfer \in Wrote(s), j.wallet \in Wrote(s),
              \A d \in Wrote(s) : d \in {j.transfer, j.wallet} \cup Messages,
              Matches(j, j.transfer, snap)
       PROVE  ResolveEffect(j, status)
  <2>1. j.transfer \in TransferIds /\ transfer[j.transfer] # None
    BY <1>1, <1>12 DEF JobFits
  <2>2. snap.transfer[j.transfer] = transfer[j.transfer]
    BY <1>4, <1>12, <2>1
  <2>3. transfer[j.transfer].status = "PENDING"
    BY <1>12, <2>2 DEF Matches
  <2>4. Written(j, snap) = [transfer[j.transfer] EXCEPT !.status = status]
    BY <1>12, <2>2 DEF Written
  <2>5. /\ \A w \in Wallets : w \in Wrote(s) <=> w = j.wallet
        /\ \A t \in TransferIds : t \in Wrote(s) <=> t = j.transfer
    BY <1>2, <1>12, <2>1, DocumentsAssumption
  <2>6. balance' = [balance EXCEPT ![j.wallet] = @ + j.amount]
    BY <1>5, <1>12, <2>5 DEF After, Credit
  <2>7. transfer' = [transfer EXCEPT ![j.transfer].status = status]
    BY <1>8, <2>1, <2>4, <2>5
  <2> QED BY <2>3, <2>6, <2>7 DEF ResolveEffect
<1>13. CASE j.op = "complete"
  <2>1. j.message \in Messages /\ j.transfer \in TransferIds
    BY <1>1, <1>13 DEF JobFits
  <2>2. CASE tx[s].step = 1
    <3>1. Wrote(s) = {j.message}
      BY <1>1, <1>13, <2>2, TakenOf
    <3> QED BY <1>6, <1>7, <2>1, <3>1, DocumentsAssumption DEF NoEffect
  <2>3. CASE tx[s].step = 3
    <3>1. Wrote(s) = {j.message, j.transfer, j.wallet}
      BY <1>1, <1>13, <2>3, TakenOf
    <3>2. Matches(j, j.transfer, snap)
      <4>1. Statements(j)[2] = j.transfer
        BY <1>1, <1>13, StatementsOf
      <4>2. 2 \in 1 .. tx[s].step
        BY <2>3
      <4> QED BY <1>4, <4>1, <4>2
    <3>3. ResolveEffect(j, "COMPLETED")
      BY <1>12, <1>13, <2>1, <3>1, <3>2
    <3> QED BY <1>13, <3>3
  <2> QED BY <1>1, <1>13, <2>2, <2>3
<1>14. CASE j.op = "refund"
  <2>1. CASE tx[s].step = 0
    <3>1. Wrote(s) = {}
      BY <1>1, <1>14, <2>1, TakenOf
    <3> QED BY <1>6, <1>7, <3>1 DEF NoEffect
  <2>2. CASE tx[s].step = 2
    <3>1. Wrote(s) = {j.transfer, j.wallet}
      BY <1>1, <1>14, <2>2, TakenOf
    <3>2. Matches(j, j.transfer, snap)
      BY <1>1, <1>4, <1>14, <2>2, StatementsOf
    <3>3. ResolveEffect(j, "FAILED")
      BY <1>12, <1>14, <3>1, <3>2
    <3> QED BY <1>14, <3>3
  <2> QED BY <1>1, <1>14, <2>1, <2>2
<1> QED BY <1>1, <1>9, <1>10, <1>11, <1>13, <1>14 DEF AnyOp

\* What a commit leaves of the documents, whatever its job is.
LEMMA CommitChanges ==
  ASSUME Isolated, NEW s \in Sessions, Commit(s), NEW j, j = tx[s].job
  PROVE  /\ Wrote(s) \subseteq Documents
         /\ balance' \in [Wallets -> Nat] /\ transfer' \in [TransferIds -> TransferDoc \cup {None}]
         /\ inbox' \subseteq Messages
         /\ \A w \in Wallets \ Wrote(s) : balance'[w] = balance[w]
         /\ \A u \in TransferIds \ Wrote(s) : transfer'[u] = transfer[u]
         /\ \A i \in Messages \ Wrote(s) : i \in inbox' <=> i \in inbox
         /\ \A u \in TransferIds : transfer[u] # None =>
              /\ transfer'[u] # None
              /\ transfer'[u].from = transfer[u].from /\ transfer'[u].to = transfer[u].to
              /\ transfer'[u].amount = transfer[u].amount /\ transfer'[u].key = transfer[u].key
         /\ \A u \in TransferIds : transfer[u] = None /\ transfer'[u] # None =>
              /\ j.op = "transfer" /\ u = j.transfer
              /\ transfer'[u].key \in Keys => transfer'[u].key \in Wrote(s)
<1>1. /\ j \in Job /\ JobFits(j, transfer) /\ j.op \in AnyOp
      /\ Wrote(s) = TakenUpTo(j, tx[s].step) /\ tx[s].step \in 0 .. Len(Statements(j))
      /\ tx[s].snap \in Snapshot
  BY CommitHolds
<1>2. /\ balance \in [Wallets -> Nat] /\ transfer \in [TransferIds -> TransferDoc \cup {None}]
      /\ inbox \subseteq Messages /\ j.wallet \in Wallets
      /\ j.amount \in Amounts /\ j.amount \in Nat /\ j.key \in Keys \cup {NoKey}
  BY <1>1, JobFields DEF Isolated, Typed
<1>3. Wrote(s) \subseteq Documents
  <2>1. ASSUME NEW i \in 1 .. tx[s].step
        PROVE  i \in 1 .. Len(Statements(j))
    BY <1>1, StatementCount
  <2>2. \A i \in 1 .. tx[s].step : Takes(j, Statements(j)[i]) \subseteq Documents
    BY <1>1, <2>1, TakesDocuments
  <2> QED BY <1>1, <2>2 DEF TakenUpTo
<1>4. /\ \A w \in Wallets \ Wrote(s) : balance'[w] = balance[w]
      /\ \A u \in TransferIds \ Wrote(s) : transfer'[u] = transfer[u]
      /\ \A i \in Messages \ Wrote(s) : i \in inbox' <=> i \in inbox
      /\ inbox' \subseteq Messages
  BY <1>2 DEF Commit
<1>5. ASSUME ResolveEffect(j, "COMPLETED") \/ ResolveEffect(j, "FAILED"),
             j.op \in {"complete", "refund"}
      PROVE  /\ balance' \in [Wallets -> Nat]
             /\ transfer' \in [TransferIds -> TransferDoc \cup {None}]
             /\ \A u \in TransferIds : transfer[u] # None =>
                  /\ transfer'[u] # None
                  /\ transfer'[u].from = transfer[u].from /\ transfer'[u].to = transfer[u].to
                  /\ transfer'[u].amount = transfer[u].amount /\ transfer'[u].key = transfer[u].key
             /\ \A u \in TransferIds : transfer[u] = None => transfer'[u] = None
  <2>1. PICK status \in {"COMPLETED", "FAILED"} : ResolveEffect(j, status)
    BY <1>5
  <2>2. /\ j.transfer \in TransferIds /\ transfer[j.transfer] \in TransferDoc
        /\ transfer[j.transfer] # None
    BY <1>1, <1>2, <1>5 DEF JobFits
  <2>3. PICK doc : doc = [transfer[j.transfer] EXCEPT !.status = status]
    OBVIOUS
  <2>4. transfer' = [transfer EXCEPT ![j.transfer] = doc]
    BY <2>1, <2>3 DEF ResolveEffect
  <2>5. /\ doc \in TransferDoc
        /\ doc.from = transfer[j.transfer].from /\ doc.to = transfer[j.transfer].to
        /\ doc.amount = transfer[j.transfer].amount /\ doc.key = transfer[j.transfer].key
    BY <2>2, <2>3 DEF TransferDoc
  <2>6. doc # None
    BY <2>5, NoneAssumption
  <2>7. balance' \in [Wallets -> Nat]
    BY <1>2, <2>1 DEF ResolveEffect
  <2> QED BY <1>2, <2>2, <2>4, <2>5, <2>6, <2>7
<1>6. ASSUME TransferEffect(j)
      PROVE  /\ balance' \in [Wallets -> Nat]
             /\ transfer' \in [TransferIds -> TransferDoc \cup {None}]
             /\ \A u \in TransferIds : transfer[u] # None => transfer'[u] = transfer[u]
             /\ \A u \in TransferIds : transfer[u] = None /\ transfer'[u] # None =>
                  u = j.transfer /\ transfer'[u].key = j.key
  <2>1. PICK doc : doc = [from |-> j.wallet, to |-> j.other, amount |-> j.amount,
                          status |-> "PENDING", key |-> j.key]
    OBVIOUS
  <2>2. j.other \in Wallets /\ j.transfer \in TransferIds /\ transfer[j.transfer] = None
    BY <1>1, <1>6 DEF JobFits, TransferEffect
  <2>3. doc \in TransferDoc /\ doc.key = j.key
    BY <1>2, <2>1, <2>2 DEF TransferDoc
  <2>4. transfer' = [transfer EXCEPT ![j.transfer] = doc]
    BY <1>6, <2>1 DEF TransferEffect
  <2>5. balance' \in [Wallets -> Nat]
    <3>1. balance[j.wallet] \in Nat /\ balance[j.wallet] - j.amount \in Nat
      BY <1>2, <1>6 DEF TransferEffect
    <3> QED BY <1>2, <1>6, <3>1 DEF TransferEffect
  <2> QED BY <1>2, <2>2, <2>3, <2>4, <2>5
<1>7. ASSUME j.op = "transfer"
      PROVE  j.key \in Keys => j.key \in Wrote(s)
  <2>1. j.transfer \in TransferIds /\ Wrote(s) = TakenUpTo(j, 2)
    BY <1>1, <1>7, CommitHolds DEF JobFits
  <2>2. Wrote(s) = {j.wallet} \cup ({j.transfer, j.key} \ {NoKey})
    BY <1>1, <1>7, <2>1, TakenOf, TransferTakes
  <2> QED BY <2>2, SessionsAssumption
<1>8. CASE DepositEffect(j)
  BY <1>2, <1>3, <1>4, <1>8 DEF DepositEffect
<1>9. CASE WithdrawEffect(j)
  <2>1. balance[j.wallet] \in Nat /\ balance[j.wallet] - j.amount \in Nat
    BY <1>2, <1>9 DEF WithdrawEffect
  <2> QED BY <1>2, <1>3, <1>4, <1>9, <2>1 DEF WithdrawEffect
<1>10. CASE TransferEffect(j)
  <2>1. j.op = "transfer"
    BY <1>10 DEF TransferEffect
  <2> QED BY <1>2, <1>3, <1>4, <1>6, <1>7, <1>10, <2>1
<1>11. CASE \/ j.op = "complete" /\ ResolveEffect(j, "COMPLETED")
            \/ j.op = "refund" /\ ResolveEffect(j, "FAILED")
  BY <1>3, <1>4, <1>5, <1>11
<1>12. CASE NoEffect
  BY <1>2, <1>3, <1>4, <1>12 DEF NoEffect
<1> QED BY <1>8, <1>9, <1>10, <1>11, <1>12, CommitEffect

\* The sessions that are open learn what they have missed.
LEMMA CommitIsolated ==
  ASSUME Isolated, NEW s \in Sessions, Commit(s)
  PROVE  Isolated'
<1> DEFINE W == Wrote(s)
           j == tx[s].job
<1>1. /\ W \subseteq Documents
      /\ balance' \in [Wallets -> Nat] /\ transfer' \in [TransferIds -> TransferDoc \cup {None}]
      /\ inbox' \subseteq Messages
      /\ \A w \in Wallets \ W : balance'[w] = balance[w]
      /\ \A u \in TransferIds \ W : transfer'[u] = transfer[u]
      /\ \A i \in Messages \ W : i \in inbox' <=> i \in inbox
      /\ \A u \in TransferIds : transfer[u] # None =>
           /\ transfer'[u] # None
           /\ transfer'[u].from = transfer[u].from /\ transfer'[u].to = transfer[u].to
           /\ transfer'[u].amount = transfer[u].amount /\ transfer'[u].key = transfer[u].key
      /\ \A u \in TransferIds : transfer[u] = None /\ transfer'[u] # None =>
           /\ j.op = "transfer" /\ u = j.transfer
           /\ transfer'[u].key \in Keys => transfer'[u].key \in W
  BY CommitChanges
<1>2. /\ tx' = [o \in Sessions |->
           IF o = s THEN IdleTx
           ELSE IF Open(o) THEN [tx[o] EXCEPT !.missed = @ \cup W] ELSE tx[o]]
      /\ tx[s].stage = "commit" /\ UNCHANGED <<cache, lookup>>
  BY DEF Commit
<1>3. W = Held(tx[s])
  BY WroteIsHeld
<1> HIDE DEF W, j
<1>4. ASSUME NEW o \in Sessions
      PROVE  /\ tx'[o] \in Transaction /\ IsolatedTx(tx'[o], balance', transfer', inbox')
             /\ Held(tx'[o]) \subseteq Held(tx[o])
             /\ Creates(tx'[o]) => o # s /\ Creates(tx[o]) /\ tx'[o].job = tx[o].job
  <2>1. CASE o = s
    <3>1. tx'[o] = IdleTx
      BY <1>2, <2>1
    <3>2. ~Creates(IdleTx)
      BY DEF Creates, IdleTx
    <3>3. IdleTx \in Transaction /\ Held(IdleTx) = {} /\ IsolatedTx(IdleTx, balance', transfer', inbox')
      BY IdleIsolated
    <3> QED BY <3>1, <3>2, <3>3
  <2>2. ASSUME o # s
        PROVE  /\ tx[o] \in Transaction /\ IsolatedTx(tx[o], balance, transfer, inbox)
               /\ tx[o].stage # "idle" => JobFits(tx[o].job, transfer')
    <3>1. tx[o] \in Transaction /\ IsolatedTx(tx[o], balance, transfer, inbox)
      BY SessionFacts
    <3>2. tx[o].stage # "idle" => JobFits(tx[o].job, transfer)
      BY <3>1 DEF IsolatedTx
    <3> QED BY <1>1, <3>1, <3>2 DEF JobFits
  <2>3. CASE o # s /\ ~Open(o)
    <3>1. tx'[o] = tx[o] /\ ~Alive(tx[o])
      BY <1>2, <2>3, WroteIsHeld
    <3>2. IsolatedTx(tx[o], balance', transfer', inbox')
      BY <2>2, <2>3, <3>1 DEF IsolatedTx
    <3> QED BY <2>2, <2>3, <3>1, <3>2
  <2>4. CASE o # s /\ Open(o)
    <3>1. PICK x : x = [tx[o] EXCEPT !.missed = @ \cup W]
      OBVIOUS
    <3>2. tx'[o] = x
      BY <1>2, <2>4, <3>1
    <3>3. PICK y : y = tx[o]
      OBVIOUS
    <3>4. /\ y \in Transaction /\ Alive(y) /\ IsolatedTx(y, balance, transfer, inbox)
          /\ y.stage # "idle" => JobFits(y.job, transfer')
      BY <2>2, <2>4, <3>3, WroteIsHeld
    <3>5. /\ x \in Transaction /\ x.stage = y.stage /\ x.job = y.job /\ x.step = y.step
          /\ x.snap = y.snap /\ x.dead = y.dead /\ x.missed = y.missed \cup W
      <4>1. y.missed \cup W \subseteq Documents
        BY <1>1, <3>4 DEF Transaction
      <4>2. x = [y EXCEPT !.missed = y.missed \cup W]
        BY <3>1, <3>3
      <4> QED BY <3>4, <4>1, <4>2 DEF Transaction
    <3>6. Alive(x) /\ Held(x) = Held(y)
      BY <3>4, <3>5 DEF Alive, Held
    <3>7. x.stage \in {"run", "set", "commit"}
      BY <3>6 DEF Alive
    <3>8. Progress(x)
      BY <3>4, <3>5, <3>7 DEF IsolatedTx, Progress
    <3>9. FiltersMet(x)
      BY <3>4, <3>5 DEF IsolatedTx, FiltersMet
    <3>10. HoldsCurrent(x)
      <4>1. Held(y) \cap W = {}
        BY <1>3, <2>4, <3>3 DEF Isolated, AllIsolated, HoldsAlone
      <4> QED BY <3>4, <3>5, <3>6, <4>1 DEF IsolatedTx, HoldsCurrent
    <3>11. SnapshotAgrees(x, balance', transfer', inbox')
      <4>1. SnapshotAgrees(y, balance, transfer, inbox)
        BY <3>4 DEF IsolatedTx
      <4>2. /\ \A w \in Wallets \ x.missed : x.snap.balance[w] = balance'[w]
            /\ \A u \in TransferIds \ x.missed : x.snap.transfer[u] = transfer'[u]
            /\ \A i \in Messages \ x.missed : i \in x.snap.inbox <=> i \in inbox'
        BY <1>1, <3>5, <4>1 DEF SnapshotAgrees
      <4>3. ASSUME NEW u \in TransferIds, NEW k \in Keys \ x.missed,
                   transfer'[u] # None, transfer'[u].key = k
            PROVE  x.snap.transfer[u] # None /\ x.snap.transfer[u].key = k
        <5>1. k \notin W /\ k \in Keys \ y.missed
          BY <3>5
        <5>2. transfer[u] # None
          BY <1>1, <4>3, <5>1
        <5>3. transfer[u].key = k
          BY <1>1, <4>3, <5>2
        <5> QED BY <3>5, <4>1, <5>1, <5>2, <5>3 DEF SnapshotAgrees
      <4> QED BY <4>2, <4>3 DEF SnapshotAgrees
    <3>12. IsolatedTx(x, balance', transfer', inbox')
      BY <3>4, <3>5, <3>8, <3>9, <3>10, <3>11 DEF IsolatedTx
    <3>13. Creates(x) => Creates(y) /\ x.job = y.job
      BY <3>5 DEF Creates
    <3> QED BY <2>4, <3>2, <3>3, <3>5, <3>6, <3>12, <3>13
  <2> QED BY <2>1, <2>3, <2>4
<1>5. HoldsAlone(tx')
  BY <1>4 DEF Isolated, AllIsolated, HoldsAlone
<1>6. Fresh(tx', transfer')
  <2>1. SUFFICES ASSUME NEW o \in Sessions, Creates(tx'[o])
                 PROVE  /\ transfer'[tx'[o].job.transfer] = None
                        /\ \A q \in Sessions \ {o} :
                             Creates(tx'[q]) => tx'[q].job.transfer # tx'[o].job.transfer
    BY DEF Fresh
  <2>2. o # s /\ Creates(tx[o]) /\ tx'[o].job = tx[o].job
    BY <1>4, <2>1
  <2>3. PICK u : u = tx[o].job.transfer
    OBVIOUS
  <2>4. /\ transfer[u] = None
        /\ \A q \in Sessions \ {o} : Creates(tx[q]) => tx[q].job.transfer # u
    BY <2>2, <2>3 DEF Isolated, AllIsolated, Fresh
  <2>5. u \in TransferIds
    BY <2>2, <2>3, SessionFacts DEF Creates, JobFits
  <2>6. transfer'[u] = None
    <3>1. j.op = "transfer" => Creates(tx[s])
      BY <1>2 DEF Creates, j
    <3>2. j.op = "transfer" => j.transfer # u
      BY <2>2, <2>4, <3>1 DEF j
    <3> QED BY <1>1, <2>4, <2>5, <3>2
  <2> QED BY <1>4, <2>2, <2>3, <2>4, <2>6
<1>7. AllIsolated(tx', balance', transfer', inbox')
  BY <1>4, <1>5, <1>6 DEF AllIsolated
<1>8. tx' \in [Sessions -> Transaction]
  BY <1>2, <1>4
<1>9. Typed'
  BY <1>1, <1>2, <1>8 DEF Isolated, Typed
<1> QED BY <1>7, <1>9 DEF Isolated

-----------------------------------------------------------------------------
(* The specification.                                                       *)

LEMMA InitIsolated ==
  ASSUME Init
  PROVE  Isolated
<1>1. \A s \in Sessions : tx[s] = IdleTx
  BY DEF Init
<1>2. Typed
  <2>1. tx \in [Sessions -> Transaction]
    BY IdleIsolated DEF Init
  <2>2. /\ balance \in [Wallets -> Nat] /\ transfer \in [TransferIds -> TransferDoc \cup {None}]
        /\ inbox \subseteq Messages /\ cache \in [CachedWallets -> Nat \cup {Miss}]
        /\ lookup \in [Readers -> Found \cup {None}]
    BY SessionsAssumption DEF Init
  <2> QED BY <2>1, <2>2 DEF Typed
<1>3. \A s \in Sessions : IsolatedTx(tx[s], balance, transfer, inbox)
  BY <1>1, IdleIsolated
<1>4. Fresh(tx, transfer)
  <2>1. ~Creates(IdleTx)
    BY DEF Creates, IdleTx
  <2> QED BY <1>1, <2>1 DEF Fresh
<1>5. HoldsAlone(tx)
  BY <1>1, IdleIsolated DEF HoldsAlone
<1> QED BY <1>2, <1>3, <1>4, <1>5 DEF Isolated, AllIsolated

\* Every step keeps transactions isolated.
LEMMA NextIsolated ==
  ASSUME Isolated, [Next]_vars
  PROVE  Isolated'
<1>1. ASSUME NEW s \in Sessions, Runs(s)
      PROVE  Isolated'
  <2>1. CASE Begin(s)
    BY <2>1, BeginIsolated
  <2>2. CASE Write(s)
    BY <2>2, WriteIsolated
  <2>3. CASE WriteConflict(s)
    BY <2>3, RetryIsolated DEF WriteConflict, Running
  <2>4. CASE Skip(s)
    BY <2>4, SkipIsolated
  <2>5. CASE Refuse(s)
    BY <2>5, EndIsolated DEF Refuse
  <2>6. CASE SetCachedBalance(s)
    BY <2>6, SetIsolated
  <2>7. CASE Commit(s)
    BY <2>7, CommitIsolated
  <2>8. CASE FindsAborted(s)
    BY <2>8, RetryIsolated, EndIsolated DEF FindsAborted
  <2> QED BY <1>1, <2>1, <2>2, <2>3, <2>4, <2>5, <2>6, <2>7, <2>8 DEF Runs
<1>2. CASE UNCHANGED vars
  <2>1. UNCHANGED <<balance, transfer, inbox, cache, tx, lookup>>
    BY <1>2 DEF vars, committed, redis
  <2>2. Typed' /\ AllIsolated(tx', balance', transfer', inbox')
    BY <2>1 DEF Isolated, Typed
  <2> QED BY <2>2 DEF Isolated
<1> QED BY <1>1, <1>2, ArrivesIsolated, AbortIsolated, ReadsIsolated DEF Next

\* Transactions are isolated: the invariant of the module.
THEOREM TransactionsIsolated == Spec => []Isolated
<1> QED BY InitIsolated, NextIsolated, PTL DEF Spec

\* What the run sessions checks of the types, for all instances.
THEOREM SessionsTypeCorrect == Spec => []TypeOK
<1>1. Isolated => TypeOK
  BY DEF Isolated, Typed, TypeOK
<1> QED BY <1>1, TransactionsIsolated, PTL

\* A commit is a step of the Bank.
LEMMA CommitIsSerial ==
  ASSUME Isolated, NEW s \in Sessions, Commit(s)
  PROVE  [Serial!Next]_(Serial!vars)
<1>1. PICK j : j = tx[s].job
  OBVIOUS
<1>2. j \in Job /\ JobFits(j, transfer)
  BY <1>1, CommitHolds
<1>3. j.wallet \in Wallets /\ j.amount \in Amounts /\ j.key \in Keys \cup {NoKey}
  BY <1>2, JobFields
<1>4. CASE DepositEffect(j)
  <2>1. Serial!Deposit(j.wallet, j.amount)
    BY <1>3, <1>4 DEF DepositEffect, Serial!Deposit
  <2> QED BY <1>3, <2>1 DEF Serial!Next
<1>5. CASE WithdrawEffect(j)
  <2>1. Serial!Withdraw(j.wallet, j.amount)
    BY <1>3, <1>5 DEF WithdrawEffect, Serial!Withdraw
  <2> QED BY <1>3, <2>1 DEF Serial!Next
<1>6. CASE TransferEffect(j)
  <2>1. j.transfer \in TransferIds /\ j.other \in Wallets /\ j.other # j.wallet
    BY <1>2, <1>6 DEF JobFits, TransferEffect
  <2>2. Serial!Initiate(j.transfer, j.wallet, j.other, j.amount, j.key)
    BY <1>3, <1>6, <2>1 DEF TransferEffect, KeyUnused, Serial!Initiate
  <2> QED BY <1>3, <2>1, <2>2 DEF Serial!Next
<1>7. CASE j.op = "complete" /\ ResolveEffect(j, "COMPLETED")
  <2>1. /\ j.transfer \in TransferIds /\ transfer[j.transfer] # None
        /\ j.amount = transfer[j.transfer].amount /\ j.wallet = transfer[j.transfer].to
    BY <1>2, <1>7 DEF JobFits
  <2>2. Serial!Settle(j.transfer)
    BY <1>7, <2>1 DEF ResolveEffect, Serial!Settle, Serial!InFlight, Serial!Move
  <2> QED BY <2>1, <2>2 DEF Serial!Next, Serial!Resolve
<1>8. CASE j.op = "refund" /\ ResolveEffect(j, "FAILED")
  <2>1. /\ j.transfer \in TransferIds /\ transfer[j.transfer] # None
        /\ j.amount = transfer[j.transfer].amount /\ j.wallet = transfer[j.transfer].from
    BY <1>2, <1>8 DEF JobFits
  <2>2. Serial!Return(j.transfer)
    BY <1>8, <2>1 DEF ResolveEffect, Serial!Return, Serial!InFlight, Serial!Move
  <2> QED BY <2>1, <2>2 DEF Serial!Next, Serial!Resolve
<1>9. CASE NoEffect
  BY <1>9 DEF NoEffect, Serial!vars
<1> QED BY <1>1, <1>4, <1>5, <1>6, <1>7, <1>8, <1>9, CommitEffect

\* Nothing else changes what is committed.
LEMMA OthersCommitNothing ==
  ASSUME [Next]_vars, \A s \in Sessions : ~Commit(s)
  PROVE  UNCHANGED <<balance, transfer>>
<1>1. ASSUME NEW s \in Sessions, Arrives(s)
      PROVE  UNCHANGED <<balance, transfer>>
  BY <1>1 DEF Arrives, Moves, Transfers, Completes, Refunds, Starts, committed, redis
<1>2. ASSUME NEW s \in Sessions, NEW x, Becomes(s, x)
      PROVE  UNCHANGED <<balance, transfer>>
  BY <1>2 DEF Becomes, committed, redis
<1>3. ASSUME NEW s \in Sessions, Runs(s)
      PROVE  UNCHANGED <<balance, transfer>>
  <2>1. ~Commit(s)
    OBVIOUS
  <2>2. CASE Begin(s)
    BY <2>2, <1>2 DEF Begin
  <2>3. CASE Write(s)
    BY <2>3, <1>2 DEF Write
  <2>4. CASE WriteConflict(s) \/ FindsAborted(s)
    BY <2>4, <1>2 DEF WriteConflict, FindsAborted, Retry
  <2>5. CASE Skip(s) \/ Refuse(s)
    BY <2>5, <1>2 DEF Skip, Refuse
  <2>6. CASE SetCachedBalance(s)
    BY <2>6 DEF SetCachedBalance, Sets, committed
  <2> QED BY <1>3, <2>1, <2>2, <2>3, <2>4, <2>5, <2>6 DEF Runs
<1>4. ASSUME NEW s \in Sessions, ServerAborts(s)
      PROVE  UNCHANGED <<balance, transfer>>
  BY <1>4 DEF ServerAborts, committed, redis
<1>5. ASSUME NEW r \in Readers, NEW w \in CachedWallets, Reads(r, w)
      PROVE  UNCHANGED <<balance, transfer>>
  BY <1>5 DEF Reads, Finds, Hits, GetMisses, Fills, committed, redis
<1>6. ASSUME NEW w \in CachedWallets, Expires(w)
      PROVE  UNCHANGED <<balance, transfer>>
  BY <1>6 DEF Expires, committed, redis
<1>7. CASE UNCHANGED vars
  BY <1>7 DEF vars, committed, redis
<1> QED BY <1>1, <1>3, <1>4, <1>5, <1>6, <1>7 DEF Next

\* MongoSessions implements Bank.
THEOREM SessionsAreSerial == Spec => CommitsAreSerial
<1>1. Init => Serial!Init
  BY DEF Init, Serial!Init
<1>2. Isolated /\ [Next]_vars => [Serial!Next]_(Serial!vars)
  <2>1. SUFFICES ASSUME Isolated, [Next]_vars
                 PROVE  [Serial!Next]_(Serial!vars)
    OBVIOUS
  <2>2. CASE \E s \in Sessions : Commit(s)
    BY <2>1, <2>2, CommitIsSerial
  <2>3. CASE \A s \in Sessions : ~Commit(s)
    <3>1. UNCHANGED <<balance, transfer>>
      BY <2>1, <2>3, OthersCommitNothing
    <3> QED BY <3>1 DEF Serial!vars
  <2> QED BY <2>2, <2>3
<1> QED BY <1>1, <1>2, TransactionsIsolated, PTL DEF Spec, CommitsAreSerial, Serial!Spec

-----------------------------------------------------------------------------
(* Nobody stands in another's way in a circle.                              *)

\* A session that runs its statements and has made the first of them.
LEMMA HolderIsBusy ==
  ASSUME Isolated, NEW s \in Sessions, Wrote(s) # {}, Running(s), NEW j, j = tx[s].job
  PROVE  /\ j \in Job /\ JobFits(j, transfer)
         /\ \/ /\ j.op = "transfer"
               /\ Wrote(s) = {j.wallet} /\ Needs(s) = {j.transfer, j.key} \ {NoKey}
            \/ /\ j.op = "complete"
               /\ Wrote(s) = {j.message} /\ Needs(s) = {j.transfer}
            \/ /\ j.op = "complete"
               /\ Wrote(s) = {j.message, j.transfer} /\ Needs(s) = {j.wallet}
            \/ /\ j.op = "refund"
               /\ Wrote(s) = {j.transfer} /\ Needs(s) = {j.wallet}
<1>1. /\ tx[s].stage = "run" /\ Alive(tx[s])
  BY WroteIsHeld DEF Running
<1>2. /\ tx[s] \in Transaction /\ IsolatedTx(tx[s], balance, transfer, inbox)
      /\ j \in Job /\ JobFits(j, transfer) /\ j.op \in AnyOp
  BY <1>1, SessionFacts
<1>3. PICK n : n = tx[s].step
  OBVIOUS
<1>4. n \in Nat /\ n < Len(Statements(j))
  BY <1>1, <1>2, <1>3 DEF Transaction, IsolatedTx, Progress
<1>5. Wrote(s) = TakenUpTo(j, n)
  BY <1>1, <1>3, WroteIsHeld DEF Held
<1>6. n # 0
  BY <1>5, TakenStep
<1>7. Needs(s) = Takes(j, Statements(j)[n + 1])
  BY <1>3 DEF Needs, Statement
<1>8. \A d : d # j.transfer \/ j.op # "transfer" => Takes(j, d) = {d}
  BY DEF Takes
<1>9. /\ j.op \notin {"deposit", "withdraw"}
      /\ j.op \in {"transfer", "refund"} => n = 1
      /\ j.op = "complete" => n \in {1, 2}
  <2>1. /\ j.op \in {"deposit", "withdraw"} => Len(Statements(j)) = 1
        /\ j.op \in {"transfer", "refund"} => Len(Statements(j)) = 2
        /\ j.op = "complete" => Len(Statements(j)) = 3
    BY <1>2, StatementCount
  <2>2. \A k \in Nat \ {0} : \A l :
          /\ l = 1 => ~(k < l)
          /\ l = 2 /\ k < l => k = 1
          /\ l = 3 /\ k < l => k \in {1, 2}
    OBVIOUS
  <2>3. n \in Nat \ {0}
    BY <1>4, <1>6
  <2> QED BY <1>4, <2>1, <2>2, <2>3
<1>10. CASE j.op = "transfer"
  <2>1. n = 1
    BY <1>9, <1>10
  <2>2. Statements(j)[n + 1] = j.transfer
    BY <1>2, <1>10, <2>1, StatementsOf
  <2>3. j.transfer \in TransferIds
    BY <1>2, <1>10 DEF JobFits
  <2> QED BY <1>2, <1>5, <1>7, <1>10, <2>1, <2>2, <2>3, TransferTakes, TakenOf
<1>11. CASE j.op = "complete"
  <2>1. n = 1 \/ n = 2
    BY <1>9, <1>11
  <2>2. Statements(j)[2] = j.transfer /\ Statements(j)[3] = j.wallet
    BY <1>2, <1>11, StatementsOf
  <2> QED BY <1>2, <1>5, <1>7, <1>8, <1>11, <2>1, <2>2, TakenOf
<1>12. CASE j.op = "refund"
  <2>1. n = 1
    BY <1>9, <1>12
  <2>2. Statements(j)[2] = j.wallet
    BY <1>2, <1>12, StatementsOf
  <2> QED BY <1>2, <1>5, <1>7, <1>8, <1>12, <2>1, <2>2, TakenOf
<1> QED BY <1>2, <1>9, <1>10, <1>11, <1>12 DEF AnyOp

\* Of the sessions that hold documents one needs nothing that another holds: one
\* that has its last statement behind it; else a transfer, whose document is new
\* and whose key only finished ones hold; else a consumer or sweep that needs its
\* wallet, as then nobody holds a wallet; else all are consumers that hold messages.
LEMMA IsolatedNoStandoff ==
  ASSUME Isolated
  PROVE  NoStandoff
<1> DEFINE holders == {s \in Sessions : Wrote(s) # {}}
           Free(s) == \A o \in holders \ {s} : Needs(s) \cap Wrote(o) = {}
<1> SUFFICES ASSUME holders # {}
             PROVE  \E s \in holders : Free(s)
  BY DEF NoStandoff
<1>1. CASE \E s \in holders : ~Running(s)
  BY <1>1 DEF Needs
<1>2. CASE \A s \in holders : Running(s)
  <2>1. \A s \in holders : tx[s].job \in Job /\ JobFits(tx[s].job, transfer) /\ tx[s].job.wallet \in Wallets
    BY <1>2, HolderIsBusy, JobFields
  <2>2. ASSUME NEW s \in holders, tx[s].job.op = "transfer"
        PROVE  Free(s)
    <3>1. PICK j : j = tx[s].job
      OBVIOUS
    <3>2. Needs(s) = {j.transfer, j.key} \ {NoKey} /\ j.key \in Keys \cup {NoKey}
      BY <1>2, <2>1, <2>2, <3>1, HolderIsBusy, JobFields
    <3>3. j.transfer \in TransferIds /\ transfer[j.transfer] = None
      <4>1. Creates(tx[s])
        BY <1>2, <2>2 DEF Creates, Running
      <4>2. transfer[j.transfer] = None
        BY <3>1, <4>1 DEF Isolated, AllIsolated, Fresh
      <4> QED BY <2>1, <2>2, <3>1, <4>2 DEF JobFits
    <3>4. Needs(s) \subseteq {j.transfer} \cup Keys
      BY <3>2
    <3>5. ASSUME NEW o \in holders \ {s}
          PROVE  Needs(s) \cap Wrote(o) = {}
      <4>1. PICK i : i = tx[o].job
        OBVIOUS
      <4>2. JobFits(i, transfer) /\ i.wallet \in Wallets
        BY <2>1, <4>1
      <4>3. \/ Wrote(o) = {i.wallet}
            \/ i.op = "complete" /\ Wrote(o) \subseteq {i.message, i.transfer}
            \/ i.op = "refund" /\ Wrote(o) = {i.transfer}
        BY <1>2, <4>1, HolderIsBusy
      <4>4. i.op \in {"complete", "refund"} => i.transfer \in TransferIds /\ i.transfer # j.transfer
        BY <3>3, <4>2 DEF JobFits
      <4>5. i.op = "complete" => i.message \in Messages
        BY <4>2 DEF JobFits
      <4> QED BY <3>3, <3>4, <4>2, <4>3, <4>4, <4>5, DocumentsAssumption
    <3> QED BY <3>5
  <2>3. CASE \E s \in holders : tx[s].job.op = "transfer"
    BY <2>2, <2>3
  <2>4. ASSUME \A s \in holders : tx[s].job.op # "transfer",
               NEW s \in holders, Needs(s) = {tx[s].job.wallet}
        PROVE  Free(s)
    <3>1. ASSUME NEW o \in holders
          PROVE  tx[s].job.wallet \notin Wrote(o)
      <4>1. PICK i : i = tx[o].job
        OBVIOUS
      <4>2. /\ JobFits(i, transfer) /\ i.op \in {"complete", "refund"}
            /\ i.op = "complete" => Wrote(o) \subseteq {i.message, i.transfer}
            /\ i.op = "refund" => Wrote(o) = {i.transfer}
        BY <1>2, <2>4, <4>1, HolderIsBusy
      <4>3. i.transfer \in TransferIds /\ (i.op = "complete" => i.message \in Messages)
        BY <4>2 DEF JobFits
      <4> QED BY <2>1, <4>2, <4>3, DocumentsAssumption
    <3> QED BY <2>4, <3>1
  <2>5. ASSUME \A s \in holders : tx[s].job.op = "complete" /\ Wrote(s) = {tx[s].job.message}
                                    /\ Needs(s) = {tx[s].job.transfer},
               NEW s \in holders
        PROVE  Free(s)
    <3>1. \A o \in holders : tx[o].job.message \in Messages /\ tx[o].job.transfer \in TransferIds
      BY <2>1, <2>5 DEF JobFits
    <3> QED BY <2>5, <3>1, DocumentsAssumption
  <2>6. \A s \in holders :
          \/ tx[s].job.op = "transfer"
          \/ Needs(s) = {tx[s].job.wallet}
          \/ tx[s].job.op = "complete" /\ Wrote(s) = {tx[s].job.message}
               /\ Needs(s) = {tx[s].job.transfer}
    BY <1>2, HolderIsBusy
  <2> HIDE DEF holders, Free
  <2> QED BY <2>3, <2>4, <2>5, <2>6
<1> QED BY <1>1, <1>2

\* Whatever is in progress, one of those that hold documents can go on.
THEOREM NobodyStandsOff == Spec => []NoStandoff
<1> QED BY IsolatedNoStandoff, TransactionsIsolated, PTL

-----------------------------------------------------------------------------
(* The cache.                                                               *)

\* The balances that the commits under way will give wallet w.
Arriving(txs, w) ==
  {After(txs[s].job, txs[s].snap.balance[w]) :
     s \in {o \in Sessions : txs[o].stage \in {"set", "commit"} /\ w \in Held(txs[o])}}

\* While nothing was aborted by the server: a transaction that is about to SET
\* holds its wallet, and Redis and the GETs under way know real balances.
RealCache(txs, c, b, ws, l) ==
  /\ \A s \in Sessions :
       /\ ~txs[s].dead
       /\ txs[s].stage = "set" =>
            txs[s].job.wallet \in Held(txs[s]) /\ txs[s].job.op # "refund"
  /\ \A w \in CachedWallets :
       b[w] \in ws[w] /\ c[w] \in ws[w] \cup {Miss} \cup Arriving(txs, w)
  /\ \A r \in Readers : l[r] # None => l[r].balance \in ws[l[r].wallet]

\* Transaction x holds wallet w, has nothing more to write, and makes a SET.
Gives(x, w) ==
  x.stage \in {"set", "commit"} /\ x.job.op # "refund" /\ w \in Held(x)

\* And an entry that is a transaction's SET is the wallet's balance, or what the
\* transaction that holds the wallet gives it; once that one's SET is answered
\* it can only be the latter.
LatestCache(txs, c, b, f) ==
  /\ f \subseteq CachedWallets
  /\ \A s \in Sessions, w \in f :
       txs[s].stage = "commit" /\ Gives(txs[s], w)
         => c[w] = After(txs[s].job, txs[s].snap.balance[w])
  /\ \A w \in f :
       \/ c[w] = b[w]
       \/ \E s \in Sessions :
            Gives(txs[s], w) /\ c[w] = After(txs[s].job, txs[s].snap.balance[w])

CacheKept ==
  /\ faults \in Nat
  /\ faults = 0 =>
       RealCache(tx, cache, balance, was, lookup) /\ LatestCache(tx, cache, balance, owned)

\* A session goes on, and the commits under way are as they were.
LEMMA GoesOnReal ==
  ASSUME NEW txs \in [Sessions -> Transaction], NEW s \in Sessions, NEW x \in Transaction,
         NEW c, NEW b, NEW ws, NEW l, RealCache(txs, c, b, ws, l),
         ~x.dead, x.stage = "set" => x.job.wallet \in Held(x) /\ x.job.op # "refund",
         txs[s].stage \in {"set", "commit"} =>
           /\ x.stage \in {"set", "commit"} /\ x.job = txs[s].job /\ x.snap = txs[s].snap
           /\ Held(x) = Held(txs[s])
  PROVE  RealCache([txs EXCEPT ![s] = x], c, b, ws, l)
<1> DEFINE new == [txs EXCEPT ![s] = x]
<1>1. new[s] = x /\ \A o \in Sessions \ {s} : new[o] = txs[o]
  OBVIOUS
<1> HIDE DEF new
<1>2. \A w : Arriving(txs, w) \subseteq Arriving(new, w)
  <2>1. SUFFICES ASSUME NEW w, NEW o \in Sessions, txs[o].stage \in {"set", "commit"},
                        w \in Held(txs[o])
                 PROVE  After(txs[o].job, txs[o].snap.balance[w]) \in Arriving(new, w)
    BY DEF Arriving
  <2>2. /\ new[o].stage \in {"set", "commit"} /\ new[o].job = txs[o].job
        /\ new[o].snap = txs[o].snap /\ Held(new[o]) = Held(txs[o])
    <3>1. CASE o = s
      BY <1>1, <2>1, <3>1
    <3>2. CASE o # s
      <4>1. new[o] = txs[o]
        BY <1>1, <3>2
      <4> QED BY <2>1, <4>1
    <3> QED BY <3>1, <3>2
  <2> QED BY <2>1, <2>2 DEF Arriving
<1>3. \A o \in Sessions :
        /\ ~new[o].dead
        /\ new[o].stage = "set" =>
             new[o].job.wallet \in Held(new[o]) /\ new[o].job.op # "refund"
  BY <1>1 DEF RealCache
<1>4. RealCache(new, c, b, ws, l)
  BY <1>2, <1>3 DEF RealCache
<1> QED BY <1>4 DEF new

\* A session that is not giving a wallet its balance goes on, and does not
\* come to give one without a SET.
LEMMA GoesOnLatest ==
  ASSUME NEW txs \in [Sessions -> Transaction], NEW s \in Sessions, NEW x \in Transaction,
         NEW c, NEW b, NEW f, LatestCache(txs, c, b, f),
         txs[s].stage \notin {"set", "commit"},
         \A w \in CachedWallets : x.stage = "commit" => ~Gives(x, w)
  PROVE  LatestCache([txs EXCEPT ![s] = x], c, b, f)
<1> DEFINE new == [txs EXCEPT ![s] = x]
<1>1. new[s] = x /\ \A o \in Sessions \ {s} : new[o] = txs[o]
  OBVIOUS
<1> HIDE DEF new
<1>2. ASSUME NEW o \in Sessions, NEW w \in f, new[o].stage = "commit", Gives(new[o], w)
      PROVE  c[w] = After(new[o].job, new[o].snap.balance[w])
  <2>1. w \in CachedWallets
    BY DEF LatestCache
  <2>2. o # s
    BY <1>1, <1>2, <2>1
  <2>3. new[o] = txs[o]
    BY <1>1, <2>2
  <2> QED BY <1>2, <2>3 DEF LatestCache
<1>3. ASSUME NEW w \in f, c[w] # b[w]
      PROVE  \E o \in Sessions :
               Gives(new[o], w) /\ c[w] = After(new[o].job, new[o].snap.balance[w])
  <2>1. PICK o \in Sessions :
          Gives(txs[o], w) /\ c[w] = After(txs[o].job, txs[o].snap.balance[w])
    BY <1>3 DEF LatestCache
  <2>2. o # s
    BY <2>1 DEF Gives
  <2>3. new[o] = txs[o]
    BY <1>1, <2>2
  <2> QED BY <2>1, <2>3
<1>4. LatestCache(new, c, b, f)
  BY <1>2, <1>3 DEF LatestCache
<1> QED BY <1>4 DEF new

\* The same, as a step.
LEMMA GoesOnKept ==
  ASSUME Isolated, CacheKept, NEW s \in Sessions, NEW x \in Transaction,
         tx' = [tx EXCEPT ![s] = x],
         UNCHANGED <<balance, was, cache, owned, lookup, faults>>,
         tx[s].stage \notin {"set", "commit"},
         ~x.dead, x.stage = "set" => x.job.wallet \in Held(x) /\ x.job.op # "refund",
         \A w \in CachedWallets : x.stage = "commit" => ~Gives(x, w)
  PROVE  CacheKept'
<1>1. ASSUME faults = 0
      PROVE  /\ RealCache([tx EXCEPT ![s] = x], cache, balance, was, lookup)
             /\ LatestCache([tx EXCEPT ![s] = x], cache, balance, owned)
  <2>1. /\ RealCache(tx, cache, balance, was, lookup) /\ LatestCache(tx, cache, balance, owned)
        /\ tx \in [Sessions -> Transaction]
    BY <1>1 DEF CacheKept, Isolated, Typed
  <2> QED BY <2>1, GoesOnReal, GoesOnLatest
<1> QED BY <1>1 DEF CacheKept

\* The jobs that are to SET have written their wallet by then.
LEMMA AllTaken ==
  ASSUME NEW j \in Job, NEW docs, JobFits(j, docs)
  PROVE  j.wallet \in TakenUpTo(j, Len(Statements(j)))
<1>1. j.op \in AnyOp
  BY JobFields
<1>2. j.op \in {"deposit", "withdraw"} => TakenUpTo(j, Len(Statements(j))) = {j.wallet}
  BY <1>1, TakenOf, StatementCount
<1>3. j.op = "transfer" => j.wallet \in TakenUpTo(j, Len(Statements(j)))
  BY <1>1, TakenOf, StatementCount, TransferTakes DEF JobFits
<1>4. j.op = "complete" => j.wallet \in TakenUpTo(j, Len(Statements(j)))
  BY <1>1, TakenOf, StatementCount
<1>5. j.op = "refund" => j.wallet \in TakenUpTo(j, Len(Statements(j)))
  BY <1>1, TakenOf, StatementCount
<1> QED BY <1>1, <1>2, <1>3, <1>4, <1>5 DEF AnyOp

\* A transaction takes no wallet but the one whose balance it changes.
LEMMA OneWallet ==
  ASSUME Isolated, NEW s \in Sessions, NEW w \in Wallets, w \in Held(tx[s])
  PROVE  w = tx[s].job.wallet
<1>1. PICK y : y = tx[s]
  OBVIOUS
<1>2. PICK j : j = y.job
  OBVIOUS
<1>3. /\ y \in Transaction /\ IsolatedTx(y, balance, transfer, inbox)
      /\ Alive(y) /\ w \in TakenUpTo(j, y.step)
  BY <1>1, <1>2, SessionFacts DEF Held
<1>4. y.stage \in {"run", "set", "commit"} /\ y.step \in Nat
  BY <1>3 DEF Alive, Transaction
<1>5. JobFits(j, transfer) /\ j \in Job /\ j.op \in AnyOp
  BY <1>1, <1>2, <1>4, SessionFacts
<1>6. y.step <= Len(Statements(j))
  BY <1>2, <1>3, <1>4, <1>5, StatementCount DEF IsolatedTx, Progress
<1>7. PICK i \in 1 .. y.step : w \in Takes(j, Statements(j)[i])
  BY <1>3 DEF TakenUpTo
<1>8. j.key \in Keys \cup {NoKey} /\ w # j.key
  BY <1>5, JobFields, DocumentsAssumption
<1>9. w = Statements(j)[i]
  BY <1>7, <1>8 DEF Takes
<1>10. Len(Statements(j)) \in 1 .. 3 /\ i \in 1 .. Len(Statements(j))
  BY <1>4, <1>5, <1>6, StatementCount
<1>11. Statements(j)[i] \in {j.wallet, j.transfer, j.message}
  BY <1>5, <1>10, StatementsOf DEF AnyOp
<1>12. j.op \in {"deposit", "withdraw"} => Statements(j)[i] = j.wallet
  BY <1>5, <1>10, StatementsOf, StatementCount
<1>13. j.op \notin {"deposit", "withdraw"} => w # j.transfer
  BY <1>5, DocumentsAssumption DEF JobFits, AnyOp
<1>14. j.op \notin {"deposit", "withdraw"} =>
         \/ Statements(j)[i] \in {j.wallet, j.transfer}
         \/ j.op = "complete" /\ j.message \in Messages
  BY <1>5, <1>10, StatementsOf, StatementCount DEF JobFits, AnyOp
<1>15. j.message \in Messages => w # j.message
  BY DocumentsAssumption
<1> QED BY <1>1, <1>2, <1>9, <1>11, <1>12, <1>13, <1>14, <1>15

LEMMA WriteKept ==
  ASSUME Isolated, CacheKept, NEW s \in Sessions, Write(s)
  PROVE  CacheKept'
<1> DEFINE y == tx[s]
           st == NextStage(tx[s].job, tx[s].step + 1)
<1>1. PICK x : x = [tx[s] EXCEPT !.step = @ + 1, !.stage = NextStage(tx[s].job, tx[s].step + 1)]
  OBVIOUS
<1>2. tx' = [tx EXCEPT ![s] = x] /\ UNCHANGED <<balance, was, cache, owned, lookup, faults>>
  BY <1>1 DEF Write, Becomes, committed, redis
<1>3. /\ y \in Transaction /\ y.stage = "run" /\ ~y.dead
      /\ y.step \in Nat /\ y.step < Len(Statements(y.job))
      /\ JobFits(y.job, transfer) /\ y.job \in Job /\ Len(Statements(y.job)) \in 1 .. 3
  <2>1. y \in Transaction /\ y.stage = "run" /\ ~y.dead
    BY SessionFacts DEF Write, Running, Open
  <2>2. y.step \in Nat
    BY <2>1 DEF Transaction
  <2>3. IsolatedTx(y, balance, transfer, inbox)
    BY SessionFacts
  <2> HIDE DEF y
  <2>4. y.step < Len(Statements(y.job))
    BY <2>1, <2>3 DEF IsolatedTx, Progress
  <2> QED BY <2>1, <2>2, <2>4, SessionFacts DEF y
<1>4. /\ st \in {"run", "set", "commit"}
      /\ st = "set" => y.step + 1 = Len(Statements(y.job)) /\ y.job.op # "refund"
      /\ st = "commit" => y.job.op = "refund"
  BY <1>3 DEF NextStage
<1>5. x = [y EXCEPT !.step = y.step + 1, !.stage = st]
  BY <1>1
<1> HIDE DEF y, st
<1>6. /\ x \in Transaction /\ x.stage = st /\ x.job = y.job /\ x.step = y.step + 1 /\ ~x.dead
  <2>1. y \in Transaction /\ y.dead = FALSE /\ y.step + 1 \in Nat
    BY <1>3 DEF Transaction
  <2>2. x \in Transaction
    BY <1>4, <1>5, <2>1 DEF Transaction
  <2> QED BY <1>5, <2>1, <2>2 DEF Transaction
<1>7. x.stage = "set" => x.job.wallet \in Held(x) /\ x.job.op # "refund"
  BY <1>3, <1>4, <1>6, AllTaken DEF Held, Alive
<1>8. tx[s].stage \notin {"set", "commit"}
  BY <1>3 DEF y
<1>9. \A w \in CachedWallets : x.stage = "commit" => ~Gives(x, w)
  BY <1>4, <1>6 DEF Gives
<1> QED BY <1>2, <1>6, <1>7, <1>8, <1>9, GoesOnKept

\* The SET puts the balance that the transaction is about to commit.
LEMMA SetKept ==
  ASSUME Isolated, CacheKept, NEW s \in Sessions, SetCachedBalance(s)
  PROVE  CacheKept'
<1> DEFINE y == tx[s]
           W == y.job.wallet
<1>1. PICK x : x = tx'[s]
  OBVIOUS
<1>2. /\ y.stage = "set" /\ Remember(W, After(y.job, y.snap.balance[W]))
      /\ owned' = owned \cup ({W} \cap CachedWallets)
      /\ UNCHANGED <<balance, was, lookup, faults>>
  BY DEF SetCachedBalance, Sets, committed
<1>3. SUFFICES ASSUME faults = 0
               PROVE  /\ RealCache(tx', cache', balance, was, lookup)
                      /\ LatestCache(tx', cache', balance, owned')
  BY <1>2 DEF CacheKept
<1>4. y \in Transaction /\ tx \in [Sessions -> Transaction]
  BY SessionFacts DEF Isolated, Typed
<1>5. RealCache(tx, cache, balance, was, lookup) /\ LatestCache(tx, cache, balance, owned)
  BY <1>3 DEF CacheKept
<1>6. ~y.dead /\ W \in Held(y)
  BY <1>2, <1>5 DEF RealCache
<1>7. tx' = [tx EXCEPT ![s] = x] /\ (x = y \/ x = [y EXCEPT !.stage = "commit"])
  <2>1. \/ tx' = [tx EXCEPT ![s] = [tx[s] EXCEPT !.stage = "commit"]]
        \/ tx' = tx
    BY DEF SetCachedBalance
  <2> QED BY <1>1, <1>4, <2>1
<1> HIDE DEF y
<1>8. /\ x \in Transaction /\ x.stage \in {"set", "commit"} /\ x.job = y.job /\ x.snap = y.snap
      /\ x.step = y.step /\ ~x.dead
  BY <1>2, <1>4, <1>6, <1>7 DEF Transaction
<1>9. Held(x) = Held(y)
  BY <1>2, <1>6, <1>8 DEF Held, Alive
<1>10. RealCache(tx', cache, balance, was, lookup)
  <2>1. RealCache([tx EXCEPT ![s] = x], cache, balance, was, lookup)
    <3>1. x.stage = "set" => x.job.wallet \in Held(x) /\ x.job.op # "refund"
      BY <1>2, <1>5, <1>6, <1>8, <1>9 DEF RealCache, y
    <3>2. /\ x.stage \in {"set", "commit"} /\ x.job = tx[s].job /\ x.snap = tx[s].snap
          /\ Held(x) = Held(tx[s])
      BY <1>8, <1>9 DEF y
    <3> QED BY <1>4, <1>5, <1>8, <3>1, <3>2, GoesOnReal
  <2> QED BY <1>7, <2>1
<1>11. tx'[s] = x /\ \A o \in Sessions \ {s} : tx'[o] = tx[o]
  BY <1>4, <1>7
<1>12. After(x.job, x.snap.balance[W]) \in Arriving(tx', W)
  BY <1>6, <1>8, <1>9, <1>11 DEF Arriving
<1>13. \A w \in CachedWallets :
         cache'[w] = IF w = W THEN After(x.job, x.snap.balance[W]) ELSE cache[w]
  BY <1>2, <1>8 DEF Remember
<1>14. \A w \in CachedWallets : cache'[w] \in was[w] \cup {Miss} \cup Arriving(tx', w)
  <2>1. SUFFICES ASSUME NEW w \in CachedWallets
                 PROVE  cache'[w] \in was[w] \cup {Miss} \cup Arriving(tx', w)
    OBVIOUS
  <2>2. CASE w = W
    BY <1>12, <1>13, <2>2
  <2>3. CASE w # W
    <3>1. cache'[w] = cache[w]
      BY <1>13, <2>3
    <3> QED BY <1>10, <3>1 DEF RealCache
  <2> QED BY <2>2, <2>3
<1>15. RealCache(tx', cache', balance, was, lookup)
  BY <1>10, <1>14 DEF RealCache
<1>16. owned \subseteq CachedWallets /\ owned' \subseteq CachedWallets
  BY <1>2, <1>5 DEF LatestCache
<1>17. y.job.op # "refund"
  BY <1>2, <1>5 DEF RealCache, y
<1>18. ASSUME NEW o \in Sessions, NEW w \in owned',
              tx'[o].stage = "commit", Gives(tx'[o], w)
       PROVE  cache'[w] = After(tx'[o].job, tx'[o].snap.balance[w])
  <2>1. CASE o = s
    <3>1. Gives(x, w)
      BY <1>11, <1>18, <2>1
    <3>2. w = W
      <4>1. w \in Wallets /\ w \in Held(tx[s])
        BY <1>9, <1>16, <3>1, SessionsAssumption DEF Gives, y
      <4> QED BY <4>1, OneWallet DEF y
    <3> QED BY <1>11, <1>13, <1>16, <2>1, <3>2
  <2>2. CASE o # s
    <3>1. tx'[o] = tx[o]
      BY <1>11, <2>2
    <3>2. w \in Held(tx[o])
      BY <1>18, <3>1 DEF Gives
    <3>3. w # W
      BY <1>6, <2>2, <3>2 DEF Isolated, AllIsolated, HoldsAlone, y
    <3>4. w \in owned /\ cache'[w] = cache[w]
      BY <1>2, <1>13, <1>16, <3>3
    <3> QED BY <1>5, <1>18, <3>1, <3>4 DEF LatestCache
  <2> QED BY <2>1, <2>2
<1>19. ASSUME NEW w \in owned', cache'[w] # balance[w]
       PROVE  \E o \in Sessions :
                Gives(tx'[o], w) /\ cache'[w] = After(tx'[o].job, tx'[o].snap.balance[w])
  <2>1. CASE w = W
    <3>1. Gives(x, w)
      BY <1>6, <1>8, <1>9, <1>17, <2>1 DEF Gives
    <3> QED BY <1>11, <1>13, <1>16, <2>1, <3>1
  <2>2. CASE w # W
    <3>1. w \in owned /\ cache'[w] = cache[w]
      BY <1>2, <1>13, <1>16, <2>2
    <3>2. PICK o \in Sessions :
            Gives(tx[o], w) /\ cache[w] = After(tx[o].job, tx[o].snap.balance[w])
      BY <1>5, <1>19, <3>1 DEF LatestCache
    <3>3. CASE o = s
      <4>1. Gives(x, w) /\ cache[w] = After(x.job, x.snap.balance[w])
        BY <1>8, <1>9, <3>2, <3>3 DEF Gives, y
      <4> QED BY <1>11, <3>1, <4>1
    <3>4. CASE o # s
      <4>1. tx'[o] = tx[o]
        BY <1>11, <3>4
      <4> QED BY <3>1, <3>2, <4>1
    <3> QED BY <3>3, <3>4
  <2> QED BY <2>1, <2>2
<1>20. LatestCache(tx', cache', balance, owned')
  BY <1>16, <1>18, <1>19 DEF LatestCache
<1> QED BY <1>15, <1>20

\* What a commit was about to give a wallet becomes one it had.
LEMMA CommitKept ==
  ASSUME Isolated, CacheKept, NEW s \in Sessions, Commit(s)
  PROVE  CacheKept'
<1>1. SUFFICES ASSUME faults = 0
               PROVE  /\ RealCache(tx', cache, balance', was', lookup)
                      /\ LatestCache(tx', cache, balance', owned')
  BY DEF Commit, CacheKept
<1>2. RealCache(tx, cache, balance, was, lookup) /\ LatestCache(tx, cache, balance, owned)
  BY <1>1 DEF CacheKept
<1>3. \A w \in CachedWallets :
        /\ w \in Wallets
        /\ was'[w] = was[w] \cup {balance'[w]}
        /\ w \in Held(tx[s]) => balance'[w] = After(tx[s].job, tx[s].snap.balance[w])
        /\ w \notin Held(tx[s]) => balance'[w] = balance[w]
  <2>1. CachedWallets \subseteq Wallets
    BY SessionsAssumption
  <2>2. was' = [w \in CachedWallets |-> was[w] \cup {balance'[w]}]
    BY DEF Commit
  <2>3. \A w \in Wallets :
          balance'[w] = IF w \in Held(tx[s]) THEN After(tx[s].job, tx[s].snap.balance[w])
                                             ELSE balance[w]
    BY WroteIsHeld DEF Commit
  <2> QED BY <2>1, <2>2, <2>3
<1>4. tx'[s] = IdleTx
  BY DEF Commit
<1>5. ASSUME NEW o \in Sessions, o # s
      PROVE  /\ tx'[o].stage = tx[o].stage /\ tx'[o].job = tx[o].job
             /\ tx'[o].snap = tx[o].snap /\ tx'[o].dead = tx[o].dead
             /\ Held(tx'[o]) = Held(tx[o])
  <2>1. tx'[o] = tx[o] \/ tx'[o] = [tx[o] EXCEPT !.missed = @ \cup Wrote(s)]
    BY <1>5 DEF Commit
  <2>2. PICK y : y = tx[o] /\ y \in Transaction
    BY SessionFacts
  <2>3. PICK z : z = tx'[o]
    OBVIOUS
  <2>4. PICK W : W = Wrote(s)
    OBVIOUS
  <2>5. z = y \/ z = [y EXCEPT !.missed = @ \cup W]
    BY <2>1, <2>2, <2>3, <2>4
  <2>6. /\ z.stage = y.stage /\ z.job = y.job /\ z.snap = y.snap /\ z.dead = y.dead
        /\ z.step = y.step
    BY <2>2, <2>5 DEF Transaction
  <2>7. Held(z) = Held(y)
    BY <2>6 DEF Held, Alive
  <2> QED BY <2>2, <2>3, <2>6, <2>7
<1>6. \A o \in Sessions :
        ~tx'[o].dead /\ (tx'[o].stage = "set" =>
                              tx'[o].job.wallet \in Held(tx'[o]) /\ tx'[o].job.op # "refund")
  <2>1. SUFFICES ASSUME NEW o \in Sessions
                 PROVE  ~tx'[o].dead
                        /\ (tx'[o].stage = "set" =>
                              tx'[o].job.wallet \in Held(tx'[o]) /\ tx'[o].job.op # "refund")
    OBVIOUS
  <2>2. CASE o = s
    BY <1>4, <2>2 DEF IdleTx
  <2>3. CASE o # s
    BY <1>2, <1>5, <2>3 DEF RealCache
  <2> QED BY <2>2, <2>3
<1>7. \A w \in CachedWallets : Arriving(tx, w) \subseteq {balance'[w]} \cup Arriving(tx', w)
  <2>1. SUFFICES ASSUME NEW w \in CachedWallets, NEW o \in Sessions,
                        tx[o].stage \in {"set", "commit"}, w \in Held(tx[o])
                 PROVE  After(tx[o].job, tx[o].snap.balance[w])
                          \in {balance'[w]} \cup Arriving(tx', w)
    BY DEF Arriving
  <2>2. CASE o = s
    BY <1>3, <2>1, <2>2
  <2>3. CASE o # s
    BY <1>5, <2>1, <2>3 DEF Arriving
  <2> QED BY <2>2, <2>3
<1>8. \A w \in CachedWallets :
        balance'[w] \in was'[w] /\ cache[w] \in was'[w] \cup {Miss} \cup Arriving(tx', w)
  BY <1>2, <1>3, <1>7 DEF RealCache
<1>9. \A r \in Readers : lookup[r] # None => lookup[r].balance \in was'[lookup[r].wallet]
  <2>1. \A r \in Readers : lookup[r] # None => lookup[r].wallet \in CachedWallets
    BY DEF Isolated, Typed, Found
  <2> QED BY <1>2, <1>3, <2>1 DEF RealCache
<1>10. RealCache(tx', cache, balance', was', lookup)
  BY <1>6, <1>8, <1>9 DEF RealCache
<1>11. /\ owned' \subseteq owned /\ owned \subseteq CachedWallets /\ owned' \subseteq CachedWallets
       /\ \A w \in owned' : tx[s].job.op = "refund" => w \notin Held(tx[s])
  BY <1>2, WroteIsHeld DEF Commit, LatestCache
<1>12. ASSUME NEW o \in Sessions, NEW w \in owned', Gives(tx'[o], w)
       PROVE  o # s /\ Gives(tx[o], w)
              /\ After(tx'[o].job, tx'[o].snap.balance[w]) = After(tx[o].job, tx[o].snap.balance[w])
  <2>1. o # s
    BY <1>4, <1>12 DEF Gives, IdleTx
  <2> QED BY <1>5, <1>12, <2>1 DEF Gives
<1>13. ASSUME NEW o \in Sessions, NEW w \in owned', tx'[o].stage = "commit", Gives(tx'[o], w)
       PROVE  cache[w] = After(tx'[o].job, tx'[o].snap.balance[w])
  <2>1. o # s /\ Gives(tx[o], w) /\ tx[o].stage = "commit" /\ w \in owned
    BY <1>5, <1>11, <1>12, <1>13
  <2>2. cache[w] = After(tx[o].job, tx[o].snap.balance[w])
    BY <1>2, <2>1 DEF LatestCache
  <2> QED BY <1>12, <1>13, <2>2
<1>14. ASSUME NEW w \in owned', cache[w] # balance'[w]
       PROVE  \E o \in Sessions :
                Gives(tx'[o], w) /\ cache[w] = After(tx'[o].job, tx'[o].snap.balance[w])
  <2>1. w \in CachedWallets /\ w \in owned
    BY <1>11
  <2>2. w \notin Held(tx[s])
    <3>1. SUFFICES ASSUME w \in Held(tx[s])
                   PROVE  FALSE
      OBVIOUS
    <3>2. tx[s].stage = "commit" /\ Gives(tx[s], w)
      BY <1>11, <3>1 DEF Commit, Gives
    <3>3. cache[w] = After(tx[s].job, tx[s].snap.balance[w])
      BY <1>2, <2>1, <3>2 DEF LatestCache
    <3> QED BY <1>3, <1>14, <2>1, <3>1, <3>3
  <2>3. cache[w] # balance[w]
    BY <1>3, <1>14, <2>1, <2>2
  <2>4. PICK o \in Sessions :
          Gives(tx[o], w) /\ cache[w] = After(tx[o].job, tx[o].snap.balance[w])
    BY <1>2, <2>1, <2>3 DEF LatestCache
  <2>5. o # s
    BY <2>2, <2>4 DEF Gives
  <2>6. Gives(tx'[o], w) /\ cache[w] = After(tx'[o].job, tx'[o].snap.balance[w])
    BY <1>5, <2>4, <2>5 DEF Gives
  <2> QED BY <2>6
<1>15. LatestCache(tx', cache, balance', owned')
  BY <1>11, <1>13, <1>14 DEF LatestCache
<1> QED BY <1>10, <1>15

\* GETs put back what they have read, which the wallet had.
LEMMA ReadsKept ==
  ASSUME Isolated, CacheKept, NEW w \in CachedWallets,
         Expires(w) \/ \E r \in Readers : Reads(r, w)
  PROVE  CacheKept'
<1>1. UNCHANGED <<tx, balance, was, faults>>
  BY DEF Expires, Reads, Finds, Hits, GetMisses, Fills, committed, redis
<1>2. SUFFICES ASSUME faults = 0
               PROVE  /\ RealCache(tx, cache', balance, was, lookup')
                      /\ LatestCache(tx, cache', balance, owned')
  BY <1>1 DEF CacheKept
<1>3. RealCache(tx, cache, balance, was, lookup) /\ LatestCache(tx, cache, balance, owned)
  BY <1>2 DEF CacheKept
<1>4. /\ cache \in [CachedWallets -> Nat \cup {Miss}]
      /\ lookup \in [Readers -> Found \cup {None}]
  BY DEF Isolated, Typed
<1>5. ASSUME Expires(w)
      PROVE  RealCache(tx, cache', balance, was, lookup')
  <2>1. \A v \in CachedWallets : cache'[v] \in {cache[v], Miss}
    BY <1>4, <1>5 DEF Expires
  <2>2. lookup' = lookup
    BY <1>5 DEF Expires
  <2> QED BY <1>3, <2>1, <2>2 DEF RealCache
<1>6. ASSUME NEW r \in Readers, Finds(r, w)
      PROVE  RealCache(tx, cache', balance, was, lookup')
  <2>1. cache' = cache /\ lookup' = [lookup EXCEPT ![r] =
          [wallet |-> w, balance |-> balance[w], miss |-> FALSE]]
    BY <1>6 DEF Finds, redis
  <2>2. \A q \in Readers : lookup'[q] # None => lookup'[q].balance \in was[lookup'[q].wallet]
    <3>1. SUFFICES ASSUME NEW q \in Readers, lookup'[q] # None
                   PROVE  lookup'[q].balance \in was[lookup'[q].wallet]
      OBVIOUS
    <3>2. CASE q = r
      BY <1>3, <1>4, <2>1, <3>2 DEF RealCache
    <3>3. CASE q # r
      BY <1>3, <1>4, <2>1, <3>1, <3>3 DEF RealCache
    <3> QED BY <3>2, <3>3
  <2> QED BY <1>3, <2>1, <2>2 DEF RealCache
<1>7. ASSUME NEW r \in Readers, Hits(r, w)
      PROVE  RealCache(tx, cache', balance, was, lookup')
  BY <1>3, <1>4, <1>7 DEF Hits, redis, RealCache
<1>8. ASSUME NEW r \in Readers, GetMisses(r, w)
      PROVE  RealCache(tx, cache', balance, was, lookup')
  <2>1. lookup[r] \in Found /\ cache' = cache
        /\ lookup' = [lookup EXCEPT ![r] = [lookup[r] EXCEPT !.miss = TRUE]]
    BY <1>4, <1>8 DEF GetMisses, redis, Asks
  <2>2. PICK f : f = [lookup[r] EXCEPT !.miss = TRUE]
    OBVIOUS
  <2>3. f.balance = lookup[r].balance /\ f.wallet = lookup[r].wallet
    BY <2>1, <2>2 DEF Found
  <2>4. lookup[r].balance \in was[lookup[r].wallet]
    BY <1>3, <1>8 DEF RealCache, GetMisses, Asks
  <2>5. \A q \in Readers : lookup'[q] # None => lookup'[q].balance \in was[lookup'[q].wallet]
    BY <1>3, <1>4, <2>1, <2>2, <2>3, <2>4 DEF RealCache
  <2> QED BY <1>3, <2>1, <2>5 DEF RealCache
<1>9. ASSUME NEW r \in Readers, Fills(r, w)
      PROVE  RealCache(tx, cache', balance, was, lookup')
  <2>1. /\ lookup[r].balance \in was[w]
        /\ lookup' = [lookup EXCEPT ![r] = None] \/ lookup' = lookup
        /\ \A v \in CachedWallets : cache'[v] = IF v = w THEN lookup[r].balance ELSE cache[v]
    BY <1>3, <1>9 DEF Fills, Remember, RealCache
  <2> QED BY <1>3, <1>4, <2>1 DEF RealCache
<1>10. /\ owned' \subseteq owned
       /\ \A v \in owned' : v \in CachedWallets /\ cache'[v] = cache[v]
  <2>1. owned \subseteq CachedWallets
    BY <1>3 DEF LatestCache
  <2>2. CASE UNCHANGED redis
    BY <2>1, <2>2 DEF redis
  <2>3. CASE Expires(w)
    BY <1>4, <2>1, <2>3 DEF Expires
  <2>4. ASSUME NEW r \in Readers, Fills(r, w)
        PROVE  /\ owned' \subseteq owned
               /\ \A v \in owned' : v \in CachedWallets /\ cache'[v] = cache[v]
    BY <2>1, <2>4 DEF Fills, Remember
  <2>5. UNCHANGED redis \/ Expires(w) \/ \E r \in Readers : Fills(r, w)
    BY DEF Reads, Finds, Hits, GetMisses
  <2> QED BY <2>2, <2>3, <2>4, <2>5
<1>11. LatestCache(tx, cache', balance, owned')
  BY <1>3, <1>10 DEF LatestCache
<1> QED BY <1>5, <1>6, <1>7, <1>8, <1>9, <1>11 DEF Reads

LEMMA InitKept == Init => CacheKept
<1>1. SUFFICES ASSUME Init PROVE CacheKept
  OBVIOUS
<1>2. \A s \in Sessions : ~tx[s].dead /\ tx[s].stage # "set"
  BY <1>1 DEF Init, IdleTx
<1>3. \A w \in CachedWallets : balance[w] \in was[w] /\ cache[w] = Miss
  <2>1. CachedWallets \subseteq Wallets
    BY SessionsAssumption
  <2>2. /\ balance = [w \in Wallets |-> OpeningBalance]
        /\ was = [w \in CachedWallets |-> {OpeningBalance}]
        /\ cache = [w \in CachedWallets |-> Miss]
    BY <1>1 DEF Init
  <2>3. ASSUME NEW w \in CachedWallets
        PROVE  balance[w] = OpeningBalance /\ was[w] = {OpeningBalance} /\ cache[w] = Miss
    BY <2>1, <2>2
  <2> QED BY <2>3
<1>4. \A r \in Readers : lookup[r] = None
  BY <1>1 DEF Init
<1>5. owned = {} /\ faults = 0
  BY <1>1 DEF Init
<1> QED BY <1>2, <1>3, <1>4, <1>5 DEF CacheKept, RealCache, LatestCache

\* A callback that is about to run.
Begun(j) == [IdleTx EXCEPT !.stage = "begin", !.job = j]

LEMMA BegunKept ==
  ASSUME Isolated, CacheKept, NEW s \in Sessions, NEW j \in Job,
         tx[s].stage \notin {"set", "commit"},
         tx' = [tx EXCEPT ![s] = Begun(j)], UNCHANGED <<balance, was, cache, owned, lookup, faults>>
  PROVE  CacheKept'
<1>1. Begun(j) \in Transaction /\ Begun(j).stage = "begin" /\ ~Begun(j).dead
  BY DEF Begun, IdleTx, Transaction
<1> QED BY <1>1, GoesOnKept

LEMMA NextKept ==
  ASSUME Isolated, CacheKept, [Next]_vars
  PROVE  CacheKept'
<1>1. IdleTx \in Transaction /\ IdleTx.stage = "idle" /\ IdleTx.dead = FALSE
  BY DEF IdleTx, Transaction
<1>2. ASSUME NEW s \in Sessions, Arrives(s)
      PROVE  CacheKept'
  <2>1. PICK j : Starts(s, j)
    BY <1>2 DEF Arrives, Moves, Transfers, Completes, Refunds
  <2>2. /\ tx' = [tx EXCEPT ![s] = Begun(j)]
        /\ tx[s].stage \notin {"set", "commit"}
        /\ UNCHANGED <<balance, was, cache, owned, lookup, faults>>
    BY <1>1, <2>1 DEF Starts, committed, redis, Begun
  <2>3. tx'[s].job = j /\ tx'[s].stage = "begin"
    BY <2>2 DEF Isolated, Typed, Begun, IdleTx
  <2>4. Isolated'
    BY <1>2, ArrivesIsolated
  <2>5. JobFits(j, transfer')
    BY <2>3, <2>4 DEF Isolated, AllIsolated, IsolatedTx
  <2>6. j \in Job
    BY <2>5 DEF JobFits
  <2> QED BY <2>2, <2>6, BegunKept
<1>3. ASSUME NEW s \in Sessions, tx[s].stage = "run", Retry(s)
      PROVE  CacheKept'
  <2>1. tx[s].job \in Job
    BY <1>3, SessionFacts
  <2>2. /\ tx' = [tx EXCEPT ![s] = Begun(tx[s].job)]
        /\ UNCHANGED <<balance, was, cache, owned, lookup, faults>>
    BY <1>3 DEF Retry, Becomes, committed, redis, Begun
  <2> QED BY <1>3, <2>1, <2>2, BegunKept
<1>4. ASSUME NEW s \in Sessions, Begin(s)
      PROVE  CacheKept'
  <2>1. PICK x : x = [tx[s] EXCEPT !.stage = "run", !.snap = Database]
    OBVIOUS
  <2>2. /\ tx' = [tx EXCEPT ![s] = x] /\ tx[s].stage = "begin"
        /\ UNCHANGED <<balance, was, cache, owned, lookup, faults>>
    BY <1>4, <2>1 DEF Begin, Becomes, committed, redis
  <2>3. tx[s] \in Transaction /\ tx[s].dead = FALSE
    <3>1. PICK y : y = tx[s]
      OBVIOUS
    <3>2. y \in Transaction /\ IsolatedTx(y, balance, transfer, inbox) /\ y.stage = "begin"
      BY <2>2, <3>1, SessionFacts
    <3>3. y = [IdleTx EXCEPT !.stage = "begin", !.job = y.job]
      BY <3>2 DEF IsolatedTx, Progress
    <3>4. y.dead = FALSE
      BY <3>3 DEF IdleTx
    <3> QED BY <3>1, <3>2, <3>4
  <2>4. Database \in Snapshot
    BY DEF Isolated, Typed, Database, Snapshot
  <2>5. x \in Transaction /\ x.stage = "run" /\ ~x.dead
    BY <2>1, <2>3, <2>4 DEF Transaction
  <2> QED BY <2>2, <2>5, GoesOnKept
<1>5. ASSUME NEW s \in Sessions, Skip(s)
      PROVE  CacheKept'
  <2>1. PICK x : x = [tx[s] EXCEPT !.stage = "commit"]
    OBVIOUS
  <2>2. /\ tx' = [tx EXCEPT ![s] = x] /\ tx[s].stage = "run" /\ ~tx[s].dead
        /\ UNCHANGED <<balance, was, cache, owned, lookup, faults>>
    BY <1>5, <2>1 DEF Skip, Running, Open, Becomes, committed, redis
  <2>3. x \in Transaction /\ x.stage = "commit" /\ ~x.dead
    BY <2>1, <2>2, SessionFacts DEF Transaction
  <2>4. ASSUME NEW w \in CachedWallets
        PROVE  ~Gives(x, w)
    <3>1. PICK y : y = tx[s]
      OBVIOUS
    <3>2. y \in Transaction /\ y.step \in Nat /\ y.step < Len(Statements(y.job))
      BY <2>2, <3>1, SessionFacts DEF Transaction, IsolatedTx, Progress
    <3>3. x.step = y.step /\ x.job = y.job
      BY <2>1, <3>1, <3>2 DEF Transaction
    <3>4. tx'[s] = x /\ Isolated'
      BY <1>5, <2>2, SkipIsolated DEF Isolated, Typed
    <3>5. IsolatedTx(x, balance', transfer', inbox')
      BY <3>4 DEF Isolated, AllIsolated
    <3>6. /\ Progress(x) /\ JobFits(x.job, transfer') /\ x.job \in Job /\ x.job.op \in AnyOp
      BY <2>3, <3>5, JobFields DEF IsolatedTx, JobFits
    <3>7. \/ x.job.op = "complete" /\ x.step = 1 /\ x.job.message \in Messages
          \/ x.job.op = "refund"
      BY <2>3, <3>2, <3>3, <3>6 DEF Progress, JobFits
    <3>8. x.job.op = "complete" => Held(x) \subseteq {x.job.message}
      BY <3>6, <3>7, TakenOf DEF Held
    <3>9. w \in Wallets
      BY SessionsAssumption
    <3> QED BY <3>7, <3>8, <3>9, DocumentsAssumption DEF Gives
  <2> QED BY <2>2, <2>3, <2>4, GoesOnKept
<1>6. ASSUME NEW s \in Sessions, Refuse(s)
      PROVE  CacheKept'
  BY <1>1, <1>6, GoesOnKept DEF Refuse, Running, Becomes, committed, redis
<1>7. ASSUME NEW s \in Sessions, FindsAborted(s)
      PROVE  CacheKept'
  <2>1. faults' = faults /\ tx[s].dead
    BY <1>7 DEF FindsAborted, Retry, Becomes
  <2>2. faults # 0
    BY <2>1 DEF CacheKept, RealCache
  <2> QED BY <2>1, <2>2 DEF CacheKept
<1>8. ASSUME NEW s \in Sessions, ServerAborts(s)
      PROVE  CacheKept'
  <2>1. faults' = faults + 1 /\ faults \in Nat
    BY <1>8 DEF ServerAborts, CacheKept
  <2> QED BY <2>1 DEF CacheKept
<1>9. CASE UNCHANGED vars
  BY <1>9 DEF vars, committed, redis, CacheKept
<1>10. ASSUME NEW s \in Sessions, Runs(s)
       PROVE  CacheKept'
  <2>1. WriteConflict(s) => tx[s].stage = "run" /\ Retry(s)
    BY DEF WriteConflict, Running
  <2> QED BY <1>3, <1>4, <1>5, <1>6, <1>7, <1>10, <2>1, WriteKept, SetKept, CommitKept DEF Runs
<1> QED BY <1>2, <1>8, <1>9, <1>10, ReadsKept DEF Next

\* As long as the server aborts nothing on its own, Redis has balances that the
\* wallet had or is about to have, however many transactions and GETs interleave.
THEOREM CacheIsReal == Spec => []CacheWasReal
<1>1. CacheKept => CacheWasReal
  <2>1. SUFFICES ASSUME CacheKept, faults = 0, NEW w \in CachedWallets
                 PROVE  cache[w] \in was[w] \cup {Miss} \cup
                          {After(tx[s].job, tx[s].snap.balance[w]) :
                             s \in {o \in Sessions :
                                     tx[o].stage \in {"set", "commit"} /\ w \in Wrote(o)}}
    BY DEF CacheWasReal
  <2>2. cache[w] \in was[w] \cup {Miss} \cup Arriving(tx, w)
    BY <2>1 DEF CacheKept, RealCache
  <2>3. \A o \in Sessions : Wrote(o) = Held(tx[o])
    BY WroteIsHeld
  <2> QED BY <2>2, <2>3 DEF Arriving
<1>2. Isolated /\ CacheKept /\ [Next]_vars => CacheKept'
  BY NextKept
<1> QED BY <1>1, <1>2, InitKept, TransactionsIsolated, PTL DEF Spec

\* Whatever transactions and GETs do to one another, an entry that is a
\* transaction's SET is the wallet's balance or what the transaction that holds
\* the wallet commits: the last to commit was the last to SET.
THEOREM LastSetIsLastCommit == Spec => []LastCommitSetLast
<1>1. CacheKept => LastCommitSetLast
  <2>1. SUFFICES ASSUME CacheKept, faults = 0, NEW w \in owned, cache[w] # balance[w]
                 PROVE  \E s \in Sessions :
                          /\ tx[s].stage \in {"set", "commit"} /\ tx[s].job.op # "refund"
                          /\ w \in Wrote(s)
                          /\ cache[w] = After(tx[s].job, tx[s].snap.balance[w])
    BY DEF LastCommitSetLast
  <2>2. PICK s \in Sessions :
          Gives(tx[s], w) /\ cache[w] = After(tx[s].job, tx[s].snap.balance[w])
    BY <2>1 DEF CacheKept, LatestCache
  <2>3. w \in Wrote(s)
    BY <2>2, WroteIsHeld DEF Gives
  <2> QED BY <2>2, <2>3 DEF Gives
<1>2. Isolated /\ CacheKept /\ [Next]_vars => CacheKept'
  BY NextKept
<1> QED BY <1>1, <1>2, InitKept, TransactionsIsolated, PTL DEF Spec

=============================================================================
