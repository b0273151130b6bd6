---------------------------- MODULE MongoSessions ---------------------------
(***************************************************************************)
(* The platform's MongoDB transactions, statement by statement.            *)
(*                                                                         *)
(* A session runs one job, the callback of a session.withTransaction().    *)
(* Its first statement takes a snapshot; every read and every filter sees  *)
(* that snapshot; a write takes the document until the end.  A write to a  *)
(* document that another open transaction has written, or that was         *)
(* committed after the snapshot, is a write conflict: the transaction is   *)
(* aborted and withTransaction runs the callback again.  The Redis SET is  *)
(* awaited after the last write and before the commit; ioredis sends a     *)
(* command again whose answer was lost with the connection.  Elsewhere in  *)
(* these modules a transaction is one step; CommitsAreSerial is why it may *)
(* be.                                                                     *)
(*                                                                         *)
(* The wallets all exist.  The inserts nobody else can collide with        *)
(* (transaction, ledger entry, outbox event) are part of the write before  *)
(* them.                                                                   *)
(***************************************************************************)
EXTENDS Integers, Sequences

CONSTANTS
  Wallets, OpeningBalance, Currency, TransferIds, Keys, NoKey, Amounts, None,
  Messages,    \* ids of transfer.initiated messages
  About,       \* [Messages -> the transfer each is about]
  Ops,         \* the kinds of jobs a run makes
  Sessions,    \* transactions open at once
  CachedWallets,  \* the wallets whose Redis entry a run observes
  Readers,     \* GET /wallets/:id requests open at once
  MaxJobs,     \* bound: jobs ever begun
  MaxFaults,   \* bound: transactions the server aborts on its own
  Miss         \* no entry in Redis

ASSUME SessionsAssumption ==
  /\ OpeningBalance \in Nat
  /\ Amounts \subseteq Nat \ {0}
  /\ About \in [Messages -> TransferIds]
  /\ CachedWallets \subseteq Wallets
  /\ Ops \subseteq {"deposit", "withdraw", "transfer", "complete", "refund"}
  /\ MaxJobs \in Nat /\ MaxFaults \in Nat
  /\ NoKey \notin Keys
  /\ Miss \notin Nat

\* The documents' ids and keys are ObjectIds, uuids and strings of collections
\* of their own.
ASSUME DocumentsAssumption ==
  /\ Wallets \cap TransferIds = {} /\ Wallets \cap Keys = {} /\ Wallets \cap Messages = {}
  /\ TransferIds \cap Keys = {} /\ TransferIds \cap Messages = {} /\ Keys \cap Messages = {}
  /\ NoKey \notin Wallets \cup TransferIds \cup Messages

Documents == Wallets \cup TransferIds \cup Keys \cup Messages

TransferDoc ==
  [from : Wallets, to : Wallets, amount : Amounts,
   status : {"PENDING", "COMPLETED", "FAILED"}, key : Keys \cup {NoKey}]

ASSUME NoneAssumption ==
  None \notin TransferDoc \cup TransferIds \cup Messages \cup Wallets

\* wallet: the one whose balance the job changes; other: a transfer's receiver.
Job ==
  [op : Ops, wallet : Wallets, other : Wallets \cup {None}, amount : Amounts,
   transfer : TransferIds \cup {None}, key : Keys \cup {NoKey},
   message : Messages \cup {None}]

VARIABLES
  balance, transfer, inbox,   \* what is committed
  cache,                      \* Redis
  tx,       \* [Sessions -> the job, its stage and its transaction]
  lookup,   \* [Readers -> the wallet as a GET found it, or None]
  was,      \* history: [CachedWallets -> the balances committed so far]
  owned,    \* history: the CachedWallets whose entry is a transaction's SET, with
            \* no refund of the wallet since
  jobs, faults

committed == <<balance, transfer, inbox, was>>
redis == <<cache, owned>>
vars == <<committed, redis, tx, lookup, jobs, faults>>

Database == [balance |-> balance, transfer |-> transfer, inbox |-> inbox]

\* step: statements executed; snap: the documents at its snapshot; missed: the
\* ones others committed since; dead: aborted, unknown to the client.
IdleTx ==
  [stage |-> "idle", job |-> None, step |-> 0, snap |-> None, missed |-> {}, dead |-> FALSE]

Init ==
  /\ balance = [w \in Wallets |-> OpeningBalance]
  /\ transfer = [t \in TransferIds |-> None]
  /\ inbox = {}
  /\ cache = [w \in CachedWallets |-> Miss]
  /\ was = [w \in CachedWallets |-> {OpeningBalance}]
  /\ owned = {}
  /\ tx = [s \in Sessions |-> IdleTx]
  /\ lookup = [r \in Readers |-> None]
  /\ jobs = 0
  /\ faults = 0

-----------------------------------------------------------------------------
(* What a job does.                                                         *)

\* Mutant: a transfer writes both its wallets, in the order of the request.
StatementsTakeBoth(j) ==
  CASE j.op \in {"deposit", "withdraw"} -> <<j.wallet>>
    [] j.op = "transfer" -> <<j.wallet, j.other, j.transfer>>
    [] j.op = "complete" -> <<j.message, j.transfer, j.wallet>>
    [] j.op = "refund"   -> <<j.transfer, j.wallet>>

\* The documents a job writes, in order.  The find of both wallets with which
\* a transfer begins reads and takes nothing: it is its snapshot.
Statements(j) ==
  CASE j.op \in {"deposit", "withdraw"} -> <<j.wallet>>
    [] j.op = "transfer" -> <<j.wallet, j.transfer>>
    [] j.op = "complete" -> <<j.message, j.transfer, j.wallet>>
    [] j.op = "refund"   -> <<j.transfer, j.wallet>>

\* The insert of a transfer takes its idempotency key in the unique index too.
Takes(j, d) ==
  IF j.op = "transfer" /\ d = j.transfer THEN {d, j.key} \ {NoKey} ELSE {d}

Credit(j) == j.op \in {"deposit", "complete", "refund"}

After(j, b) == IF Credit(j) THEN b + j.amount ELSE b - j.amount

KeyUnused(docs, k) ==
  k # NoKey => \A t \in TransferIds : docs[t] # None => docs[t].key # k

\* Mutant: the debit has no { balance: { $gte } } filter.
MatchesAnyBalance(j, d, docs) ==
  /\ d = j.transfer =>
       IF j.op = "transfer"
       THEN Currency[j.wallet] = Currency[j.other] /\ KeyUnused(docs.transfer, j.key)
       ELSE docs.transfer[d].status = "PENDING"
  /\ d = j.message => d \notin docs.inbox

\* The filter, the checks or the unique index that statement d has to meet.
Matches(j, d, docs) ==
  /\ d = j.wallet /\ ~Credit(j) => docs.balance[d] >= j.amount
  /\ d = j.transfer =>
       IF j.op = "transfer"
       THEN Currency[j.wallet] = Currency[j.other] /\ KeyUnused(docs.transfer, j.key)
       ELSE docs.transfer[d].status = "PENDING"
  /\ d = j.message => d \notin docs.inbox

\* A filter that matches no transfer ends these callbacks normally; every other
\* statement that does not match throws.
Skips(j, d) == j.op \in {"complete", "refund"} /\ d = j.transfer

Written(j, docs) ==
  IF j.op = "transfer"
  THEN [from |-> j.wallet, to |-> j.other, amount |-> j.amount,
        status |-> "PENDING", key |-> j.key]
  ELSE [docs.transfer[j.transfer] EXCEPT !.status =
          IF j.op = "complete" THEN "COMPLETED" ELSE "FAILED"]

-----------------------------------------------------------------------------
(* Requests, deliveries and sweeps begin jobs.                              *)

Open(s) == tx[s].stage \in {"run", "set", "commit"} /\ ~tx[s].dead
Statement(s) == Statements(tx[s].job)[tx[s].step + 1]
Wrote(s) ==
  IF Open(s)
  THEN UNION {Takes(tx[s].job, Statements(tx[s].job)[i]) : i \in 1 .. tx[s].step}
  ELSE {}

Starts(s, j) ==
  /\ tx[s] = IdleTx /\ j.op \in Ops /\ jobs < MaxJobs
  /\ tx' = [tx EXCEPT ![s] = [IdleTx EXCEPT !.stage = "begin", !.job = j]]
  /\ jobs' = jobs + 1
  /\ UNCHANGED <<committed, redis, lookup, faults>>

Moves(s, op, w, a) ==
  Starts(s, [op |-> op, wallet |-> w, other |-> None, amount |-> a,
             transfer |-> None, key |-> NoKey, message |-> None])

\* The id is new: an ObjectId is drawn for each insert.
Transfers(s, t, from, to, a, k) ==
  /\ from # to
  /\ transfer[t] = None
  /\ \A o \in Sessions : tx[o] # IdleTx => tx[o].job.transfer # t
  /\ Starts(s, [op |-> "transfer", wallet |-> from, other |-> to, amount |-> a,
                transfer |-> t, key |-> k, message |-> None])

\* A transfer's messages exist once the transfer is committed.
Completes(s, m) ==
  LET t == About[m] IN
    /\ transfer[t] # None
    /\ Starts(s, [op |-> "complete", wallet |-> transfer[t].to, other |-> None,
                  amount |-> transfer[t].amount, transfer |-> t, key |-> NoKey, message |-> m])

Refunds(s, t) ==
  /\ transfer[t] # None
  /\ transfer[t].status = "PENDING"
  /\ Starts(s, [op |-> "refund", wallet |-> transfer[t].from, other |-> None,
                amount |-> transfer[t].amount, transfer |-> t, key |-> NoKey, message |-> None])

Arrives(s) ==
  \/ \E op \in {"deposit", "withdraw"}, w \in Wallets, a \in Amounts : Moves(s, op, w, a)
  \/ \E t \in TransferIds, from, to \in Wallets, a \in Amounts, k \in Keys \cup {NoKey} :
       Transfers(s, t, from, to, a, k)
  \/ \E m \in Messages : Completes(s, m)
  \/ \E t \in TransferIds : Refunds(s, t)

-----------------------------------------------------------------------------
(* The statements of a transaction.                                         *)

\* Session s goes on as x, and nothing else changes.
Becomes(s, x) ==
  /\ tx' = [tx EXCEPT ![s] = x]
  /\ UNCHANGED <<committed, redis, lookup, jobs, faults>>

Begin(s) ==
  /\ tx[s].stage = "begin"
  /\ Becomes(s, [tx[s] EXCEPT !.stage = "run", !.snap = Database])

\* Mutant: the callback goes on with what its first run has read.
RetryKeepingReads(s) ==
  Becomes(s, [tx[s] EXCEPT !.stage = "run", !.step = 0, !.missed = {}, !.dead = FALSE])

\* withTransaction runs the callback again, in a new transaction.
Retry(s) == Becomes(s, [IdleTx EXCEPT !.stage = "begin", !.job = tx[s].job])

\* Somebody else holds, or has committed since the snapshot, what d takes.
Conflicts(s, d) ==
  \E e \in Takes(tx[s].job, d) :
    e \in tx[s].missed \/ \E o \in Sessions \ {s} : e \in Wrote(o)

\* Mutant: the consumer leaves Redis alone, as the sweep does.
NoSetByConsumer(j, n) ==
  IF n < Len(Statements(j)) THEN "run"
  ELSE IF j.op \in {"complete", "refund"} THEN "commit" ELSE "set"

\* Redis is written in the callback, by all but the sweep.
NextStage(j, n) ==
  IF n < Len(Statements(j)) THEN "run" ELSE IF j.op = "refund" THEN "commit" ELSE "set"

Running(s) == tx[s].stage = "run" /\ Open(s)
Match(s) == Matches(tx[s].job, Statement(s), tx[s].snap)

Write(s) ==
  /\ Running(s) /\ Match(s) /\ ~Conflicts(s, Statement(s))
  /\ Becomes(s, [tx[s] EXCEPT !.step = @ + 1, !.stage = NextStage(tx[s].job, tx[s].step + 1)])

WriteConflict(s) ==
  /\ Running(s) /\ Match(s) /\ Conflicts(s, Statement(s))
  /\ Retry(s)

\* The callback returns with nothing more to write.
Skip(s) ==
  /\ Running(s) /\ ~Match(s) /\ Skips(tx[s].job, Statement(s))
  /\ Becomes(s, [tx[s] EXCEPT !.stage = "commit"])

\* Insufficient balance, currency mismatch, key or message known: the callback
\* throws and the transaction is aborted.
Refuse(s) ==
  /\ Running(s) /\ ~Match(s) /\ ~Skips(tx[s].job, Statement(s))
  /\ Becomes(s, IdleTx)

Remember(w, b) == cache' = [v \in CachedWallets |-> IF v = w THEN b ELSE cache[v]]

\* The transaction's SET, answered or to be sent again.
Sets(s) ==
  LET j == tx[s].job IN
    /\ Remember(j.wallet, After(j, tx[s].snap.balance[j.wallet]))
    /\ owned' = owned \cup ({j.wallet} \cap CachedWallets)
    /\ UNCHANGED <<committed, lookup, jobs, faults>>

\* Mutant: the SET is sent along with the last write, too.
SetWithLastWrite(s) ==
  /\ \/ tx[s].stage = "set" /\ tx' = [tx EXCEPT ![s].stage = "commit"]
     \/ Running(s) /\ tx[s].step = Len(Statements(tx[s].job)) - 1 /\ UNCHANGED tx
  /\ Sets(s)

\* The SET is made whether the transaction still lives or not.
SetCachedBalance(s) ==
  /\ tx[s].stage = "set"
  /\ tx' = [tx EXCEPT ![s].stage = "commit"] \/ UNCHANGED tx
  /\ Sets(s)

Commit(s) ==
  /\ tx[s].stage = "commit" /\ Open(s)
  /\ balance' = [w \in Wallets |->
       IF w \in Wrote(s) THEN After(tx[s].job, tx[s].snap.balance[w]) ELSE balance[w]]
  /\ transfer' = [t \in TransferIds |->
       IF t \in Wrote(s) THEN Written(tx[s].job, tx[s].snap) ELSE transfer[t]]
  /\ inbox' = inbox \cup (Wrote(s) \cap Messages)
  /\ was' = [w \in CachedWallets |-> was[w] \cup {balance'[w]}]
  /\ tx' = [o \in Sessions |->
       IF o = s THEN IdleTx
       ELSE IF Open(o) THEN [tx[o] EXCEPT !.missed = @ \cup Wrote(s)] ELSE tx[o]]
  /\ owned' = IF tx[s].job.op = "refund" THEN owned \ Wrote(s) ELSE owned
  /\ UNCHANGED <<cache, lookup, jobs, faults>>

\* The server aborts a transaction that has waited too long, or whose primary
\* steps down; the client learns of it with its next statement or its commit,
\* and tries again until withTransaction's time is over.
ServerAborts(s) ==
  /\ Open(s) /\ faults < MaxFaults
  /\ tx' = [tx EXCEPT ![s].dead = TRUE]
  /\ faults' = faults + 1
  /\ UNCHANGED <<committed, redis, lookup, jobs>>

FindsAborted(s) ==
  /\ tx[s].dead /\ tx[s].stage \in {"run", "commit"}
  /\ Retry(s) \/ Becomes(s, IdleTx)

-----------------------------------------------------------------------------
(* getWallet: the document, then Redis; on a miss, the SET of what was read. *)

Finds(r, w) ==
  /\ lookup[r] = None
  /\ lookup' = [lookup EXCEPT ![r] = [wallet |-> w, balance |-> balance[w], miss |-> FALSE]]
  /\ UNCHANGED <<committed, redis, tx, jobs, faults>>

Asks(r, w) == lookup[r] # None /\ lookup[r].wallet = w /\ ~lookup[r].miss

Hits(r, w) ==
  /\ Asks(r, w) /\ cache[w] # Miss
  /\ lookup' = [lookup EXCEPT ![r] = None]
  /\ UNCHANGED <<committed, redis, tx, jobs, faults>>

GetMisses(r, w) ==
  /\ Asks(r, w) /\ cache[w] = Miss
  /\ lookup' = [lookup EXCEPT ![r].miss = TRUE]
  /\ UNCHANGED <<committed, redis, tx, jobs, faults>>

\* The SET of what was found, answered or to be sent again.
Fills(r, w) ==
  /\ lookup[r] # None /\ lookup[r].wallet = w /\ lookup[r].miss
  /\ Remember(w, lookup[r].balance)
  /\ owned' = owned \ {w}
  /\ lookup' = [lookup EXCEPT ![r] = None] \/ UNCHANGED lookup
  /\ UNCHANGED <<committed, tx, jobs, faults>>

Expires(w) ==
  /\ cache[w] # Miss
  /\ cache' = [cache EXCEPT ![w] = Miss]
  /\ owned' = owned \ {w}
  /\ UNCHANGED <<committed, tx, lookup, jobs, faults>>

-----------------------------------------------------------------------------

Runs(s) ==
  \/ Begin(s) \/ Write(s) \/ WriteConflict(s) \/ Skip(s) \/ Refuse(s)
  \/ SetCachedBalance(s) \/ Commit(s) \/ FindsAborted(s)

Reads(r, w) == Finds(r, w) \/ Hits(r, w) \/ GetMisses(r, w) \/ Fills(r, w)

Next ==
  \/ \E s \in Sessions : Arrives(s) \/ Runs(s) \/ ServerAborts(s)
  \/ \E r \in Readers, w \in CachedWallets : Reads(r, w)
  \/ \E w \in CachedWallets : Expires(w)

Spec == Init /\ [][Next]_vars

-----------------------------------------------------------------------------

TypeOK ==
  /\ balance \in [Wallets -> Nat]
  /\ transfer \in [TransferIds -> TransferDoc \cup {None}]
  /\ inbox \subseteq Messages
  /\ cache \in [CachedWallets -> Nat \cup {Miss}]

\* However transactions interleave, conflict, retry and are aborted, what is
\* committed changes as the Bank says, one whole job at a time: the balance a
\* callback read is still the balance when its commit writes the new one, and
\* consumer and sweep do not both take a transfer.
Serial ==
  INSTANCE Bank WITH created <- Wallets, Opened <- Wallets

CommitsAreSerial == Serial!Spec

\* What the next statement of s takes.
Needs(s) == IF Running(s) THEN Takes(tx[s].job, Statement(s)) ELSE {}

\* "Deadlocks ... are prevented by sorting wallet ObjectIDs ... prior to
\* acquiring document locks" (DESIGN.md).  The sorted find takes nothing, and
\* yet of the transactions that hold documents there is always one whose next
\* statement needs nothing that another holds: transfers in both directions,
\* consumer and sweep never stand in one another's way in a circle.
NoStandoff ==
  LET holders == {s \in Sessions : Wrote(s) # {}} IN
    holders # {} => \E s \in holders : \A o \in holders \ {s} : Needs(s) \cap Wrote(o) = {}

\* The SET comes before the commit, and a GET may put an old balance back.  But
\* as long as the server aborts nothing on its own, a cached balance is one the
\* wallet had, or the one a transaction that holds the wallet is committing.
CacheWasReal ==
  faults = 0 =>
    \A w \in CachedWallets :
      cache[w] \in was[w] \cup {Miss} \cup
        {After(tx[s].job, tx[s].snap.balance[w]) :
           s \in {o \in Sessions : tx[o].stage \in {"set", "commit"} /\ w \in Wrote(o)}}

\* Of two transactions on a wallet the one that commits last also made the last
\* SET: unless a GET fills the entry or the sweep, which makes no SET, refunds
\* the wallet, what Redis has is the wallet's balance, or what a transaction
\* that holds the wallet is about to commit.
LastCommitSetLast ==
  faults = 0 =>
    \A w \in owned :
      \/ cache[w] = balance[w]
      \/ \E s \in Sessions :
           /\ tx[s].stage \in {"set", "commit"} /\ tx[s].job.op # "refund"
           /\ w \in Wrote(s)
           /\ cache[w] = After(tx[s].job, tx[s].snap.balance[w])

\* "Cache update INSIDE the transaction boundary to prevent stale reads"
\* (wallets.service.ts): when nothing is under way any more, Redis has the
\* wallet's balance or nothing.  A GET that read the document before a commit
\* puts the old balance back after the SET.
NoStaleReads ==
  /\ faults = 0
  /\ \A s \in Sessions : tx[s] = IdleTx
  /\ \A r \in Readers : lookup[r] = None
  => \A w \in CachedWallets : cache[w] \in {balance[w], Miss}

=============================================================================
