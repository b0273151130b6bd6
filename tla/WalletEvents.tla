---------------------------- MODULE WalletEvents ----------------------------
(***************************************************************************)
(* WalletEventsWorker.  Every process subscribes to the Redis channel      *)
(* wallet-snapshots and watches the wallets collection; each process       *)
(* publishes every balance change it is told of, so a snapshot is          *)
(* published once for each process that watches.  A process that starts    *)
(* again watches from that moment: no resume token is kept.  The client    *)
(* that publishes, ioredis with its defaults, keeps the commands that have *)
(* no answer and sends them again, in their order, when its connection is  *)
(* made again.  It is assumed that Redis executes what was sent on a lost  *)
(* connection before the next one is made, or never.                       *)
(***************************************************************************)
EXTENDS Integers, Sequences, FiniteSetsExt

CONSTANTS
  Wallets,
  Processes,
  Steady,      \* processes that never die and never lose Redis
  MaxChanges,  \* bound: changes of the wallets collection
  MaxDeaths,   \* bound: processes that die
  MaxReconnects  \* bound: connections a process makes again

ASSUME EventsAssumption ==
  Steady \subseteq Processes /\ {MaxChanges, MaxDeaths, MaxReconnects} \subseteq Nat

VARIABLES
  log,       \* the changes of wallets, in the order of their commits
  stage,     \* [Processes -> "down", "subscribed" or "watching"]
  at,        \* [Processes -> changes its stream has delivered or was opened after]
  opened,    \* [Processes -> the changes there were when its stream was opened]
  pending,   \* [Processes -> changes whose publish() has no answer yet]
  executed,  \* [Processes -> how many of those Redis executed on this connection]
  conn,      \* [Processes -> how often its connection was made again]
  heard,     \* [Processes -> what its subscriber was told, in order]
  deaths     \* processes that have died

publishing == <<pending, executed, conn>>
eventVars == <<log, stage, at, opened, pending, executed, conn, heard, deaths>>

EventsInit ==
  /\ log = <<>>
  /\ stage = [p \in Processes |-> "down"]
  /\ at = [p \in Processes |-> 0]
  /\ opened = [p \in Processes |-> 0]
  /\ pending = [p \in Processes |-> <<>>]
  /\ executed = [p \in Processes |-> 0]
  /\ conn = [p \in Processes |-> 0]
  /\ heard = [p \in Processes |-> <<>>]
  /\ deaths = 0

-----------------------------------------------------------------------------

\* A transaction commits: a new wallet, or a new balance.
Commit(w, op) ==
  /\ Len(log) < MaxChanges
  /\ log' = Append(log, [wallet |-> w, op |-> op])
  /\ UNCHANGED <<stage, at, opened, publishing, heard, deaths>>

\* onModuleInit subscribes and waits until that is done ...
Subscribe(p) ==
  /\ stage[p] = "down"
  /\ stage' = [stage EXCEPT ![p] = "subscribed"]
  /\ UNCHANGED <<log, at, opened, publishing, heard, deaths>>

\* ... and then opens the stream.
Watch(p) ==
  /\ stage[p] = "subscribed"
  /\ stage' = [stage EXCEPT ![p] = "watching"]
  /\ at' = [at EXCEPT ![p] = Len(log)]
  /\ opened' = [opened EXCEPT ![p] = Len(log)]
  /\ UNCHANGED <<log, publishing, heard, deaths>>

\* Mutant: the handler takes inserts for changes of the balance.
TakesInserts(p, change) == Append(pending[p], at[p] + 1)

\* Mutant: a change that comes while another is published is passed over.
TakesWhenIdle(p, change) ==
  IF change.op = "update" /\ pending[p] = <<>> THEN Append(pending[p], at[p] + 1) ELSE pending[p]

\* The handler publishes updates of the balance and passes over inserts.
Takes(p, change) ==
  IF change.op = "update" THEN Append(pending[p], at[p] + 1) ELSE pending[p]

\* The stream gives its next change to the handler, which does not wait for
\* the publish() of the one before.
Change(p) ==
  /\ stage[p] = "watching"
  /\ at[p] < Len(log)
  /\ at' = [at EXCEPT ![p] = @ + 1]
  /\ pending' = [pending EXCEPT ![p] = Takes(p, log[at[p] + 1])]
  /\ UNCHANGED <<log, stage, opened, executed, conn, heard, deaths>>

Told(n, p, deaf) ==
  [s \in Processes |->
     IF stage[s] = "down" \/ s \in deaf THEN heard[s]
     ELSE Append(heard[s], [change |-> n, by |-> p, conn |-> conn[p]])]

\* Mutant: the publishes of a connection go out in any order.
PublishUnordered(p) ==
  /\ \E i \in executed[p] + 1 .. Len(pending[p]), deaf \in SUBSET (Processes \ Steady) :
       /\ heard' = Told(pending[p][i], p, deaf)
       /\ pending' = [pending EXCEPT
            ![p] = SubSeq(@, 1, executed[p]) \o <<@[i]>>
                     \o SubSeq(@, executed[p] + 1, i - 1) \o SubSeq(@, i + 1, Len(@))]
  /\ executed' = [executed EXCEPT ![p] = @ + 1]
  /\ UNCHANGED <<log, stage, at, opened, conn, deaths>>

\* Redis executes the commands of one connection in their order, and passes a
\* message to the subscribers that are connected at that moment.
Publish(p) ==
  /\ executed[p] < Len(pending[p])
  /\ \E deaf \in SUBSET (Processes \ Steady) :
       heard' = Told(pending[p][executed[p] + 1], p, deaf)
  /\ executed' = [executed EXCEPT ![p] = @ + 1]
  /\ UNCHANGED <<log, stage, at, opened, pending, conn, deaths>>

\* The answer to the first of them comes.
Answered(p) ==
  /\ executed[p] > 0
  /\ pending' = [pending EXCEPT ![p] = Tail(@)]
  /\ executed' = [executed EXCEPT ![p] = @ - 1]
  /\ UNCHANGED <<log, stage, at, opened, conn, heard, deaths>>

\* The connection was lost and is made again: what has no answer is sent again,
\* executed or not.
Reconnects(p) ==
  /\ p \notin Steady /\ stage[p] # "down" /\ conn[p] < MaxReconnects
  /\ conn' = [conn EXCEPT ![p] = @ + 1]
  /\ executed' = [executed EXCEPT ![p] = 0]
  /\ UNCHANGED <<log, stage, at, opened, pending, heard, deaths>>

\* The process is killed; or a publish() is rejected or the stream fails, and
\* nobody handles it, which ends the process too.
Die(p) ==
  /\ p \notin Steady /\ stage[p] # "down" /\ deaths < MaxDeaths
  /\ deaths' = deaths + 1
  /\ stage' = [stage EXCEPT ![p] = "down"]
  /\ pending' = [pending EXCEPT ![p] = <<>>]
  /\ executed' = [executed EXCEPT ![p] = 0]
  /\ UNCHANGED <<log, at, opened, conn, heard>>

EventsNext ==
  \/ \E w \in Wallets, op \in {"insert", "update"} : Commit(w, op)
  \/ \E p \in Processes :
       \/ Subscribe(p) \/ Watch(p) \/ Change(p) \/ Die(p)
       \/ Publish(p) \/ Answered(p) \/ Reconnects(p)

-----------------------------------------------------------------------------

Updates == {n \in DOMAIN log : log[n].op = "update"}

\* What a process publishes, and what a subscriber hears, are balance changes
\* that were committed, published only after the stream delivered them.
EventsTypeOK ==
  /\ log \in Seq([wallet : Wallets, op : {"insert", "update"}])
  /\ stage \in [Processes -> {"down", "subscribed", "watching"}]
  /\ \A p \in Processes :
       /\ opened[p] <= at[p] /\ at[p] <= Len(log)
       /\ executed[p] \in 0 .. Len(pending[p])
       /\ \A i \in DOMAIN pending[p] : pending[p][i] \in Updates /\ pending[p][i] <= at[p]
       /\ \A i \in DOMAIN heard[p] :
            heard[p][i].change \in Updates /\ heard[p][i].change <= at[heard[p][i].by]

\* What a subscriber hears of one process goes forward in time, connection after
\* connection: a snapshot that is older than one before it, or repeats one,
\* comes from another process or was sent again on a new connection.
BackOnlyWhenSentAgain ==
  \A s \in Processes : \A i, j \in DOMAIN heard[s] :
    i < j /\ heard[s][i].by = heard[s][j].by =>
      \/ heard[s][i].change < heard[s][j].change
      \/ heard[s][i].conn < heard[s][j].conn

Hears(s, n) == \E i \in DOMAIN heard[s] : heard[s][i].change = n

\* The stream of p will deliver change n, and the subscriber of s is there.
Awaits(p, s, n) ==
  /\ stage[p] = "watching" /\ at[p] < n /\ n \in Updates
  /\ stage[s] # "down"

\* A steady subscriber hears of a change from any process whose stream it is
\* on: it misses one only if every process that watched has died before.
EveryChangeHeard ==
  \A p \in Processes, s \in Steady, n \in 1 .. MaxChanges :
    Awaits(p, s, n) ~> Hears(s, n) \/ stage[p] = "down"

LastUpdate(w) ==
  Max({n \in DOMAIN log : log[n].wallet = w /\ log[n].op = "update"} \cup {0})

LastHeard(s, w) ==
  LET about == {i \in DOMAIN heard[s] : log[heard[s][i].change].wallet = w} IN
    IF about = {} THEN 0 ELSE heard[s][Max(about)].change

\* When no process dies, the last snapshot a subscriber hears of a wallet is
\* the last balance the wallet got, although the processes publish past one
\* another.
LatestHeard ==
  \A s \in Steady, w \in Wallets :
    <>[](deaths = 0 /\ opened[s] < LastUpdate(w) => LastHeard(s, w) = LastUpdate(w))

=============================================================================
