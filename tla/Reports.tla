------------------------------- MODULE Reports ------------------------------
(***************************************************************************)
(* reconcile and getDashboard: a wallet, then its postings, then the last  *)
(* of them again, each by a query of its own and outside any transaction,  *)
(* while the requests of ApiClients go on committing.  A query sees what   *)
(* is committed when it runs.                                              *)
(***************************************************************************)
EXTENDS ApiClients, FiniteSetsExt

CONSTANTS
  Viewers,     \* reports being made
  RecentLimit  \* the dashboard's limit(10)

ASSUME ReportsAssumption == RecentLimit \in Nat \ {0}

VARIABLE
  report   \* [Viewers -> what a report has read so far]

reportVars == <<allVars, report>>

\* at: how many postings the wallet had when its document was read.  recent and
\* entries are positions in the ledger: the ids of documents.
NoReport ==
  [kind |-> "none", wallet |-> None, balance |-> 0, at |-> 0,
   net |-> 0, deposited |-> 0, withdrawn |-> 0, count |-> 0,
   recent |-> {}, entries |-> {}, stage |-> "wallet"]

ReportsInit == ClientsInit /\ report = [v \in Viewers |-> NoReport]

-----------------------------------------------------------------------------
(* The queries.                                                             *)

\* The last RecentLimit transactions by createdAt.  Assumed: within a wallet that
\* is the order of their commits.  Each is created while its transaction holds
\* the wallet, so only the clocks of two processes could make it another.
RecentIds(w) == {n \in DOMAIN ledger[w] : n > Len(ledger[w]) - RecentLimit}

Reading(v, kind, stage) ==
  report[v].kind = kind /\ report[v].stage = stage /\ UNCHANGED allVars

\* Both handlers begin with walletModel.findById.
FindWallet(v, kind, w) ==
  /\ Reading(v, "none", "wallet")
  /\ w \in created
  /\ report' = [report EXCEPT ![v] =
       [NoReport EXCEPT !.kind = kind, !.wallet = w, !.balance = balance[w],
                        !.at = Len(ledger[w]), !.stage = "totals"]]

Aggregate(v) ==
  /\ Reading(v, "reconcile", "totals")
  /\ report' = [report EXCEPT ![v].net = Net(report[v].wallet), ![v].stage = "answer",
                              ![v].count = Len(ledger[report[v].wallet])]

Totals(v) ==
  LET w == report[v].wallet IN
    /\ Reading(v, "dashboard", "totals")
    /\ report' = [report EXCEPT
         ![v].deposited = TotalDeposited(w), ![v].withdrawn = TotalWithdrawn(w),
         ![v].count = Len(ledger[w]), ![v].stage = "recent"]

\* Mutant: the entries are those of the transactions there were at the totals.
RecentAfterEntries(v) ==
  LET w == report[v].wallet IN
    /\ Reading(v, "dashboard", "recent")
    /\ report' = [report EXCEPT
         ![v].recent = RecentIds(w), ![v].stage = "answer",
         ![v].entries = {n \in RecentIds(w) : n <= report[v].count}]

Recent(v) ==
  /\ Reading(v, "dashboard", "recent")
  /\ report' = [report EXCEPT ![v].recent = RecentIds(report[v].wallet),
                              ![v].stage = "entries"]

\* The ledger entries whose transactionId is among the recent transactions'.
Entries(v) ==
  /\ Reading(v, "dashboard", "entries")
  /\ report' = [report EXCEPT
       ![v].entries = report[v].recent \cap DOMAIN ledger[report[v].wallet],
       ![v].stage = "answer"]

\* The answer is sent.
Answers(v) ==
  /\ report[v].stage = "answer" /\ UNCHANGED allVars
  /\ report' = [report EXCEPT ![v] = NoReport]

-----------------------------------------------------------------------------

Requests == ClientsNext /\ UNCHANGED report

ReportsNext ==
  \/ Requests
  \/ \E v \in Viewers :
       \/ \E w \in Wallets, kind \in {"reconcile", "dashboard"} : FindWallet(v, kind, w)
       \/ Aggregate(v) \/ Totals(v) \/ Recent(v) \/ Entries(v) \/ Answers(v)

ReportsSpec == ReportsInit /\ [][ReportsNext]_reportVars

-----------------------------------------------------------------------------

Finished(v, kind) == report[v].kind = kind /\ report[v].stage = "answer"

\* The movements of wallet w between two positions of its ledger.
Between(w, first, last) ==
  SumFunction([n \in first + 1 .. last |-> Signed(ledger[w][n])])

\* Whatever a report's difference is, it is the movements that were committed
\* between its two reads, and nothing else: of a wallet at rest, reconcile says
\* inSync, and a dashboard's totals give its balance.
DifferencesExplained ==
  \A v \in Viewers :
    LET r == report[v] IN
      /\ Finished(v, "reconcile") => r.net - r.balance = Between(r.wallet, r.at, r.count)
      /\ Finished(v, "dashboard") =>
           r.deposited - r.withdrawn - r.balance = Between(r.wallet, r.at, r.count)

\* The dashboard shows every recent transaction with its ledger entry, and of
\* the transactions it has counted it shows the last ones or later ones.
ActivityComplete ==
  \A v \in Viewers :
    Finished(v, "dashboard") =>
      LET r == report[v] IN
        /\ r.entries = r.recent
        /\ Cardinality(r.recent) >= Min({r.count, RecentLimit})
        /\ \A n \in 1 .. r.count : n > Max(r.recent) - RecentLimit => n \in r.recent

=============================================================================
