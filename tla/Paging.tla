------------------------------- MODULE Paging -------------------------------
(***************************************************************************)
(* The two lists clients page through, a wallet's audit trail              *)
(* (LedgerService.getAuditTrail) and the transactions                      *)
(* (TransactionsService.findAll), both newest first by createdAt, with     *)
(* skip and limit, while documents are inserted.  createdAt is the clock   *)
(* of the process that makes the document, before its transaction commits, *)
(* so a document may appear below others that were visible before it.  The *)
(* sort has no second key: documents with one createdAt come in an order   *)
(* that every query chooses anew.  The total, counted by a second query at *)
(* once with the find, is not modelled: the client here goes on until a    *)
(* page is not full.                                                       *)
(***************************************************************************)
EXTENDS Integers, FiniteSets

CONSTANTS
  Documents,   \* the documents there may ever be
  Existing,    \* those there are when the client begins
  CreatedAt,   \* [Documents -> when each was made]
  Limit,       \* the page size the client asks for
  Pages        \* bound: pages it asks for

ASSUME PagingAssumption ==
  /\ Existing \subseteq Documents /\ IsFiniteSet(Existing)
  /\ CreatedAt \in [Documents -> Nat]
  /\ Limit \in Nat \ {0} /\ Pages \in Nat

VARIABLES
  visible,  \* the documents whose transactions have committed
  page,     \* the page to ask for next
  seen,     \* the pairs <<n, d>> of pages the client was given, and what was on them
  done      \* it has had a page that was not full

pagingVars == <<visible, page, seen, done>>

PagingInit ==
  /\ visible = Existing
  /\ page = 1 /\ seen = {} /\ done = FALSE

\* A transaction commits.
Insert ==
  /\ \E d \in Documents \ visible : visible' = visible \cup {d}
  /\ UNCHANGED <<page, seen, done>>

\* Mutant: the first page is page 0.
SkippedFromZero(n) == n * Limit

\* Mutant: every page begins with the last document of the page before.
SkippedOneShort(n) == (n - 1) * (Limit - 1)

\* skip((page - 1) * limit)
Skipped(n) == (n - 1) * Limit

\* What sort({ createdAt: -1 }) may have as the first k documents, or as all.
Firsts(k) ==
  {A \in SUBSET visible :
     /\ Cardinality(A) = IF k < Cardinality(visible) THEN k ELSE Cardinality(visible)
     /\ \A d \in A, e \in visible \ A : CreatedAt[d] >= CreatedAt[e]}

\* find(filter).sort().skip().limit()
Items(n) ==
  {items \in SUBSET visible :
     \E before \in Firsts(Skipped(n)) :
       before \cap items = {} /\ before \cup items \in Firsts(Skipped(n) + Limit)}

\* One request.
Get ==
  /\ ~done /\ page <= Pages
  /\ \E items \in Items(page) :
       /\ seen' = seen \cup ({page} \X items)
       /\ done' = (Cardinality(items) < Limit)
  /\ page' = page + 1
  /\ UNCHANGED visible

PagingNext == Insert \/ Get

-----------------------------------------------------------------------------

\* No other document has its createdAt.
Untied(d) == \A e \in visible \ {d} : CreatedAt[e] # CreatedAt[d]

Given(d) == \E s \in seen : s[2] = d

\* A client that pages forward to a page that is not full has been given every
\* document with a createdAt of its own that was there when it began, whatever
\* was inserted meanwhile and wherever: insertions push documents only to pages
\* it has still to read.  (Of documents with one createdAt it may miss some.)
NothingSkipped == done => \A d \in Existing : Untied(d) => Given(d)

Repeats == {s \in seen : Untied(s[2]) /\ \E r \in seen : r[1] < s[1] /\ r[2] = s[2]}

\* What of those it was given twice was pushed there: each insertion repeats at
\* most one document on the pages read after it.
RepeatsBounded == Cardinality(Repeats) <= Cardinality(visible \ Existing)

=============================================================================
