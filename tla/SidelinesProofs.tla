--------------------------- MODULE SidelinesProofs ---------------------------
(***************************************************************************)
(* What subscribers hear of the wallets and what a client that pages is    *)
(* given, for any number of processes, changes, documents and pages.       *)
(*                                                                         *)
(* Wallet events: what a process has published comes before what it has    *)
(* pending, and that before what its stream has still to deliver           *)
(* (InOrder).  Paging: the place of a document is the number of newer      *)
(* ones, however ties are listed; what a client was not given has its      *)
(* place on the pages it has still to ask for (StillToCome), and what was  *)
(* pushed there was paid for by an insertion (RepeatsPaid).                *)
(***************************************************************************)
EXTENDS Sidelines, SequenceTheorems, FiniteSetTheorems, TLAPS

-----------------------------------------------------------------------------
(* Wallet events.                                                           *)

Committed == [wallet : Wallets, op : {"insert", "update"}]
Snapshot == [change : Nat, by : Processes, conn : Nat]

Kept ==
  /\ log \in Seq(Committed)
  /\ stage \in [Processes -> {"down", "subscribed", "watching"}]
  /\ at \in [Processes -> Nat] /\ opened \in [Processes -> Nat]
  /\ \A p \in Processes : opened[p] <= at[p] /\ at[p] <= Len(log)
  /\ pending \in [Processes -> Seq(Nat)]
  /\ executed \in [Processes -> Nat] /\ conn \in [Processes -> Nat]
  /\ \A p \in Processes : executed[p] <= Len(pending[p])
  /\ heard \in [Processes -> Seq(Snapshot)]

\* The pending changes q of a process that was told of k changes.
PendingInOrder(q, k, L) ==
  /\ \A i \in 1 .. Len(q) : 0 < q[i] /\ q[i] <= k /\ L[q[i]].op = "update"
  /\ \A i, j \in 1 .. Len(q) : i < j => q[i] < q[j]

\* What a subscriber heard, g, of a process p that was told of k changes and has
\* the pending changes q, of which Redis executed n on its connection c.
HeardInOrder(g, p, q, n, c, k) ==
  /\ \A i \in 1 .. Len(g) : g[i].by = p =>
       /\ g[i].change <= k /\ g[i].conn <= c
       /\ g[i].conn = c => \A j \in n + 1 .. Len(q) : g[i].change < q[j]
  /\ \A i, j \in 1 .. Len(g) : i < j /\ g[i].by = p /\ g[j].by = p =>
       g[i].change < g[j].change \/ g[i].conn < g[j].conn

HeardUpdates(g, L) ==
  \A i \in 1 .. Len(g) : 0 < g[i].change /\ g[i].change <= Len(L) /\ L[g[i].change].op = "update"

InOrder ==
  /\ Kept
  /\ \A s \in Processes : HeardUpdates(heard[s], log)
  /\ \A p \in Processes :
       /\ PendingInOrder(pending[p], at[p], log)
       /\ \A s \in Processes : HeardInOrder(heard[s], p, pending[p], executed[p], conn[p], at[p])

\* With more changes delivered, and on the same connection of the pending ones
\* only some left and new ones added, what a subscriber heard is still in order.
LEMMA HeardStays ==
  ASSUME NEW g, NEW p, NEW q, NEW n, NEW c \in Nat, NEW k \in Nat,
         NEW r, NEW m, NEW d \in Nat, NEW l \in Nat, k <= l,
         \A i \in 1 .. Len(g) : g[i].change \in Nat /\ g[i].conn \in Nat,
         \/ c < d
         \/ c = d /\ \A j \in m + 1 .. Len(r) :
              r[j] \in Nat /\ (k < r[j] \/ \E i \in n + 1 .. Len(q) : r[j] = q[i]),
         HeardInOrder(g, p, q, n, c, k)
  PROVE  HeardInOrder(g, p, r, m, d, l)
<1>1. ASSUME NEW i \in 1 .. Len(g), g[i].by = p
      PROVE  /\ g[i].change <= l /\ g[i].conn <= d
             /\ g[i].conn = d => \A j \in m + 1 .. Len(r) : g[i].change < r[j]
  <2>1. PICK v \in Nat : v = g[i].change
    OBVIOUS
  <2>2. PICK e \in Nat : e = g[i].conn
    OBVIOUS
  <2>3. v <= k /\ e <= c /\ (e = c => \A j \in n + 1 .. Len(q) : v < q[j])
    BY <1>1, <2>1, <2>2 DEF HeardInOrder
  <2>4. v <= l /\ e <= d
    BY <2>3
  <2>5. CASE c < d
    BY <2>1, <2>2, <2>3, <2>4, <2>5
  <2>6. CASE c = d /\ \A j \in m + 1 .. Len(r) :
               r[j] \in Nat /\ (k < r[j] \/ \E j2 \in n + 1 .. Len(q) : r[j] = q[j2])
    <3>1. ASSUME e = d, NEW j \in m + 1 .. Len(r)
          PROVE  v < r[j]
      <4>1. PICK z \in Nat : z = r[j]
        BY <2>6
      <4>2. k < z \/ v < z
        BY <2>3, <2>6, <3>1, <4>1
      <4> QED BY <2>3, <4>1, <4>2
    <3> QED BY <2>1, <2>2, <2>4, <3>1
  <2> QED BY <2>5, <2>6
<1> QED BY <1>1 DEF HeardInOrder

\* A snapshot of another process changes nothing, and one of p is in order if
\* it was the first that was not executed.
LEMMA HeardMore ==
  ASSUME NEW g \in Seq(Snapshot), NEW p, NEW q, NEW n, NEW c \in Nat, NEW k,
         NEW x \in Snapshot, HeardInOrder(g, p, q, n, c, k),
         x.by = p =>
           /\ x.change <= k /\ x.conn = c /\ \A j \in n + 1 .. Len(q) : x.change < q[j]
           /\ \A i \in 1 .. Len(g) : g[i].by = p /\ g[i].conn = c => g[i].change < x.change
  PROVE  HeardInOrder(Append(g, x), p, q, n, c, k)
<1>1. PICK h : h = Append(g, x)
  OBVIOUS
<1>2. /\ Len(g) \in Nat /\ Len(h) = Len(g) + 1 /\ h[Len(g) + 1] = x
      /\ \A i \in 1 .. Len(g) : h[i] = g[i]
  BY <1>1, AppendProperties, LenProperties
<1>3. \A i \in 1 .. Len(h) : i = Len(g) + 1 \/ i \in 1 .. Len(g)
  BY <1>2
<1>4. ASSUME NEW i \in 1 .. Len(h), h[i].by = p
      PROVE  /\ h[i].change <= k /\ h[i].conn <= c
             /\ h[i].conn = c => \A j \in n + 1 .. Len(q) : h[i].change < q[j]
  <2>1. CASE i \in 1 .. Len(g)
    BY <1>2, <1>4, <2>1 DEF HeardInOrder
  <2>2. CASE i = Len(g) + 1
    BY <1>2, <1>4, <2>2
  <2> QED BY <1>3, <2>1, <2>2
<1>5. ASSUME NEW i \in 1 .. Len(h), NEW j \in 1 .. Len(h), i < j, h[i].by = p, h[j].by = p
      PROVE  h[i].change < h[j].change \/ h[i].conn < h[j].conn
  <2>1. i \in 1 .. Len(g)
    BY <1>2, <1>3, <1>5
  <2>2. CASE j \in 1 .. Len(g)
    BY <1>2, <1>5, <2>1, <2>2 DEF HeardInOrder
  <2>3. CASE j = Len(g) + 1
    <3>1. h[i] = g[i] /\ h[j] = x /\ g[i] \in Snapshot
      BY <1>2, <2>1, <2>3, ElementOfSeq
    <3>2. x.by = p /\ g[i].by = p
      BY <1>5, <3>1
    <3>3. PICK e \in Nat : e = g[i].conn
      BY <3>1 DEF Snapshot
    <3>4. e <= c
      BY <2>1, <3>2, <3>3 DEF HeardInOrder
    <3>5. e < c \/ g[i].change < x.change
      BY <2>1, <3>2, <3>3, <3>4
    <3> QED BY <3>1, <3>2, <3>3, <3>5
  <2> QED BY <1>3, <2>2, <2>3
<1>6. HeardInOrder(h, p, q, n, c, k)
  BY <1>4, <1>5 DEF HeardInOrder
<1> QED BY <1>1, <1>6

LEMMA PendingStays ==
  ASSUME NEW q \in Seq(Nat), NEW k \in Nat, NEW m \in Nat, k <= m, NEW L,
         PendingInOrder(q, k, L)
  PROVE  PendingInOrder(q, m, L)
<1>1. ASSUME NEW i \in 1 .. Len(q)
      PROVE  0 < q[i] /\ q[i] <= m /\ L[q[i]].op = "update"
  <2>1. PICK n \in Nat : n = q[i]
    BY ElementOfSeq
  <2>2. 0 < n /\ n <= k /\ L[n].op = "update"
    BY <2>1 DEF PendingInOrder
  <2> QED BY <2>1, <2>2
<1> QED BY <1>1 DEF PendingInOrder

\* The next change comes last.
LEMMA PendingMore ==
  ASSUME NEW q \in Seq(Nat), NEW k \in Nat, NEW L, PendingInOrder(q, k, L),
         L[k + 1].op = "update"
  PROVE  PendingInOrder(Append(q, k + 1), k + 1, L)
<1>1. PICK r : r = Append(q, k + 1)
  OBVIOUS
<1>2. /\ Len(q) \in Nat /\ Len(r) = Len(q) + 1 /\ r[Len(q) + 1] = k + 1
      /\ \A i \in 1 .. Len(q) : r[i] = q[i]
  BY <1>1, AppendProperties, LenProperties
<1>3. ASSUME NEW i \in 1 .. Len(r)
      PROVE  \/ i = Len(q) + 1 /\ r[i] = k + 1
             \/ /\ i \in 1 .. Len(q) /\ r[i] = q[i] /\ q[i] \in Nat
                /\ 0 < q[i] /\ q[i] <= k /\ L[q[i]].op = "update"
  <2>1. i = Len(q) + 1 \/ i \in 1 .. Len(q)
    BY <1>2
  <2>2. i \in 1 .. Len(q) => q[i] \in Nat
    BY ElementOfSeq
  <2> QED BY <1>2, <2>1, <2>2 DEF PendingInOrder
<1>4. ASSUME NEW i \in 1 .. Len(r)
      PROVE  0 < r[i] /\ r[i] <= k + 1 /\ L[r[i]].op = "update"
  BY <1>3
<1>5. ASSUME NEW i \in 1 .. Len(r), NEW j \in 1 .. Len(r), i < j
      PROVE  r[i] < r[j]
  <2>1. i \in 1 .. Len(q) /\ r[i] = q[i] /\ q[i] \in Nat /\ q[i] <= k
    BY <1>2, <1>3, <1>5
  <2>2. CASE j \in 1 .. Len(q)
    BY <1>2, <1>5, <2>1, <2>2 DEF PendingInOrder
  <2>3. CASE j = Len(q) + 1
    BY <1>2, <2>1, <2>3
  <2> QED BY <1>2, <2>2, <2>3
<1>6. PendingInOrder(r, k + 1, L)
  BY <1>4, <1>5 DEF PendingInOrder
<1> QED BY <1>1, <1>6

\* The first is published.
LEMMA PendingLess ==
  ASSUME NEW q \in Seq(Nat), q # <<>>, NEW k, NEW L, PendingInOrder(q, k, L)
  PROVE  /\ PendingInOrder(Tail(q), k, L)
         /\ \A j \in 1 .. Len(Tail(q)) :
              /\ Tail(q)[j] \in Nat /\ Head(q) < Tail(q)[j]
              /\ \E i \in 1 .. Len(q) : Tail(q)[j] = q[i]
         /\ Head(q) \in Nat /\ Head(q) <= k
         /\ \E i \in 1 .. Len(q) : Head(q) = q[i]
         /\ Tail(q) \in Seq(Nat) /\ Len(Tail(q)) \in Nat
<1>1. PICK r : r = Tail(q)
  OBVIOUS
<1>2. PICK h : h = Head(q)
  OBVIOUS
<1>3. /\ Len(q) \in Nat \ {0} /\ r \in Seq(Nat) /\ Len(r) = Len(q) - 1 /\ h = q[1] /\ h \in Nat
      /\ \A j \in 1 .. Len(r) : r[j] = q[j + 1]
  BY <1>1, <1>2, HeadTailProperties, EmptySeq
<1>4. 1 \in 1 .. Len(q) /\ h <= k
  BY <1>3 DEF PendingInOrder
<1>5. ASSUME NEW j \in 1 .. Len(r)
      PROVE  /\ j + 1 \in 1 .. Len(q) /\ r[j] = q[j + 1] /\ r[j] \in Nat /\ h < r[j]
             /\ 0 < r[j] /\ r[j] <= k /\ L[r[j]].op = "update"
  <2>1. j + 1 \in 1 .. Len(q) /\ 1 < j + 1 /\ r[j] = q[j + 1]
    BY <1>3
  <2>2. r[j] \in Nat
    BY <1>3, ElementOfSeq
  <2>3. q[1] < q[j + 1]
    BY <1>4, <2>1 DEF PendingInOrder
  <2>4. 0 < q[j + 1] /\ q[j + 1] <= k /\ L[q[j + 1]].op = "update"
    BY <2>1 DEF PendingInOrder
  <2> QED BY <1>3, <2>1, <2>2, <2>3, <2>4
<1>6. ASSUME NEW i \in 1 .. Len(r), NEW j \in 1 .. Len(r), i < j
      PROVE  r[i] < r[j]
  <2>1. i + 1 \in 1 .. Len(q) /\ j + 1 \in 1 .. Len(q) /\ i + 1 < j + 1
    BY <1>5, <1>6
  <2>2. q[i + 1] < q[j + 1]
    BY <2>1 DEF PendingInOrder
  <2> QED BY <1>5, <2>2
<1>7. PendingInOrder(r, k, L)
  BY <1>5, <1>6 DEF PendingInOrder
<1>8. \A j \in 1 .. Len(r) : \E i \in 1 .. Len(q) : r[j] = q[i]
  BY <1>5
<1> QED BY <1>1, <1>2, <1>3, <1>4, <1>5, <1>7, <1>8

\* What the invariant says of one subscriber and one process.
LEMMA InOrderOf ==
  ASSUME InOrder, NEW p \in Processes, NEW s \in Processes
  PROVE  /\ at[p] \in Nat /\ pending[p] \in Seq(Nat) /\ heard[s] \in Seq(Snapshot)
         /\ executed[p] \in Nat /\ conn[p] \in Nat /\ executed[p] <= Len(pending[p])
         /\ Len(pending[p]) \in Nat /\ Len(heard[s]) \in Nat
         /\ \A i \in 1 .. Len(pending[p]) : pending[p][i] \in Nat
         /\ \A i \in 1 .. Len(heard[s]) :
              heard[s][i] \in Snapshot /\ heard[s][i].change \in Nat /\ heard[s][i].conn \in Nat
         /\ HeardInOrder(heard[s], p, pending[p], executed[p], conn[p], at[p])
         /\ HeardUpdates(heard[s], log)
         /\ PendingInOrder(pending[p], at[p], log)
<1>1. /\ at[p] \in Nat /\ pending[p] \in Seq(Nat) /\ heard[s] \in Seq(Snapshot)
      /\ executed[p] \in Nat /\ conn[p] \in Nat /\ executed[p] <= Len(pending[p])
  BY DEF InOrder, Kept
<1>2. /\ Len(pending[p]) \in Nat /\ Len(heard[s]) \in Nat
      /\ \A i \in 1 .. Len(pending[p]) : pending[p][i] \in Nat
      /\ \A i \in 1 .. Len(heard[s]) : heard[s][i] \in Snapshot
  BY <1>1, ElementOfSeq, LenProperties
<1>3. \A i \in 1 .. Len(heard[s]) : heard[s][i].change \in Nat /\ heard[s][i].conn \in Nat
  BY <1>2 DEF Snapshot
<1> QED BY <1>1, <1>2, <1>3 DEF InOrder

LEMMA InitInOrder == EventsInit => InOrder
<1> SUFFICES ASSUME EventsInit PROVE InOrder
  OBVIOUS
<1> USE DEF EventsInit
<1>1. \A S : <<>> \in Seq(S) /\ Len(<<>>) = 0
  BY EmptySeq
<1>2. Kept
  BY <1>1 DEF Kept
<1>3. \A p \in Processes : PendingInOrder(pending[p], at[p], log)
  BY <1>1 DEF PendingInOrder
<1>4. \A s \in Processes : Len(heard[s]) = 0
  BY <1>1
<1>5. \A p, s \in Processes :
        /\ HeardInOrder(heard[s], p, pending[p], executed[p], conn[p], at[p])
        /\ HeardUpdates(heard[s], log)
  BY <1>4 DEF HeardInOrder, HeardUpdates
<1> QED BY <1>2, <1>3, <1>5 DEF InOrder

\* A log that is longer says of the changes before the same.
LEMMA CommitKeeps ==
  ASSUME InOrder, NEW w \in Wallets, NEW op \in {"insert", "update"}, Commit(w, op)
  PROVE  InOrder'
<1>1. /\ log' = Append(log, [wallet |-> w, op |-> op]) /\ log \in Seq(Committed)
      /\ [wallet |-> w, op |-> op] \in Committed
      /\ UNCHANGED <<stage, at, opened, pending, executed, conn, heard>>
  BY DEF Commit, InOrder, Kept, Committed, publishing
<1>2. /\ log' \in Seq(Committed) /\ Len(log') = Len(log) + 1 /\ Len(log) \in Nat
      /\ \A n \in 1 .. Len(log) : log'[n] = log[n]
  BY <1>1, AppendProperties, LenProperties
<1>3. Kept'
  BY <1>1, <1>2 DEF InOrder, Kept
<1>4. ASSUME NEW p \in Processes
      PROVE  PendingInOrder(pending[p], at[p], log')
  <2>1. PendingInOrder(pending[p], at[p], log) /\ at[p] <= Len(log) /\ at[p] \in Nat
    BY DEF InOrder, Kept
  <2>2. \A i \in 1 .. Len(pending[p]) : pending[p][i] \in Nat
    BY InOrderOf
  <2> QED BY <1>2, <2>1, <2>2 DEF PendingInOrder
<1>5. ASSUME NEW s \in Processes
      PROVE  HeardUpdates(heard[s], log')
  <2>1. ASSUME NEW i \in 1 .. Len(heard[s])
        PROVE  /\ 0 < heard[s][i].change /\ heard[s][i].change <= Len(log')
               /\ log'[heard[s][i].change].op = "update"
    <3>1. PICK n \in Nat : n = heard[s][i].change
      BY InOrderOf
    <3>2. 0 < n /\ n <= Len(log) /\ log[n].op = "update"
      BY <3>1, InOrderOf DEF HeardUpdates
    <3>3. n \in 1 .. Len(log) /\ n <= Len(log')
      BY <1>2, <3>2
    <3> QED BY <1>2, <3>1, <3>2, <3>3
  <2> QED BY <2>1 DEF HeardUpdates
<1> QED BY <1>1, <1>3, <1>4, <1>5 DEF InOrder

\* Of what process p has pending and not executed, only some is left and new
\* changes are added, or its connection is a new one.
LeftOrNew(q) ==
  \/ conn[q] < conn'[q]
  \/ /\ conn[q] = conn'[q]
     /\ \A j \in executed'[q] + 1 .. Len(pending'[q]) :
          /\ pending'[q][j] \in Nat
          /\ \/ at[q] < pending'[q][j]
             \/ \E i \in executed[q] + 1 .. Len(pending[q]) : pending'[q][j] = pending[q][i]

\* A step of the publishing processes by which nobody hears anything.
LEMMA UnheardKeeps ==
  ASSUME InOrder, Kept', UNCHANGED <<log, heard>>,
         \A q \in Processes :
           at[q] <= at'[q] /\ PendingInOrder(pending'[q], at'[q], log) /\ LeftOrNew(q)
  PROVE  InOrder'
<1>1. ASSUME NEW q \in Processes, NEW s \in Processes
      PROVE  HeardInOrder(heard[s], q, pending'[q], executed'[q], conn'[q], at'[q])
  <2>1. /\ at[q] \in Nat /\ at'[q] \in Nat /\ at[q] <= at'[q]
        /\ conn[q] \in Nat /\ conn'[q] \in Nat
    BY DEF InOrder, Kept
  <2>2. PICK r, m, d, l : r = pending'[q] /\ m = executed'[q] /\ d = conn'[q] /\ l = at'[q]
    OBVIOUS
  <2>3. d \in Nat /\ l \in Nat /\ at[q] <= l
    BY <2>1, <2>2
  <2>4. \/ conn[q] < d
        \/ conn[q] = d /\ \A j \in m + 1 .. Len(r) :
             r[j] \in Nat /\ (at[q] < r[j] \/ \E i \in executed[q] + 1 .. Len(pending[q]) :
                                                r[j] = pending[q][i])
    BY <2>2 DEF LeftOrNew
  <2>5. /\ HeardInOrder(heard[s], q, pending[q], executed[q], conn[q], at[q])
        /\ \A i \in 1 .. Len(heard[s]) : heard[s][i].change \in Nat /\ heard[s][i].conn \in Nat
    BY InOrderOf
  <2>6. HeardInOrder(heard[s], q, r, m, d, l)
    BY <2>1, <2>3, <2>4, <2>5, HeardStays
  <2> QED BY <2>2, <2>6
<1>2. \A q \in Processes : PendingInOrder(pending'[q], at'[q], log)
  OBVIOUS
<1>3. \A s \in Processes : HeardUpdates(heard[s], log)
  BY DEF InOrder
<1> QED BY <1>1, <1>2, <1>3 DEF InOrder

\* A process that did nothing.
LEMMA OthersStay ==
  ASSUME InOrder, NEW q \in Processes,
         pending'[q] = pending[q], executed'[q] = executed[q], conn'[q] = conn[q], at'[q] = at[q]
  PROVE  at[q] <= at'[q] /\ PendingInOrder(pending'[q], at'[q], log) /\ LeftOrNew(q)
<1>1. /\ at[q] \in Nat /\ executed[q] \in Nat /\ Len(pending[q]) \in Nat
      /\ \A i \in 1 .. Len(pending[q]) : pending[q][i] \in Nat
  BY InOrderOf
<1>2. \A j \in executed[q] + 1 .. Len(pending[q]) : j \in 1 .. Len(pending[q])
  BY <1>1
<1>3. LeftOrNew(q)
  BY <1>1, <1>2 DEF LeftOrNew
<1> QED BY <1>1, <1>3, InOrderOf

\* A process subscribes or opens its stream.
LEMMA StageKeeps ==
  ASSUME InOrder, NEW p \in Processes, Subscribe(p) \/ Watch(p)
  PROVE  InOrder'
<1>1. /\ stage \in [Processes -> {"down", "subscribed", "watching"}]
      /\ at \in [Processes -> Nat] /\ opened \in [Processes -> Nat] /\ Len(log) \in Nat
      /\ \A q \in Processes : opened[q] <= at[q] /\ at[q] <= Len(log)
  BY LenProperties DEF InOrder, Kept
<1>2. /\ UNCHANGED <<log, pending, executed, conn, heard>>
      /\ stage' \in [Processes -> {"down", "subscribed", "watching"}]
      /\ \/ at' = at /\ opened' = opened
         \/ at' = [at EXCEPT ![p] = Len(log)] /\ opened' = [opened EXCEPT ![p] = Len(log)]
  BY <1>1 DEF Subscribe, Watch, publishing
<1>3. /\ at' \in [Processes -> Nat] /\ opened' \in [Processes -> Nat]
      /\ \A q \in Processes :
           at[q] <= at'[q] /\ at'[q] <= Len(log) /\ opened'[q] <= at'[q]
  <2>1. CASE at' = at /\ opened' = opened
    BY <1>1, <2>1
  <2>2. CASE at' = [at EXCEPT ![p] = Len(log)] /\ opened' = [opened EXCEPT ![p] = Len(log)]
    BY <1>1, <2>2
  <2> QED BY <1>2, <2>1, <2>2
<1>4. Kept'
  BY <1>2, <1>3 DEF InOrder, Kept
<1>5. ASSUME NEW q \in Processes
      PROVE  at[q] <= at'[q] /\ PendingInOrder(pending'[q], at'[q], log) /\ LeftOrNew(q)
  <2>1. at[q] \in Nat /\ at'[q] \in Nat /\ at[q] <= at'[q]
    BY <1>1, <1>3
  <2>2. /\ pending[q] \in Seq(Nat) /\ PendingInOrder(pending[q], at[q], log)
        /\ executed[q] \in Nat /\ Len(pending[q]) \in Nat
        /\ \A i \in 1 .. Len(pending[q]) : pending[q][i] \in Nat
    BY InOrderOf
  <2>3. PendingInOrder(pending[q], at'[q], log)
    BY <2>1, <2>2, PendingStays
  <2>4. \A j \in executed[q] + 1 .. Len(pending[q]) : j \in 1 .. Len(pending[q])
    BY <2>2
  <2>5. LeftOrNew(q)
    BY <1>2, <2>2, <2>4 DEF LeftOrNew
  <2> QED BY <1>2, <2>1, <2>3, <2>5
<1> QED BY <1>2, <1>4, <1>5, UnheardKeeps

\* A process dies, or connects again.
LEMMA LossKeeps ==
  ASSUME InOrder, NEW p \in Processes, Die(p) \/ Reconnects(p)
  PROVE  InOrder'
<1>1. /\ stage \in [Processes -> {"down", "subscribed", "watching"}]
      /\ pending \in [Processes -> Seq(Nat)] /\ executed \in [Processes -> Nat]
      /\ conn \in [Processes -> Nat]
  BY DEF InOrder, Kept
<1>2. /\ UNCHANGED <<log, at, opened, heard>>
      /\ stage' \in [Processes -> {"down", "subscribed", "watching"}]
      /\ executed' = [executed EXCEPT ![p] = 0]
      /\ \/ conn' = conn /\ pending' = [pending EXCEPT ![p] = <<>>]
         \/ conn' = [conn EXCEPT ![p] = conn[p] + 1] /\ pending' = pending
  BY <1>1 DEF Die, Reconnects
<1>3. <<>> \in Seq(Nat) /\ Len(<<>>) = 0
  BY EmptySeq
<1>4. /\ executed' \in [Processes -> Nat] /\ executed'[p] = 0
      /\ conn' \in [Processes -> Nat] /\ pending' \in [Processes -> Seq(Nat)]
      /\ \/ conn'[p] = conn[p] /\ pending'[p] = <<>>
         \/ conn[p] < conn'[p] /\ pending'[p] = pending[p]
      /\ \A q \in Processes \ {p} :
           conn'[q] = conn[q] /\ pending'[q] = pending[q] /\ executed'[q] = executed[q]
  <2>1. /\ executed' \in [Processes -> Nat] /\ executed'[p] = 0
        /\ \A q \in Processes \ {p} : executed'[q] = executed[q]
    BY <1>1, <1>2
  <2>2. CASE conn' = conn /\ pending' = [pending EXCEPT ![p] = <<>>]
    <3>1. pending' \in [Processes -> Seq(Nat)] /\ pending'[p] = <<>>
      BY <1>1, <1>3, <2>2
    <3> QED BY <1>1, <2>1, <2>2, <3>1
  <2>3. CASE conn' = [conn EXCEPT ![p] = conn[p] + 1] /\ pending' = pending
    <3>1. PICK c \in Nat : c = conn[p]
      BY <1>1
    <3>2. c + 1 \in Nat /\ c < c + 1
      OBVIOUS
    <3>3. /\ conn' \in [Processes -> Nat] /\ conn'[p] = c + 1
          /\ \A q \in Processes \ {p} : conn'[q] = conn[q]
      BY <1>1, <2>3, <3>1, <3>2
    <3> QED BY <1>1, <2>1, <2>3, <3>1, <3>2, <3>3
  <2> QED BY <1>2, <2>2, <2>3
<1>5. Kept'
  <2>1. ASSUME NEW q \in Processes
        PROVE  executed'[q] <= Len(pending'[q])
    <3>1. Len(pending'[q]) \in Nat
      BY <1>4, LenProperties
    <3>2. CASE q = p
      BY <1>4, <3>1, <3>2
    <3>3. CASE q # p
      BY <1>4, <3>3, InOrderOf
    <3> QED BY <3>2, <3>3
  <2> QED BY <1>2, <1>4, <2>1 DEF InOrder, Kept
<1>6. ASSUME NEW q \in Processes
      PROVE  at[q] <= at'[q] /\ PendingInOrder(pending'[q], at'[q], log) /\ LeftOrNew(q)
  <2>1. CASE q # p
    BY <1>2, <1>4, <2>1, OthersStay
  <2>2. CASE q = p
    <3>1. at[p] \in Nat /\ at'[p] = at[p]
      BY <1>2, InOrderOf
    <3>2. CASE conn'[p] = conn[p] /\ pending'[p] = <<>>
      <4>1. 1 .. Len(pending'[p]) = {} /\ executed'[p] + 1 .. Len(pending'[p]) = {}
        BY <1>3, <1>4, <3>2
      <4>2. PendingInOrder(pending'[p], at'[p], log)
        BY <4>1 DEF PendingInOrder
      <4>3. LeftOrNew(p)
        BY <3>2, <4>1 DEF LeftOrNew
      <4> QED BY <2>2, <3>1, <4>2, <4>3
    <3>3. CASE conn[p] < conn'[p] /\ pending'[p] = pending[p]
      <4>1. PendingInOrder(pending'[p], at'[p], log)
        BY <3>1, <3>3, InOrderOf
      <4> QED BY <2>2, <3>1, <3>3, <4>1 DEF LeftOrNew
    <3> QED BY <1>4, <3>2, <3>3
  <2> QED BY <2>1, <2>2
<1> QED BY <1>2, <1>5, <1>6, UnheardKeeps

LEMMA ChangeKeeps ==
  ASSUME InOrder, NEW p \in Processes, Change(p)
  PROVE  InOrder'
<1>1. /\ at \in [Processes -> Nat] /\ pending \in [Processes -> Seq(Nat)]
      /\ Len(log) \in Nat /\ at[p] < Len(log)
      /\ at' = [at EXCEPT ![p] = at[p] + 1]
      /\ pending' = [pending EXCEPT ![p] = Takes(p, log[at[p] + 1])]
      /\ UNCHANGED <<log, stage, opened, executed, conn, heard>>
  BY LenProperties DEF Change, InOrder, Kept
<1>2. PICK k : k = at[p] + 1
  OBVIOUS
<1>3. k \in Nat /\ 0 < k /\ k <= Len(log) /\ k = at[p] + 1 /\ at'[p] = k
  BY <1>1, <1>2
<1>4. pending'[p] = pending[p] \/ (pending'[p] = Append(pending[p], k) /\ log[k].op = "update")
  BY <1>1, <1>2 DEF Takes
<1>5. /\ Append(pending[p], k) \in Seq(Nat) /\ Len(Append(pending[p], k)) = Len(pending[p]) + 1
      /\ \A i \in 1 .. Len(pending[p]) : Append(pending[p], k)[i] = pending[p][i]
      /\ Append(pending[p], k)[Len(pending[p]) + 1] = k
      /\ Len(pending[p]) \in Nat
  BY <1>1, <1>3, AppendProperties, LenProperties
<1>6. \A q \in Processes \ {p} : pending'[q] = pending[q] /\ at'[q] = at[q]
  BY <1>1
<1>7. at' \in [Processes -> Nat] /\ pending' \in [Processes -> Seq(Nat)]
  <2>1. pending'[p] \in Seq(Nat)
    BY <1>1, <1>4, <1>5
  <2> QED BY <1>1, <1>3, <2>1
<1>8. Kept'
  <2>1. \A q \in Processes : opened[q] <= at'[q] /\ at'[q] <= Len(log)
    BY <1>1, <1>3, <1>6 DEF InOrder, Kept
  <2>2. ASSUME NEW q \in Processes
        PROVE  executed[q] <= Len(pending'[q])
    <3>1. executed[q] \in Nat /\ executed[q] <= Len(pending[q]) /\ Len(pending[q]) \in Nat
      BY InOrderOf
    <3>2. Len(pending'[q]) = Len(pending[q]) \/ Len(pending'[q]) = Len(pending[q]) + 1
      BY <1>4, <1>5, <1>6
    <3> QED BY <3>1, <3>2
  <2> QED BY <1>1, <1>7, <2>1, <2>2 DEF InOrder, Kept
<1>9. ASSUME NEW q \in Processes
      PROVE  at[q] <= at'[q] /\ PendingInOrder(pending'[q], at'[q], log) /\ LeftOrNew(q)
  <2>1. CASE q # p
    BY <1>1, <1>6, <2>1, OthersStay
  <2>2. CASE q = p
    <3>1. at[p] \in Nat /\ at[p] <= at'[p]
      BY <1>1, <1>3
    <3>2. PendingInOrder(pending'[p], at'[p], log)
      <4>1. pending[p] \in Seq(Nat) /\ PendingInOrder(pending[p], at[p], log)
        BY InOrderOf
      <4>2. PendingInOrder(pending[p], at'[p], log)
        BY <1>3, <3>1, <4>1, PendingStays
      <4>3. log[at[p] + 1].op = "update"
              => PendingInOrder(Append(pending[p], at[p] + 1), at[p] + 1, log)
        BY <3>1, <4>1, PendingMore
      <4> QED BY <1>3, <1>4, <4>2, <4>3
    <3>3. /\ executed[p] \in Nat /\ Len(pending[p]) \in Nat
          /\ \A i \in 1 .. Len(pending[p]) : pending[p][i] \in Nat
      BY InOrderOf
    <3>4. ASSUME NEW j \in executed[p] + 1 .. Len(pending'[p])
          PROVE  /\ pending'[p][j] \in Nat
                 /\ \/ at[p] < pending'[p][j]
                    \/ \E i \in executed[p] + 1 .. Len(pending[p]) : pending'[p][j] = pending[p][i]
      <4>1. CASE j \in executed[p] + 1 .. Len(pending[p])
        <5>1. j \in 1 .. Len(pending[p])
          BY <3>3, <4>1
        <5>2. pending'[p][j] = pending[p][j] /\ pending[p][j] \in Nat
          BY <1>4, <1>5, <3>3, <5>1
        <5> QED BY <4>1, <5>2
      <4>2. CASE j \notin executed[p] + 1 .. Len(pending[p])
        <5>1. Len(pending'[p]) = Len(pending[p]) + 1 /\ j = Len(pending[p]) + 1
          <6>1. Len(pending'[p]) = Len(pending[p]) \/ Len(pending'[p]) = Len(pending[p]) + 1
            BY <1>4, <1>5
          <6> QED BY <3>3, <3>4, <4>2, <6>1
        <5>2. pending'[p][j] = k
          BY <1>4, <1>5, <5>1
        <5> QED BY <1>1, <1>3, <5>2
      <4> QED BY <4>1, <4>2
    <3>5. LeftOrNew(p)
      BY <1>1, <3>4 DEF LeftOrNew
    <3> QED BY <2>2, <3>1, <3>2, <3>5
  <2> QED BY <2>1, <2>2
<1> QED BY <1>1, <1>8, <1>9, UnheardKeeps

LEMMA AnsweredKeeps ==
  ASSUME InOrder, NEW p \in Processes, Answered(p)
  PROVE  InOrder'
<1>1. PICK q : q = pending[p]
  OBVIOUS
<1>2. PICK n : n = executed[p]
  OBVIOUS
<1>3. /\ pending \in [Processes -> Seq(Nat)] /\ executed \in [Processes -> Nat]
      /\ pending' = [pending EXCEPT ![p] = Tail(q)] /\ executed' = [executed EXCEPT ![p] = n - 1]
      /\ n \in Nat /\ n > 0 /\ n <= Len(q) /\ q \in Seq(Nat)
      /\ UNCHANGED <<log, stage, at, opened, conn, heard>>
  BY <1>1, <1>2 DEF Answered, InOrder, Kept
<1>4. Len(q) \in Nat /\ q # <<>>
  BY <1>3, LenProperties, EmptySeq
<1>5. PICK r : r = Tail(q)
  OBVIOUS
<1>6. /\ r \in Seq(Nat) /\ Len(r) = Len(q) - 1 /\ Len(r) \in Nat
      /\ \A j \in 1 .. Len(r) : r[j] = q[j + 1] /\ r[j] \in Nat
  BY <1>3, <1>4, <1>5, HeadTailProperties, ElementOfSeq
<1>7. /\ pending'[p] = r /\ executed'[p] = n - 1
      /\ pending' \in [Processes -> Seq(Nat)] /\ executed' \in [Processes -> Nat]
      /\ \A o \in Processes \ {p} : pending'[o] = pending[o] /\ executed'[o] = executed[o]
  BY <1>3, <1>5, <1>6
<1>8. Kept'
  <2>1. ASSUME NEW o \in Processes
        PROVE  executed'[o] <= Len(pending'[o])
    <3>1. CASE o = p
      BY <1>3, <1>4, <1>6, <1>7, <3>1
    <3>2. CASE o # p
      BY <1>7, <3>2, InOrderOf
    <3> QED BY <3>1, <3>2
  <2> QED BY <1>3, <1>7, <2>1 DEF InOrder, Kept
<1>9. ASSUME NEW o \in Processes
      PROVE  at[o] <= at'[o] /\ PendingInOrder(pending'[o], at'[o], log) /\ LeftOrNew(o)
  <2>1. CASE o # p
    BY <1>3, <1>7, <2>1, OthersStay
  <2>2. CASE o = p
    <3>1. at[p] \in Nat /\ at'[p] = at[p] /\ PendingInOrder(q, at[p], log)
      BY <1>1, <1>3, InOrderOf
    <3>2. PendingInOrder(r, at[p], log)
      BY <1>3, <1>4, <1>5, <3>1, PendingLess
    <3>3. ASSUME NEW j \in n - 1 + 1 .. Len(r)
          PROVE  r[j] \in Nat /\ \E i \in n + 1 .. Len(q) : r[j] = q[i]
      <4>1. j \in 1 .. Len(r) /\ j + 1 \in n + 1 .. Len(q)
        BY <1>3, <1>4, <1>6
      <4> QED BY <1>6, <4>1
    <3>4. LeftOrNew(p)
      BY <1>1, <1>2, <1>3, <1>7, <3>3 DEF LeftOrNew
    <3> QED BY <1>7, <2>2, <3>1, <3>2, <3>4
  <2> QED BY <2>1, <2>2
<1> QED BY <1>3, <1>8, <1>9, UnheardKeeps

LEMMA PublishKeeps ==
  ASSUME InOrder, NEW p \in Processes, Publish(p)
  PROVE  InOrder'
<1>1. PICK q : q = pending[p]
  OBVIOUS
<1>2. PICK n : n = executed[p]
  OBVIOUS
<1>3. PICK k : k = q[n + 1]
  OBVIOUS
<1>4. PICK c : c = conn[p]
  OBVIOUS
<1>5. /\ heard \in [Processes -> Seq(Snapshot)] /\ executed \in [Processes -> Nat]
      /\ n < Len(q) /\ executed' = [executed EXCEPT ![p] = n + 1]
      /\ UNCHANGED <<log, stage, at, opened, pending, conn>>
  BY <1>1, <1>2 DEF Publish, InOrder, Kept
<1>6. /\ n \in Nat /\ c \in Nat /\ q \in Seq(Nat) /\ Len(q) \in Nat /\ at[p] \in Nat
      /\ PendingInOrder(q, at[p], log) /\ at[p] <= Len(log) /\ Len(log) \in Nat
      /\ \A i \in 1 .. Len(q) : q[i] \in Nat
  BY <1>1, <1>2, <1>4, InOrderOf, LenProperties DEF InOrder, Kept
<1>7. n + 1 \in 1 .. Len(q) /\ n + 1 \in n + 1 .. Len(q)
  BY <1>5, <1>6
<1>8. /\ k \in Nat /\ 0 < k /\ k <= at[p] /\ log[k].op = "update"
      /\ \A j \in n + 1 + 1 .. Len(q) : k < q[j]
  <2>1. k \in Nat /\ 0 < k /\ k <= at[p] /\ log[k].op = "update"
    BY <1>3, <1>6, <1>7 DEF PendingInOrder
  <2>2. ASSUME NEW j \in n + 1 + 1 .. Len(q)
        PROVE  k < q[j]
    <3>1. j \in 1 .. Len(q) /\ n + 1 < j
      BY <1>6
    <3> QED BY <1>3, <1>6, <1>7, <3>1 DEF PendingInOrder
  <2> QED BY <2>1, <2>2
<1>9. PICK x : x = [change |-> k, by |-> p, conn |-> c]
  OBVIOUS
<1>10. x \in Snapshot /\ x.change = k /\ x.by = p /\ x.conn = c
  BY <1>6, <1>8, <1>9 DEF Snapshot
<1>11. /\ heard' = [s \in Processes |-> heard'[s]]
       /\ \A s \in Processes : heard'[s] = heard[s] \/ heard'[s] = Append(heard[s], x)
  BY <1>1, <1>2, <1>3, <1>4, <1>9 DEF Publish, Told
<1>12. \A s \in Processes :
         /\ Append(heard[s], x) \in Seq(Snapshot) /\ Len(heard[s]) \in Nat
         /\ Len(Append(heard[s], x)) = Len(heard[s]) + 1
         /\ \A i \in 1 .. Len(heard[s]) : Append(heard[s], x)[i] = heard[s][i]
         /\ Append(heard[s], x)[Len(heard[s]) + 1] = x
  BY <1>5, <1>10, AppendProperties, LenProperties
<1>13. /\ executed' \in [Processes -> Nat] /\ executed'[p] = n + 1
       /\ \A o \in Processes \ {p} : executed'[o] = executed[o]
  BY <1>5, <1>6
<1>14. Kept'
  <2>1. \A s \in Processes : heard'[s] \in Seq(Snapshot)
    BY <1>5, <1>11, <1>12
  <2>2. heard' \in [Processes -> Seq(Snapshot)]
    BY <1>11, <2>1
  <2>3. ASSUME NEW o \in Processes
        PROVE  executed'[o] <= Len(pending[o])
    <3>1. CASE o = p
      BY <1>1, <1>5, <1>6, <1>13, <3>1
    <3>2. CASE o # p
      BY <1>13, <3>2, InOrderOf
    <3> QED BY <3>1, <3>2
  <2> QED BY <1>5, <1>13, <2>2, <2>3 DEF InOrder, Kept
<1>15. ASSUME NEW s \in Processes
       PROVE  HeardUpdates(heard'[s], log)
  <2>1. HeardUpdates(heard[s], log)
    BY InOrderOf
  <2>2. CASE heard'[s] = heard[s]
    BY <2>1, <2>2
  <2>3. CASE heard'[s] = Append(heard[s], x)
    <3>1. PICK h : h = heard'[s]
      OBVIOUS
    <3>2. k <= Len(log)
      BY <1>6, <1>8
    <3>3. ASSUME NEW i \in 1 .. Len(h)
          PROVE  0 < h[i].change /\ h[i].change <= Len(log) /\ log[h[i].change].op = "update"
      <4>1. i = Len(heard[s]) + 1 \/ i \in 1 .. Len(heard[s])
        BY <1>12, <2>3, <3>1
      <4>2. CASE i = Len(heard[s]) + 1
        BY <1>8, <1>10, <1>12, <2>3, <3>1, <3>2, <4>2
      <4>3. CASE i \in 1 .. Len(heard[s])
        <5>1. h[i] = heard[s][i]
          BY <1>12, <2>3, <3>1, <4>3
        <5> QED BY <2>1, <4>3, <5>1 DEF HeardUpdates
      <4> QED BY <4>1, <4>2, <4>3
    <3> QED BY <3>1, <3>3 DEF HeardUpdates
  <2> QED BY <1>11, <2>2, <2>3
<1>16. ASSUME NEW o \in Processes, NEW s \in Processes
       PROVE  HeardInOrder(heard'[s], o, pending[o], executed'[o], conn[o], at[o])
  <2>1. /\ HeardInOrder(heard[s], o, pending[o], executed[o], conn[o], at[o])
        /\ \A i \in 1 .. Len(heard[s]) : heard[s][i].change \in Nat /\ heard[s][i].conn \in Nat
        /\ heard[s] \in Seq(Snapshot) /\ conn[o] \in Nat /\ at[o] \in Nat
    BY InOrderOf
  <2>2. CASE o # p
    <3>1. x.by # o /\ executed'[o] = executed[o]
      BY <1>10, <1>13, <2>2
    <3>2. HeardInOrder(Append(heard[s], x), o, pending[o], executed[o], conn[o], at[o])
      BY <1>10, <2>1, <3>1, HeardMore
    <3> QED BY <1>11, <2>1, <3>1, <3>2
  <2>3. CASE o = p
    <3>1. \A j \in n + 1 + 1 .. Len(q) : q[j] \in Nat /\ j \in n + 1 .. Len(q)
      BY <1>6
    <3>2. HeardInOrder(heard[s], p, q, n, c, at[p])
      BY <1>1, <1>2, <1>4, <2>1, <2>3
    <3>3. at[p] <= at[p]
      BY <1>6
    <3>4. c = c /\ \A j \in n + 1 + 1 .. Len(q) :
            q[j] \in Nat /\ (at[p] < q[j] \/ \E i \in n + 1 .. Len(q) : q[j] = q[i])
      BY <3>1
    <3>5. HeardInOrder(heard[s], p, q, n + 1, c, at[p])
      BY <1>6, <2>1, <3>2, <3>3, <3>4, HeardStays
    <3>6. \A i \in 1 .. Len(heard[s]) :
            heard[s][i].by = p /\ heard[s][i].conn = c => heard[s][i].change < k
      BY <1>3, <1>7, <3>2 DEF HeardInOrder
    <3>7. HeardInOrder(Append(heard[s], x), p, q, n + 1, c, at[p])
      BY <1>6, <1>8, <1>10, <2>1, <3>5, <3>6, HeardMore
    <3> QED BY <1>1, <1>4, <1>11, <1>13, <2>3, <3>5, <3>7
  <2> QED BY <2>2, <2>3
<1>17. \A o \in Processes : PendingInOrder(pending[o], at[o], log)
  BY DEF InOrder
<1> QED BY <1>5, <1>14, <1>15, <1>16, <1>17 DEF InOrder

LEMMA NextInOrder ==
  ASSUME InOrder, [Next]_vars
  PROVE  InOrder'
<1>1. CASE UNCHANGED eventVars
  BY <1>1 DEF eventVars, publishing, InOrder, Kept
<1>2. ASSUME EventsNext
      PROVE  InOrder'
  BY <1>2, CommitKeeps, StageKeeps, LossKeeps, ChangeKeeps, AnsweredKeeps, PublishKeeps
     DEF EventsNext
<1> QED BY <1>1, <1>2 DEF Next, Events, Rounding, Seeding, Probing, Listing, vars

LEMMA InOrderMeans == InOrder => EventsTypeOK /\ BackOnlyWhenSentAgain
<1> SUFFICES ASSUME InOrder PROVE EventsTypeOK /\ BackOnlyWhenSentAgain
  OBVIOUS
<1>1. /\ \A p \in Processes : DOMAIN pending[p] = 1 .. Len(pending[p])
      /\ \A s \in Processes : DOMAIN heard[s] = 1 .. Len(heard[s])
      /\ DOMAIN log = 1 .. Len(log) /\ Len(log) \in Nat
  BY LenProperties DEF InOrder, Kept
<1>2. ASSUME NEW n \in Nat, 0 < n, n <= Len(log), log[n].op = "update"
      PROVE  n \in Updates
  BY <1>1, <1>2 DEF Updates
<1>3. ASSUME NEW s \in Processes, NEW i \in DOMAIN heard[s]
      PROVE  /\ i \in 1 .. Len(heard[s]) /\ heard[s][i].by \in Processes
             /\ heard[s][i].change \in Nat
             /\ HeardInOrder(heard[s], heard[s][i].by, pending[heard[s][i].by],
                  executed[heard[s][i].by], conn[heard[s][i].by], at[heard[s][i].by])
  <2>1. i \in 1 .. Len(heard[s]) /\ heard[s][i] \in Snapshot
    BY <1>1, <1>3, InOrderOf
  <2>2. heard[s][i].by \in Processes /\ heard[s][i].change \in Nat
    BY <2>1 DEF Snapshot
  <2> QED BY <2>1, <2>2, InOrderOf
<1>4. ASSUME NEW p \in Processes
      PROVE  /\ executed[p] \in 0 .. Len(pending[p])
             /\ \A i \in DOMAIN pending[p] : pending[p][i] \in Updates /\ pending[p][i] <= at[p]
             /\ \A i \in DOMAIN heard[p] :
                  heard[p][i].change \in Updates /\ heard[p][i].change <= at[heard[p][i].by]
  <2>1. executed[p] \in 0 .. Len(pending[p])
    BY InOrderOf
  <2>2. ASSUME NEW i \in DOMAIN pending[p]
        PROVE  pending[p][i] \in Updates /\ pending[p][i] <= at[p]
    <3>1. PICK n \in Nat : n = pending[p][i]
      BY <1>1, InOrderOf
    <3>2. 0 < n /\ n <= at[p] /\ log[n].op = "update"
      BY <1>1, <3>1, InOrderOf DEF PendingInOrder
    <3>3. at[p] \in Nat /\ at[p] <= Len(log)
      BY DEF InOrder, Kept
    <3>4. n \in Updates
      BY <1>1, <1>2, <3>2, <3>3
    <3> QED BY <3>1, <3>2, <3>4
  <2>3. ASSUME NEW i \in DOMAIN heard[p]
        PROVE  heard[p][i].change \in Updates /\ heard[p][i].change <= at[heard[p][i].by]
    <3>1. PICK n \in Nat : n = heard[p][i].change
      BY <1>3
    <3>2. 0 < n /\ n <= Len(log) /\ log[n].op = "update"
      BY <1>3, <3>1, InOrderOf DEF HeardUpdates
    <3>3. heard[p][i].change <= at[heard[p][i].by]
      BY <1>3 DEF HeardInOrder
    <3> QED BY <1>2, <3>1, <3>2, <3>3
  <2> QED BY <2>1, <2>2, <2>3
<1>5. EventsTypeOK
  BY <1>4 DEF EventsTypeOK, InOrder, Kept, Committed
<1>6. ASSUME NEW s \in Processes, NEW i \in DOMAIN heard[s], NEW j \in DOMAIN heard[s],
             i < j, heard[s][i].by = heard[s][j].by
      PROVE  heard[s][i].change < heard[s][j].change \/ heard[s][i].conn < heard[s][j].conn
  BY <1>3, <1>6 DEF HeardInOrder
<1> QED BY <1>5, <1>6 DEF BackOnlyWhenSentAgain

\* Processes publish only balance changes that are committed and that their
\* stream has delivered, and subscribers hear no others.
THEOREM EventsAreTyped == Spec => []EventsTypeOK
<1> QED BY InitInOrder, NextInOrder, InOrderMeans, PTL DEF Spec, Init

\* However many processes publish, die and connect again, what a subscriber
\* hears of one goes forward on each of its connections.
THEOREM SnapshotsGoForward == Spec => []BackOnlyWhenSentAgain
<1> QED BY InitInOrder, NextInOrder, InOrderMeans, PTL DEF Spec, Init
-----------------------------------------------------------------------------
(* Paging.                                                                  *)

\* The documents newer than d, which every query lists before it.
Newer(d) == {e \in visible : CreatedAt[e] > CreatedAt[d]}

Listed ==
  /\ Existing \subseteq visible /\ visible \subseteq Documents /\ IsFiniteSet(visible)
  /\ page \in Nat \ {0} /\ done \in BOOLEAN
  /\ seen \subseteq (1 .. page - 1) \X visible

\* The place of a document that was there, and that the client was not given, is
\* on the pages it has still to read.
StillToCome ==
  \A d \in Existing :
    Untied(d) /\ (done \/ Cardinality(Newer(d)) < Skipped(page)) => Given(d)

\* The documents that the client was given and that were pushed to those pages.
Pushed ==
  {d \in visible : Untied(d) /\ Given(d) /\ Skipped(page) <= Cardinality(Newer(d))}

RepeatsPaid ==
  Cardinality(Repeats) + Cardinality(Pushed) <= Cardinality(visible \ Existing)

LEMMA NextPage ==
  ASSUME NEW p \in Nat \ {0}
  PROVE  Skipped(p) \in Nat /\ Skipped(p + 1) = Skipped(p) + Limit /\ Skipped(1) = 0
<1>1. PICK l \in Nat \ {0} : l = Limit
  BY PagingAssumption
<1>2. (p - 1) * l \in Nat /\ ((p + 1) - 1) * l = (p - 1) * l + l /\ (1 - 1) * l = 0
  BY SMT
<1> QED BY <1>1, <1>2 DEF Skipped

\* Of finite sets the larger has more members, and is the smaller if it has not.
LEMMA Fewer ==
  ASSUME NEW B, IsFiniteSet(B), NEW A, A \subseteq B
  PROVE  /\ IsFiniteSet(A) /\ Cardinality(A) \in Nat /\ Cardinality(B) \in Nat
         /\ Cardinality(A) <= Cardinality(B)
         /\ Cardinality(A) = Cardinality(B) => A = B
<1> QED BY FS_Subset, FS_CardinalityType

LEMMA NewerFinite ==
  ASSUME Listed, NEW d \in visible
  PROVE  /\ IsFiniteSet(Newer(d)) /\ Cardinality(Newer(d)) \in Nat
         /\ IsFiniteSet(Newer(d) \cup {d}) /\ Newer(d) \cup {d} \subseteq visible
         /\ Cardinality(Newer(d) \cup {d}) = Cardinality(Newer(d)) + 1
<1>1. CreatedAt[d] \in Nat
  BY PagingAssumption DEF Listed
<1>2. d \notin Newer(d) /\ Newer(d) \subseteq visible
  BY <1>1 DEF Newer
<1>3. PICK N : N = Newer(d)
  OBVIOUS
<1>4. IsFiniteSet(visible)
  BY DEF Listed
<1>5. IsFiniteSet(N) /\ Cardinality(N) \in Nat
  BY <1>2, <1>3, <1>4, Fewer
<1>6. IsFiniteSet(N \cup {d}) /\ Cardinality(N \cup {d}) = Cardinality(N) + 1
  BY <1>2, <1>3, <1>5, FS_AddElement
<1> QED BY <1>2, <1>3, <1>5, <1>6

\* Whatever order ties are listed in, a document with a createdAt of its own is
\* among the first k when fewer than k are newer, and only then.
LEMMA PlaceOf ==
  ASSUME Listed, NEW k \in Nat, NEW A \in Firsts(k), NEW d \in visible, Untied(d)
  PROVE  d \in A <=> Cardinality(Newer(d)) < k
<1>1. /\ A \subseteq visible
      /\ Cardinality(A) = IF k < Cardinality(visible) THEN k ELSE Cardinality(visible)
      /\ \A x \in A, e \in visible \ A : CreatedAt[x] >= CreatedAt[e]
  BY DEF Firsts
<1>2. PICK N, B : N = Newer(d) /\ B = Newer(d) \cup {d}
  OBVIOUS
<1>3. /\ IsFiniteSet(N) /\ Cardinality(N) \in Nat /\ IsFiniteSet(B) /\ B \subseteq visible
      /\ Cardinality(B) = Cardinality(N) + 1
  BY <1>2, NewerFinite
<1>4. IsFiniteSet(visible) /\ \A e \in visible : CreatedAt[e] \in Nat
  BY PagingAssumption DEF Listed
<1>5. IsFiniteSet(A) /\ Cardinality(A) \in Nat /\ Cardinality(visible) \in Nat
  BY <1>1, <1>4, Fewer
<1>6. ASSUME d \in A
      PROVE  Cardinality(N) < k
  <2>1. B \subseteq A
    BY <1>1, <1>2, <1>4, <1>6 DEF Newer
  <2>2. Cardinality(B) <= Cardinality(A)
    BY <1>5, <2>1, Fewer
  <2> QED BY <1>1, <1>3, <1>5, <2>2
<1>7. ASSUME d \notin A
      PROVE  ~(Cardinality(N) < k)
  <2>1. A \subseteq N
    BY <1>1, <1>2, <1>4, <1>7 DEF Newer, Untied
  <2>2. Cardinality(A) <= Cardinality(N)
    BY <1>3, <2>1, Fewer
  <2>3. Cardinality(B) <= Cardinality(visible)
    BY <1>3, <1>4, Fewer
  <2> QED BY <1>1, <1>3, <1>5, <2>2, <2>3
<1> QED BY <1>2, <1>6, <1>7

\* So it is on the page that its place is on, and on no other; and when a page is
\* not full, no place is beyond it.
LEMMA PageOf ==
  ASSUME Listed, NEW items \in Items(page), NEW d \in visible, Untied(d)
  PROVE  /\ d \in items <=> /\ Skipped(page) <= Cardinality(Newer(d))
                            /\ Cardinality(Newer(d)) < Skipped(page) + Limit
         /\ Cardinality(items) < Limit => Cardinality(Newer(d)) < Skipped(page) + Limit
<1>1. PICK k \in Nat : k = Skipped(page)
  BY NextPage DEF Listed
<1>2. PICK l \in Nat \ {0} : l = Limit
  BY PagingAssumption
<1>3. items \in SUBSET visible
  BY DEF Items
<1>4. PICK before \in Firsts(k) : before \cap items = {} /\ before \cup items \in Firsts(k + l)
  BY <1>1, <1>2 DEF Items
<1>5. PICK n \in Nat : n = Cardinality(Newer(d))
  BY NewerFinite
<1>6. d \in before <=> n < k
  BY <1>4, <1>5, PlaceOf
<1>7. PICK A : A = before \cup items
  OBVIOUS
<1>8. A \in Firsts(k + l) /\ k + l \in Nat
  BY <1>1, <1>2, <1>4, <1>7
<1>9. d \in A <=> n < k + l
  BY <1>5, <1>8, PlaceOf
<1>10. d \in items <=> k <= n /\ n < k + l
  BY <1>4, <1>6, <1>7, <1>9, <1>1, <1>5
<1>11. ASSUME Cardinality(items) < l
       PROVE  n < k + l
  <2>1. IsFiniteSet(visible) /\ before \subseteq visible /\ items \subseteq visible
    BY <1>3, <1>4 DEF Listed, Firsts
  <2>2. /\ IsFiniteSet(before) /\ Cardinality(before) \in Nat
        /\ IsFiniteSet(items) /\ Cardinality(items) \in Nat /\ Cardinality(visible) \in Nat
    BY <2>1, Fewer
  <2>3. Cardinality(before) <= k
    BY <1>1, <2>2, <1>4 DEF Firsts
  <2>4. Cardinality(A) = Cardinality(before) + Cardinality(items)
    <3>1. Cardinality(A) = Cardinality(before) + Cardinality(items) - Cardinality(before \cap items)
      BY <1>7, <2>2, FS_Union
    <3>2. Cardinality(before \cap items) = 0
      BY <1>4, FS_EmptySet
    <3> QED BY <2>2, <3>1, <3>2
  <2>5. /\ A \subseteq visible
        /\ Cardinality(A) = IF k + l < Cardinality(visible) THEN k + l ELSE Cardinality(visible)
    BY <1>8 DEF Firsts
  <2>6. Cardinality(A) = Cardinality(visible)
    BY <1>2, <1>11, <2>2, <2>3, <2>4, <2>5
  <2>7. A = visible
    BY <2>1, <2>5, <2>6, Fewer
  <2> QED BY <1>9, <2>7
<1> QED BY <1>1, <1>2, <1>5, <1>10, <1>11

LEMMA InitPaged == PagingInit => Listed /\ StillToCome /\ RepeatsPaid
<1> SUFFICES ASSUME PagingInit
             PROVE  Listed /\ StillToCome /\ RepeatsPaid
  OBVIOUS
<1>1. visible = Existing /\ page = 1
  BY DEF PagingInit
<1>2. seen = {}
  BY DEF PagingInit
<1>3. done = FALSE
  BY DEF PagingInit
<1>4. Listed
  <2>1. Existing \subseteq Documents /\ IsFiniteSet(Existing)
    BY PagingAssumption
  <2>2. page \in Nat \ {0}
    BY <1>1
  <2>3. done \in BOOLEAN
    BY <1>3
  <2>4. seen \subseteq (1 .. page - 1) \X visible
    BY <1>2
  <2> QED BY <1>1, <2>1, <2>2, <2>3, <2>4 DEF Listed
<1>5. Skipped(page) = 0
  <2>1. Skipped(1) = 0
    BY NextPage
  <2> QED BY <1>1, <2>1
<1>6. StillToCome
  <2> SUFFICES ASSUME NEW d \in Existing, done \/ Cardinality(Newer(d)) < 0
               PROVE  FALSE
    BY <1>5 DEF StillToCome
  <2>1. Cardinality(Newer(d)) \in Nat
    BY <1>1, <1>4, NewerFinite
  <2> QED BY <1>3, <2>1
<1>7. Repeats = {} /\ Pushed = {} /\ visible \ Existing = {}
  BY <1>1, <1>2 DEF Repeats, Pushed, Given
<1>8. RepeatsPaid
  BY <1>7, FS_EmptySet DEF RepeatsPaid
<1> QED BY <1>4, <1>6, <1>8

\* A transaction commits: the places of documents move by one at most, and only
\* to pages further on.
LEMMA Moves ==
  ASSUME Listed, NEW x \in Documents \ visible, visible' = visible \cup {x},
         NEW d \in visible
  PROVE  /\ Untied(d)' => Untied(d)
         /\ Cardinality(Newer(d)) <= Cardinality(Newer(d)')
         /\ Cardinality(Newer(d)') <= Cardinality(Newer(d)) + 1
         /\ Cardinality(Newer(d)') \in Nat
<1>1. Untied(d)' => Untied(d)
  BY DEF Untied
<1>2. PICK N, M : N = Newer(d) /\ M = Newer(d)'
  OBVIOUS
<1>3. IsFiniteSet(N) /\ Cardinality(N) \in Nat
  BY <1>2, NewerFinite
<1>4. x \notin N /\ (M = N \/ M = N \cup {x})
  BY <1>2 DEF Newer
<1>5. IsFiniteSet(N \cup {x}) /\ Cardinality(N \cup {x}) = Cardinality(N) + 1
  BY <1>3, <1>4, FS_AddElement
<1>6. /\ Cardinality(N) <= Cardinality(M) /\ Cardinality(M) <= Cardinality(N) + 1
      /\ Cardinality(M) \in Nat
  BY <1>3, <1>4, <1>5
<1> QED BY <1>1, <1>2, <1>6

\* No two documents with a createdAt of their own have one place.
LEMMA OnePlace ==
  ASSUME Listed, NEW d \in visible, NEW e \in visible, Untied(d), Untied(e),
         Cardinality(Newer(d)) = Cardinality(Newer(e))
  PROVE  d = e
<1>1. SUFFICES ASSUME d # e
               PROVE  FALSE
  OBVIOUS
<1>2. CreatedAt[d] # CreatedAt[e] /\ \A b \in visible : CreatedAt[b] \in Nat
  BY <1>1, PagingAssumption DEF Untied, Listed
<1>3. ASSUME NEW a \in visible, NEW b \in visible, CreatedAt[a] < CreatedAt[b]
      PROVE  Cardinality(Newer(b)) < Cardinality(Newer(a))
  <2>1. PICK A, B : A = Newer(a) /\ B = Newer(b) \cup {b}
    OBVIOUS
  <2>2. IsFiniteSet(A) /\ Cardinality(B) = Cardinality(Newer(b)) + 1
        /\ Cardinality(Newer(b)) \in Nat
    BY <2>1, NewerFinite
  <2>3. B \subseteq A
    BY <1>2, <1>3, <2>1 DEF Newer
  <2>4. Cardinality(B) <= Cardinality(A) /\ Cardinality(A) \in Nat
    BY <2>2, <2>3, Fewer
  <2> QED BY <2>1, <2>2, <2>4
<1>4. Cardinality(Newer(d)) \in Nat /\ Cardinality(Newer(e)) \in Nat
  BY NewerFinite
<1>5. CASE CreatedAt[d] < CreatedAt[e]
  <2>1. Cardinality(Newer(e)) < Cardinality(Newer(d))
    BY <1>3, <1>5
  <2> QED BY <1>4, <2>1
<1>6. CASE CreatedAt[e] < CreatedAt[d]
  <2>1. Cardinality(Newer(d)) < Cardinality(Newer(e))
    BY <1>3, <1>6
  <2> QED BY <1>4, <2>1
<1> QED BY <1>2, <1>5, <1>6

LEMMA SeenFinite ==
  ASSUME Listed
  PROVE  /\ IsFiniteSet(seen) /\ IsFiniteSet(Repeats) /\ IsFiniteSet(Pushed)
         /\ Cardinality(Repeats) \in Nat /\ Cardinality(Pushed) \in Nat
         /\ IsFiniteSet(visible \ Existing) /\ Cardinality(visible \ Existing) \in Nat
<1>1. PICK P : P = 1 .. page - 1
  OBVIOUS
<1>2. IsFiniteSet(P) /\ IsFiniteSet(visible)
  BY <1>1, FS_Interval DEF Listed
<1>3. IsFiniteSet(P \X visible)
  BY <1>2, FS_Product
<1>4. IsFiniteSet(seen)
  BY <1>1, <1>3, Fewer DEF Listed
<1>5. Repeats \subseteq seen /\ Pushed \subseteq visible /\ visible \ Existing \subseteq visible
  BY DEF Repeats, Pushed
<1> QED BY <1>2, <1>4, <1>5, Fewer

LEMMA InsertPaged ==
  Listed /\ StillToCome /\ RepeatsPaid /\ Insert => (Listed /\ StillToCome /\ RepeatsPaid)'
<1> SUFFICES ASSUME Listed, StillToCome, RepeatsPaid, Insert
             PROVE  Listed' /\ StillToCome' /\ RepeatsPaid'
  OBVIOUS
<1>1. PICK x \in Documents \ visible : visible' = visible \cup {x}
  BY DEF Insert
<1>2. page' = page /\ seen' = seen /\ done' = done
  BY DEF Insert
<1>3. IsFiniteSet(visible')
  BY <1>1, FS_AddElement DEF Listed
<1>4. Listed'
  BY <1>1, <1>2, <1>3 DEF Listed
<1>5. PICK k \in Nat : k = Skipped(page)
  BY NextPage DEF Listed
<1>6. Skipped(page)' = k /\ \A d : Given(d)' <=> Given(d)
  BY <1>2, <1>5 DEF Skipped, Given
<1>7. \A d \in visible : Cardinality(Newer(d)) \in Nat
  BY NewerFinite
<1>8. \A d \in visible :
        /\ Untied(d)' => Untied(d)
        /\ Cardinality(Newer(d)) <= Cardinality(Newer(d)')
        /\ Cardinality(Newer(d)') <= Cardinality(Newer(d)) + 1
        /\ Cardinality(Newer(d)') \in Nat
  BY <1>1, Moves
<1>9. StillToCome'
  <2> SUFFICES ASSUME NEW d \in Existing, Untied(d)',
                      done' \/ Cardinality(Newer(d)') < k
               PROVE  Given(d)
    BY <1>6 DEF StillToCome
  <2>1. d \in visible
    BY DEF Listed
  <2>2. Untied(d) /\ (done \/ Cardinality(Newer(d)) < k)
    BY <1>2, <1>5, <1>7, <1>8, <2>1
  <2> QED BY <1>5, <2>2 DEF StillToCome
<1>10. \A s \in seen : s[2] \in visible
  BY DEF Listed
<1>11. Repeats' \subseteq Repeats
  BY <1>2, <1>8, <1>10 DEF Repeats
<1>12. \A d \in Pushed' \ Pushed : d \in visible /\ Untied(d) /\ Cardinality(Newer(d)) + 1 = k
  <2> SUFFICES ASSUME NEW d \in Pushed', d \notin Pushed
               PROVE  d \in visible /\ Untied(d) /\ Cardinality(Newer(d)) + 1 = k
    OBVIOUS
  <2>1. d \in visible' /\ Untied(d)' /\ Given(d) /\ k <= Cardinality(Newer(d)')
    BY <1>6 DEF Pushed
  <2>2. d \in visible
    BY <1>10, <2>1 DEF Given
  <2>3. Untied(d)
    BY <1>8, <2>1, <2>2
  <2>4. ~(k <= Cardinality(Newer(d)))
    BY <1>5, <2>1, <2>2, <2>3 DEF Pushed
  <2> QED BY <1>5, <1>7, <1>8, <2>1, <2>2, <2>3, <2>4
<1>13. PICK P, Q : P = Pushed /\ Q = Pushed'
  OBVIOUS
<1>14. IsFiniteSet(P) /\ Cardinality(P) \in Nat
  BY <1>13, SeenFinite
<1>15. Cardinality(Q) <= Cardinality(P) + 1
  <2>1. CASE Q \subseteq P
    BY <1>14, <2>1, Fewer
  <2>2. CASE ~(Q \subseteq P)
    <3>1. PICK d \in Q : d \notin P
      BY <2>2
    <3>2. \A e \in Q \ P : e = d
      <4> TAKE e \in Q \ P
      <4>1. /\ d \in visible /\ Untied(d) /\ Cardinality(Newer(d)) + 1 = k
            /\ e \in visible /\ Untied(e) /\ Cardinality(Newer(e)) + 1 = k
        BY <1>12, <1>13, <3>1
      <4>2. Cardinality(Newer(d)) = Cardinality(Newer(e))
        BY <1>7, <4>1
      <4> QED BY <4>1, <4>2, OnePlace
    <3>3. Q \subseteq P \cup {d}
      BY <3>2
    <3>4. IsFiniteSet(P \cup {d}) /\ Cardinality(P \cup {d}) = Cardinality(P) + 1
      BY <1>14, <3>1, FS_AddElement
    <3> QED BY <3>3, <3>4, Fewer
  <2> QED BY <2>1, <2>2
<1>16. Cardinality(Q) \in Nat /\ Cardinality(Repeats) \in Nat
  <2>1. IsFiniteSet(Q)
    BY <1>3, <1>13, Fewer DEF Pushed
  <2> QED BY <2>1, FS_CardinalityType, SeenFinite
<1>17. Cardinality(Repeats') <= Cardinality(Repeats) /\ Cardinality(Repeats') \in Nat
  BY <1>11, SeenFinite, Fewer
<1>18. PICK F, G : F = visible \ Existing /\ G = visible' \ Existing
  OBVIOUS
<1>19. IsFiniteSet(F) /\ Cardinality(F) \in Nat
  BY <1>18, SeenFinite
<1>20. x \notin F /\ G = F \cup {x}
  BY <1>1, <1>18 DEF Listed
<1>21. Cardinality(G) = Cardinality(F) + 1
  BY <1>19, <1>20, FS_AddElement
<1>22. Cardinality(Repeats) + Cardinality(P) <= Cardinality(F)
  BY <1>13, <1>18 DEF RepeatsPaid
<1>23. Cardinality(Repeats') + Cardinality(Q) <= Cardinality(G)
  BY <1>14, <1>15, <1>16, <1>17, <1>19, <1>21, <1>22
<1>24. RepeatsPaid'
  BY <1>13, <1>18, <1>23 DEF RepeatsPaid
<1> QED BY <1>4, <1>9, <1>24

LEMMA GetPaged ==
  Listed /\ StillToCome /\ RepeatsPaid /\ Get => (Listed /\ StillToCome /\ RepeatsPaid)'
<1> SUFFICES ASSUME Listed, StillToCome, RepeatsPaid, Get
             PROVE  Listed' /\ StillToCome' /\ RepeatsPaid'
  OBVIOUS
<1>1. PICK items \in Items(page) :
        seen' = seen \cup ({page} \X items) /\ done' = (Cardinality(items) < Limit)
  BY DEF Get
<1>2. ~done /\ page' = page + 1 /\ visible' = visible /\ page \in Nat \ {0}
  BY DEF Get, Listed
<1>3. items \subseteq visible
  BY DEF Items
<1>4. Listed'
  <2>1. {page} \X items \subseteq (1 .. page' - 1) \X visible
    BY <1>2, <1>3
  <2>2. (1 .. page - 1) \X visible \subseteq (1 .. page' - 1) \X visible
    BY <1>2
  <2>3. seen' \subseteq (1 .. page' - 1) \X visible'
    BY <1>1, <1>2, <2>1, <2>2 DEF Listed
  <2> QED BY <1>1, <1>2, <2>3 DEF Listed
<1>5. PICK k \in Nat, l \in Nat \ {0} : k = Skipped(page) /\ l = Limit
  BY <1>2, NextPage, PagingAssumption
<1>6. Skipped(page)' = k + l
  <2>1. Skipped(page + 1) = k + l
    BY <1>2, <1>5, NextPage
  <2> QED BY <1>2, <2>1 DEF Skipped
<1>7. \A d : (Untied(d)' <=> Untied(d)) /\ Newer(d)' = Newer(d)
  BY <1>2 DEF Untied, Newer
<1>8. \A d : Given(d)' <=> Given(d) \/ d \in items
  <2> TAKE d
  <2>1. ASSUME d \in items PROVE Given(d)'
    <3>1. <<page, d>> \in seen' /\ <<page, d>>[2] = d
      BY <1>1, <2>1
    <3> QED BY <3>1 DEF Given
  <2>2. ASSUME Given(d) PROVE Given(d)'
    BY <1>1, <2>2 DEF Given
  <2>3. ASSUME Given(d)' PROVE Given(d) \/ d \in items
    <3>1. PICK s \in seen' : s[2] = d
      BY <2>3 DEF Given
    <3>2. s \in seen \/ s[2] \in items
      BY <1>1, <3>1
    <3> QED BY <3>1, <3>2 DEF Given
  <2> QED BY <2>1, <2>2, <2>3
<1>9. \A d \in visible : Untied(d) =>
        /\ d \in items <=> k <= Cardinality(Newer(d)) /\ Cardinality(Newer(d)) < k + l
        /\ done' => Cardinality(Newer(d)) < k + l
  BY <1>1, <1>5, PageOf
<1>10. \A d \in visible : Cardinality(Newer(d)) \in Nat
  BY NewerFinite
<1>11. StillToCome'
  <2> SUFFICES ASSUME NEW d \in Existing, Untied(d), done' \/ Cardinality(Newer(d)) < k + l
               PROVE  Given(d) \/ d \in items
    BY <1>6, <1>7, <1>8 DEF StillToCome
  <2>1. d \in visible
    BY DEF Listed
  <2>2. Cardinality(Newer(d)) < k + l
    BY <1>9, <2>1
  <2>3. CASE Cardinality(Newer(d)) < k
    BY <1>5, <2>3 DEF StillToCome
  <2>4. CASE ~(Cardinality(Newer(d)) < k)
    BY <1>5, <1>9, <1>10, <2>1, <2>2, <2>4
  <2> QED BY <2>3, <2>4
<1>12. PICK R : R = {d \in items : Untied(d) /\ Given(d)}
  OBVIOUS
<1>13. PICK P, Q : P = Pushed /\ Q = Pushed'
  OBVIOUS
<1>14. R \subseteq P
  BY <1>3, <1>5, <1>9, <1>12, <1>13 DEF Pushed
<1>15. Q \subseteq P \ R
  <2> SUFFICES ASSUME NEW d \in Pushed'
               PROVE  d \in Pushed /\ d \notin R
    BY <1>13
  <2>1. Given(d)'
    BY DEF Pushed
  <2>2. d \in visible /\ Untied(d) /\ k + l <= Cardinality(Newer(d))
    BY <1>2, <1>6, <1>7 DEF Pushed
  <2>3. d \notin items
    BY <1>5, <1>9, <1>10, <2>2
  <2>4. Given(d)
    BY <1>8, <2>1, <2>3
  <2>5. k <= Cardinality(Newer(d))
    BY <1>5, <1>10, <2>2
  <2> QED BY <1>5, <1>12, <2>2, <2>3, <2>4, <2>5 DEF Pushed
<1>16. PICK A, B : A = Repeats /\ B = Repeats'
  OBVIOUS
<1>17. \A s \in seen : s = <<s[1], s[2]>> /\ s[1] \in Nat /\ s[1] < page /\ s[2] \in visible
  BY <1>2 DEF Listed
<1>18. B \subseteq A \cup ({page} \X R)
  <2> SUFFICES ASSUME NEW s \in Repeats'
               PROVE  s \in Repeats \/ s \in {page} \X R
    BY <1>16
  <2>1. PICK r \in seen' : r[1] < s[1] /\ r[2] = s[2]
    BY DEF Repeats
  <2>2. s \in seen' /\ Untied(s[2])
    BY <1>7 DEF Repeats
  <2>3. \A q \in seen' : q \in seen \/ (q = <<page, q[2]>> /\ q[1] = page /\ q[2] \in items)
    BY <1>1
  <2>4. s[1] <= page
    BY <1>2, <1>17, <2>2, <2>3
  <2>5. r \in seen
    BY <1>2, <1>17, <2>1, <2>2, <2>3, <2>4
  <2>6. CASE s \in seen
    BY <2>1, <2>2, <2>5, <2>6 DEF Repeats
  <2>7. CASE s \notin seen
    <3>1. s = <<page, s[2]>> /\ s[2] \in items
      BY <2>2, <2>3, <2>7
    <3>2. s[2] \in R
      BY <1>12, <2>1, <2>2, <2>5, <3>1 DEF Given
    <3> QED BY <3>1, <3>2
  <2> QED BY <2>6, <2>7
<1>19. /\ IsFiniteSet(A) /\ Cardinality(A) \in Nat /\ IsFiniteSet(P) /\ Cardinality(P) \in Nat
       /\ Cardinality(visible \ Existing) \in Nat
  BY <1>13, <1>16, SeenFinite
<1>20. IsFiniteSet(R) /\ Cardinality(R) \in Nat /\ Cardinality(R) <= Cardinality(P)
  BY <1>14, <1>19, Fewer
<1>21. PICK W : W = {page} \X R
  OBVIOUS
<1>22. IsFiniteSet(W) /\ Cardinality(W) = Cardinality(R)
  <2>1. IsFiniteSet({page}) /\ Cardinality({page}) = 1
    BY FS_Singleton
  <2>2. IsFiniteSet(W) /\ Cardinality(W) = 1 * Cardinality(R)
    BY <1>20, <1>21, <2>1, FS_Product
  <2> QED BY <1>20, <2>2
<1>23. Cardinality(B) <= Cardinality(A) + Cardinality(R) /\ Cardinality(B) \in Nat
  <2>1. /\ IsFiniteSet(A \cup W)
        /\ Cardinality(A \cup W) = Cardinality(A) + Cardinality(W) - Cardinality(A \cap W)
    BY <1>19, <1>22, FS_Union
  <2>2. Cardinality(A \cap W) \in Nat /\ Cardinality(A \cup W) \in Nat
    BY <1>19, <2>1, FS_Intersection, FS_CardinalityType
  <2>3. Cardinality(B) <= Cardinality(A \cup W) /\ Cardinality(B) \in Nat
    BY <1>18, <1>21, <2>1, Fewer
  <2> QED BY <1>19, <1>20, <1>22, <2>1, <2>2, <2>3
<1>24. Cardinality(Q) <= Cardinality(P) - Cardinality(R) /\ Cardinality(Q) \in Nat
  <2>1. IsFiniteSet(P \ R) /\ Cardinality(P \ R) = Cardinality(P) - Cardinality(P \cap R)
    BY <1>19, FS_Difference
  <2>2. P \cap R = R
    BY <1>14
  <2>3. Cardinality(Q) <= Cardinality(P \ R) /\ Cardinality(Q) \in Nat
    BY <1>15, <2>1, Fewer
  <2> QED BY <2>1, <2>2, <2>3
<1>25. Cardinality(A) + Cardinality(P) <= Cardinality(visible \ Existing)
  BY <1>13, <1>16 DEF RepeatsPaid
<1>26. Cardinality(B) + Cardinality(Q) <= Cardinality(visible \ Existing)
  BY <1>19, <1>20, <1>23, <1>24, <1>25
<1>27. RepeatsPaid'
  BY <1>2, <1>13, <1>16, <1>26 DEF RepeatsPaid
<1> QED BY <1>4, <1>11, <1>27

LEMMA NextPaged ==
  Listed /\ StillToCome /\ RepeatsPaid /\ [Next]_vars => (Listed /\ StillToCome /\ RepeatsPaid)'
<1> SUFFICES ASSUME Listed, StillToCome, RepeatsPaid, [Next]_vars
             PROVE  (Listed /\ StillToCome /\ RepeatsPaid)'
  OBVIOUS
<1>1. CASE UNCHANGED pagingVars
  BY <1>1 DEF pagingVars, Listed, StillToCome, RepeatsPaid, Repeats, Pushed, Skipped, Newer,
              Untied, Given
<1>2. CASE Insert
  BY <1>2, InsertPaged
<1>3. CASE Get
  BY <1>3, GetPaged
<1> QED BY <1>1, <1>2, <1>3 DEF Next, Events, Rounding, Seeding, Probing, Listing, PagingNext, vars

\* A client that pages to a page that is not full has been given every document
\* with a createdAt of its own that was there when it began (skip and limit in
\* LedgerService.getAuditTrail and TransactionsService.findAll), in whatever
\* order each query lists those that share one, whatever the page size, however
\* many are inserted meanwhile and wherever.
THEOREM NothingIsSkipped == Spec => []NothingSkipped
<1>1. StillToCome => NothingSkipped
  BY DEF StillToCome, NothingSkipped
<1>2. Init => Listed /\ StillToCome /\ RepeatsPaid
  BY InitPaged DEF Init
<1> QED BY <1>1, <1>2, NextPaged, PTL DEF Spec

\* Such a document is given twice only when it was pushed to a later page: one
\* at most for every document inserted while the client pages.
THEOREM RepeatsArePaid == Spec => []RepeatsBounded
<1>1. Listed /\ RepeatsPaid => RepeatsBounded
  <2> SUFFICES ASSUME Listed, RepeatsPaid
               PROVE  RepeatsBounded
    OBVIOUS
  <2>1. /\ Cardinality(Repeats) \in Nat /\ Cardinality(Pushed) \in Nat
        /\ Cardinality(visible \ Existing) \in Nat
    BY SeenFinite
  <2> QED BY <2>1 DEF RepeatsPaid, RepeatsBounded
<1>2. Init => Listed /\ StillToCome /\ RepeatsPaid
  BY InitPaged DEF Init
<1> QED BY <1>1, <1>2, NextPaged, PTL DEF Spec

=============================================================================
