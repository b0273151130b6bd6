------------------------------- MODULE Claims -------------------------------
(***************************************************************************)
(* What the repository's documents and comments say of the program that    *)
(* the program does not do.  Each is refuted by a run of its own.          *)
(***************************************************************************)
EXTENDS Platform

\* "Balance updates are reflected in Redis within the transactional lifecycle
\* to prevent cache pollution and stale read windows" (DESIGN.md): while
\* nothing fails and nobody else fills the cache, a cached balance is the
\* wallet's.  The refund of the sweep does not write to Redis.
CacheInSync ==
  \A w \in CachedWallets : cache[w] # Miss => cache[w] = balance[w]

\* "Duplicate RabbitMQ message deliveries are safely ignored" (DESIGN.md): a
\* handler whose messageId is in the inbox does not give its message back.
DuplicatesIgnored ==
  [][\A h \in Handlers :
       Duplicate(h) /\ ~Busy(h)' /\ up' = up => handler[h].msg \notin queue']_vars

\* "Do not requeue fatal structural errors" (the consumer): a handler whose
\* message can never be processed does not give it back.
PoisonDropped ==
  [][\A h \in Handlers :
       Uncastable(h) /\ ~Busy(h)' /\ up' = up => handler[h].msg \notin queue']_vars

=============================================================================
