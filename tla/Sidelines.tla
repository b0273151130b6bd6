------------------------------ MODULE Sidelines ------------------------------
(***************************************************************************)
(* The parts that share no state with one another, nor with the modules    *)
(* about the money's path: the wallet events of several processes, the     *)
(* rounding of one wallet's balance, the seed script, the health probe and *)
(* a client that pages.  Nothing one of them does enables, disables or     *)
(* changes anything of another, so a behaviour of all of them is one of    *)
(* each, side by side; here a behaviour is of one, and all are explored    *)
(* together.                                                               *)
(***************************************************************************)
EXTENDS WalletEvents, Money, Seed, Health, Paging

VARIABLE part   \* the one this behaviour is of

vars == <<eventVars, moneyVars, seedVars, healthVars, pagingVars, part>>

Init ==
  /\ part \in {"events", "money", "seed", "health", "paging"}
  /\ EventsInit /\ MoneyInit /\ SeedInit /\ HealthInit /\ PagingInit

Events ==
  /\ part = "events" /\ EventsNext
  /\ UNCHANGED <<moneyVars, seedVars, healthVars, pagingVars, part>>

Rounding ==
  /\ part = "money" /\ MoneyNext
  /\ UNCHANGED <<eventVars, seedVars, healthVars, pagingVars, part>>

Seeding ==
  /\ part = "seed" /\ SeedNext
  /\ UNCHANGED <<eventVars, moneyVars, healthVars, pagingVars, part>>

Probing ==
  /\ part = "health" /\ HealthNext
  /\ UNCHANGED <<eventVars, moneyVars, seedVars, pagingVars, part>>

Listing ==
  /\ part = "paging" /\ PagingNext
  /\ UNCHANGED <<eventVars, moneyVars, seedVars, healthVars, part>>

Next == Events \/ Rounding \/ Seeding \/ Probing \/ Listing

\* A process that lives goes on with what it has begun; Mongoose's heartbeat
\* notices in the end, and a PING is answered, or rejected after its last retry.
Spec ==
  /\ Init /\ [][Next]_vars
  /\ \A p \in Processes :
       /\ WF_eventVars(part = "events" /\ Subscribe(p))
       /\ WF_eventVars(part = "events" /\ Watch(p))
       /\ WF_eventVars(part = "events" /\ Change(p))
       /\ WF_eventVars(part = "events" /\ Publish(p))
  /\ WF_healthVars(part = "health" /\ Notices)
  /\ \A c \in Monitors : WF_healthVars(part = "health" /\ Answers(c))

=============================================================================
