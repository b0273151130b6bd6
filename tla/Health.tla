------------------------------- MODULE Health -------------------------------
(***************************************************************************)
(* GET /health.  A check reads the state Mongoose keeps of its connection, *)
(* waits for the answer of a Redis PING, and asks whether RabbitMQService  *)
(* has a channel wrapper, which it has from onModuleInit on.  ioredis      *)
(* keeps the PING while it has no connection and rejects it when it has    *)
(* tried to connect often enough.                                          *)
(***************************************************************************)
CONSTANTS Monitors   \* checks at once

Dependencies == {"mongo", "redis", "rabbitmq"}

VARIABLES
  up,     \* [Dependencies -> whether the server can be reached]
  ready,  \* connection.readyState = 1
  check   \* [Monitors -> "idle" or what is known so far]

healthVars == <<up, ready, check>>

Idle == [stage |-> "idle", mongo |-> FALSE]

HealthInit ==
  /\ up = [d \in Dependencies |-> TRUE] /\ ready = TRUE
  /\ check = [c \in Monitors |-> Idle]

Changes(d) ==
  /\ up' = [up EXCEPT ![d] = ~@]
  /\ UNCHANGED <<ready, check>>

\* Mongoose learns that the connection is lost or made.
Notices ==
  /\ ready # up["mongo"] /\ ready' = up["mongo"]
  /\ UNCHANGED <<up, check>>

Begins(c) ==
  /\ check[c].stage = "idle"
  /\ check' = [check EXCEPT ![c] = [stage |-> "ping", mongo |-> ready]]
  /\ UNCHANGED <<up, ready>>

\* Mutant: MongoDB's state is reported and not part of the verdict.
IsHealthyWithoutMongo(c, redis) == redis

\* Mutant: readyState is compared with 0.
IsHealthyInverted(c, redis) == redis /\ ~check[c].mongo

\* The channel wrapper is there whether or not it has a connection.
IsHealthy(c, redis) == check[c].mongo /\ redis

\* The PING is answered or rejected, and the rest is done at once.
Ends(c, redis) ==
  /\ check[c].stage = "ping" /\ up["redis"] = redis
  /\ check' = [check EXCEPT ![c] = Idle]
  /\ UNCHANGED <<up, ready>>

Ok(c, redis) == Ends(c, redis) /\ IsHealthy(c, redis)            \* 200
Unavailable(c, redis) == Ends(c, redis) /\ ~IsHealthy(c, redis)  \* 503

Answers(c) == \E redis \in BOOLEAN : Ok(c, redis) \/ Unavailable(c, redis)

HealthNext ==
  \/ Notices
  \/ \E d \in Dependencies : Changes(d)
  \/ \E c \in Monitors : Begins(c) \/ Answers(c)

-----------------------------------------------------------------------------

SaysOk == \E c \in Monitors, redis \in BOOLEAN : Ok(c, redis)
SaysUnavailable == \E c \in Monitors, redis \in BOOLEAN : Unavailable(c, redis)

\* An outage of MongoDB or Redis that lasts is reported: after some time every
\* check answers 503.
OutageReported ==
  \A d \in {"mongo", "redis"} : <>[]~up[d] => <>[][~SaysOk]_healthVars

\* And when both are back for good every check answers 200.
RecoveryReported ==
  <>[](up["mongo"] /\ up["redis"]) => <>[][~SaysUnavailable]_healthVars

=============================================================================
