----------------------------- MODULE Lifecycle ------------------------------
(***************************************************************************)
(* cmd/api: the start, the graceful stop and the death of the API process, *)
(* around the predictions and trainings that are under way.                *)
(*                                                                         *)
(* main configures the model and the evaluation, opens the repository, and *)
(* serves until a signal; then http.Server.Shutdown closes the listener    *)
(* and waits, 5 seconds at most, for the connections in use; main prints   *)
(* that the API stopped, closes the repository and ends, and with it every *)
(* handler that is still running.  Redis and MongoDB go on.                *)
(***************************************************************************)
EXTENDS Prediction

CONSTANT MaxStarts     \* bound: how many times the process is started

ASSUME LifecycleAssumption == MaxStarts \in Nat

VARIABLES
  server,          \* where main is
  mongo, redis,    \* the clients of the repository
  connected,       \* predictions whose connection was accepted
  shutdownErr,     \* what Shutdown returned
  starts

processVars == <<server, mongo, redis, connected, shutdownErr, starts>>
lifeVars == <<vars, processVars>>

\* abandoning: NewRepository disconnects MongoDB's client because a ping failed.
\* failed: it has returned an error.  opened: it has returned a repository.
\* stopping: Shutdown has returned and the message is printed.
Server == {"down", "connecting", "pinging", "abandoning", "failed", "opened",
           "serving", "draining", "stopping", "closing", "closed"}
Serving == {"serving", "draining", "stopping", "closing", "closed"}
Client == {"disabled", "asked", "open", "closed"}

LifecycleTypeOK ==
  /\ PredictionTypeOK
  /\ server \in Server
  /\ mongo \in Client /\ redis \in Client
  /\ connected \subseteq Predictions
  /\ shutdownErr \in {"nil", "deadline exceeded"}
  /\ starts \in 0..MaxStarts

LifecycleInit ==
  /\ PredictionInit
  /\ server = "down"
  /\ mongo = "disabled" /\ redis = "disabled"
  /\ connected = {}
  /\ shutdownErr = "nil"
  /\ starts = 0

InHandler(p) == stage[p] \in {"looking", "storing", "logging"}

-----------------------------------------------------------------------------
(***************************************************************************)
(* The start.                                                              *)
(***************************************************************************)

\* Flags, nodes, NewService, LoadArtifact, ConfigureModel, ConfigureEvaluation:
\* any of them may be refused; if not, phase 1's model is version 1.  The flags
\* ask for MongoDB and Redis, or not.
Start ==
  /\ server = "down"
  /\ starts < MaxStarts
  /\ starts' = starts + 1
  /\ Restart
  /\ server' \in {"down", "connecting"}
  /\ mongo' \in {"disabled", "asked"} /\ redis' \in {"disabled", "asked"}
  /\ shutdownErr' = "nil"
  /\ UNCHANGED <<predictVars, backendVars, connected>>

\* NewRepository: MongoDB is not asked for, or Connect gives a client, whose
\* ping is answered in time or not, or Connect fails and there is no client.
ConnectMongo ==
  /\ server = "connecting"
  /\ \/ mongo = "disabled" /\ server' = "pinging" /\ UNCHANGED mongo
     \/ mongo = "asked" /\ mongo' = "open" /\ server' \in {"pinging", "abandoning"}
     \/ mongo = "asked" /\ mongo' = "closed" /\ server' = "failed"
  /\ UNCHANGED <<vars, redis, connected, shutdownErr, starts>>

\* The end of a start whose Redis does not answer, once Redis's client is closed.
Abandon == IF mongo = "open" THEN "abandoning" ELSE "failed"

\* Mutation: the ping has no timeout.
PingRedisForever ==
  /\ server = "pinging"
  /\ \/ redis = "disabled" /\ server' = "opened" /\ UNCHANGED redis
     \/ redis = "asked" /\ redis' = "open" /\ redisUp /\ server' = "opened"
  /\ UNCHANGED <<vars, mongo, connected, shutdownErr, starts>>

\* Mutation: MongoDB's client is forgotten when Redis does not answer.
PingRedisForgettingMongo ==
  /\ server = "pinging"
  /\ \/ redis = "disabled" /\ server' = "opened" /\ UNCHANGED redis
     \/ redis = "asked" /\ redis' = "open" /\ redisUp /\ server' = "opened"
     \/ redis = "asked" /\ redis' = "closed" /\ server' = "failed"
  /\ UNCHANGED <<vars, mongo, connected, shutdownErr, starts>>

\* The same for Redis; when it does not answer in time both clients are closed.
PingRedis ==
  /\ server = "pinging"
  /\ \/ redis = "disabled" /\ server' = "opened" /\ UNCHANGED redis
     \/ redis = "asked" /\ redis' = "open" /\ redisUp /\ server' = "opened"
     \/ redis = "asked" /\ redis' = "closed" /\ server' = Abandon
  /\ UNCHANGED <<vars, mongo, connected, shutdownErr, starts>>

\* ListenAndServe, whose failure ends the process.
Listen ==
  /\ server = "opened"
  /\ server' \in {"serving", "down"}
  /\ UNCHANGED <<vars, mongo, redis, connected, shutdownErr, starts>>

Fatal ==
  /\ server = "failed"
  /\ server' = "down"
  /\ UNCHANGED <<vars, mongo, redis, connected, shutdownErr, starts>>

-----------------------------------------------------------------------------
(***************************************************************************)
(* Requests.                                                               *)
(***************************************************************************)

\* Mutation: the listener is not closed during the drain.
AcceptWhileDraining(p) ==
  /\ server \in Serving
  /\ p \notin connected /\ stage[p] = "idle"
  /\ connected' = connected \cup {p}
  /\ UNCHANGED <<vars, server, mongo, redis, shutdownErr, starts>>

Accept(p) ==
  /\ server = "serving"
  /\ p \notin connected /\ stage[p] = "idle"
  /\ connected' = connected \cup {p}
  /\ UNCHANGED <<vars, server, mongo, redis, shutdownErr, starts>>

\* A client that was accepted may send its request after the signal.
Arrive(p) ==
  /\ server \in Serving /\ p \in connected
  /\ Begin(p)
  /\ UNCHANGED processVars

\* Predict with the clients there are: a client that is closed or was never
\* configured reads and writes nothing.
Handle(p) ==
  /\ server \in Serving
  /\ \/ redis = "open" /\ Hit(p)
     \/ Miss(p)
     \/ Store(p) /\ (redis # "open" => UNCHANGED cache)
     \/ Log(p) /\ (mongo # "open" => UNCHANGED logs)
  /\ UNCHANGED processVars

\* A training may publish even after the signal.  Its handler is not followed
\* here, so it may do so until the process ends, whether Shutdown waited or not.
Publish(r) ==
  /\ server \in Serving
  /\ Retrain(r)
  /\ UNCHANGED processVars

Backends == (Expire \/ RedisChanges) /\ UNCHANGED processVars

-----------------------------------------------------------------------------
(***************************************************************************)
(* The stop.                                                               *)
(***************************************************************************)

\* SIGINT or SIGTERM; Shutdown closes the listener at once.
Signal ==
  /\ server = "serving"
  /\ server' = "draining"
  /\ UNCHANGED <<vars, mongo, redis, connected, shutdownErr, starts>>

\* Shutdown finds no connection in use, and closes those without a request.
Drained ==
  /\ server = "draining"
  /\ \A p \in Predictions : ~InHandler(p)
  /\ server' = "stopping"
  /\ connected' = {}
  /\ UNCHANGED <<vars, mongo, redis, shutdownErr, starts>>

\* Its context expires; main ignores the error.
DrainTimesOut ==
  /\ server = "draining"
  /\ \E p \in connected : stage[p] = "idle" \/ InHandler(p)
  /\ server' = "stopping"
  /\ shutdownErr' = "deadline exceeded"
  /\ UNCHANGED <<vars, mongo, redis, connected, starts>>

\* The deferred repository.Close: Redis, then MongoDB, if it has a client.
Close ==
  /\ \/ server = "stopping" /\ server' = "closing"
        /\ redis' = IF redis = "open" THEN "closed" ELSE redis
     \/ server = "closing" /\ mongo # "open" /\ server' = "closed" /\ UNCHANGED redis
  /\ UNCHANGED <<vars, mongo, connected, shutdownErr, starts>>

\* The calls of Disconnect, of NewRepository and of Close, which are given no
\* deadline.
Disconnecting == server = "abandoning" \/ (server = "closing" /\ mongo = "open")

Disconnect ==
  /\ Disconnecting
  /\ mongo' = "closed"
  /\ server' = IF server = "abandoning" THEN "failed" ELSE "closed"
  /\ UNCHANGED <<vars, redis, connected, shutdownErr, starts>>

\* The process is gone and its handlers with it.
Gone ==
  /\ server' = "down"
  /\ stage' = [p \in Predictions |-> IF InHandler(p) THEN "lost" ELSE stage[p]]
  /\ connected' = {}
  /\ UNCHANGED <<storeVars, local, answer, backendVars, mongo, redis, shutdownErr, starts>>

Exit == server = "closed" /\ Gone
Crash == server # "down" /\ Gone

Main ==
  \/ ConnectMongo \/ PingRedis \/ Listen \/ Fatal
  \/ Drained \/ DrainTimesOut \/ Close \/ Exit

LifecycleNext ==
  \/ Start \/ Main \/ Disconnect \/ Signal \/ Crash
  \/ \E p \in Predictions : Accept(p) \/ Arrive(p) \/ Handle(p)
  \/ \E r \in Requests : Publish(r)
  \/ Backends

LifecycleSpec == LifecycleInit /\ [][LifecycleNext]_lifeVars

\* The handlers run whenever they can, because every call they wait for has a
\* timeout, and so does main but for Disconnect, which has none.  Starts,
\* signals, clients, crashes, MongoDB and Redis owe nothing.
FairLifecycleSpec ==
  LifecycleSpec /\ WF_lifeVars(Main)
    /\ \A p \in Predictions : WF_lifeVars(Handle(p))

-----------------------------------------------------------------------------

\* Every prediction is answered, even when Redis or MongoDB never answer,
\* unless the process ends under it.
EveryPredictionEnds ==
  \A p \in Predictions : stage[p] = "looking" ~> stage[p] \in {"done", "lost"}

\* A start comes to serve or to its end, and a stop to its end, whatever
\* MongoDB, Redis and the clients do, unless it is in MongoDB's Disconnect: no
\* other call can hold it up, and once Disconnect has returned nothing can.
StartsAndStopsEnd ==
  server \notin {"down", "serving"} ~> server \in {"down", "serving"} \/ Disconnecting

\* A NewRepository that fails leaves no client open behind it.
FailedStartClosesClients ==
  server = "failed" => mongo # "open" /\ redis # "open"

Stopped == server \in {"stopping", "closing", "closed"}

\* A stop that did not time out cuts nobody off: from the return of Shutdown to
\* the end of the process no handler is left that would find the repository
\* closed or be lost, although clients that connected before the signal may
\* send their requests after it.
DrainLosesNobody ==
  Stopped /\ shutdownErr = "nil" => \A p \in Predictions : ~InHandler(p)

\* "API detenida correctamente": when main says so, no request that it accepted
\* is still waiting for its answer.
StoppedCorrectly == Stopped => \A p \in Predictions : ~InHandler(p)

=============================================================================
