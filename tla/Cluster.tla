------------------------------ MODULE Cluster -------------------------------
(***************************************************************************)
(* The ML nodes and the coordinator's calls to them.                       *)
(*                                                                         *)
(* A call is one run of distributed.SendRequest by one of the goroutines   *)
(* that CheckCluster or computeGlobalGradient starts, one per endpoint: it *)
(* dials, sends one request and reads one response on a connection of its  *)
(* own, under the deadline of the node timeout.  A node is a process with  *)
(* the shard it read at start; it may die and be started again, perhaps    *)
(* with another node id or with a shard file generated since.             *)
(***************************************************************************)
EXTENDS Models, FiniteSets, Functions

CONSTANTS
  Nodes,           \* the endpoints of -nodes, each with its own id
  ProcessesOf,     \* endpoint -> the processes that may be started there
  MaxCrashes,      \* bound: how many times node processes die
  Down             \* what listens at an endpoint when no process runs

\* A node process: the -node-id it was given, and the size and the number of
\* features of the shard file it loaded.
Process == [id : Nodes, samples : Nat \ {0}, features : Nat \ {0}]

ASSUME ClusterAssumption ==
  /\ ProcessesOf \in [Nodes -> SUBSET Process]
  /\ Down \notin Process
  /\ MaxCrashes \in Nat

VARIABLES
  process,         \* endpoint -> the process that listens there, or Down
  crashes,         \* how many node processes have died
  call,            \* request -> endpoint -> its current call there
  cancelled        \* the requests whose client has gone (ctx cancelled)

clusterVars == <<process, crashes, call, cancelled>>

NoModel == [origin |-> "none"]      \* a health request carries no weights

Message ==
  [type : {"health"}, iteration : {0}, model : {NoModel}]
    \cup [type : {"compute_gradient"}, iteration : Nat, model : Model]

\* A gradient is what it was computed on: a shard and a model.
Response ==
  [type : {"health_response"}, id : Nodes, samples : Nat, features : Nat]
    \cup [type : {"gradient_response"}, id : Nodes, samples : Nat,
          iteration : Nat, model : Model]

\* idle: no call.  dialing: DialContext under way.  open: connected and the
\* request sent.  lost: connected to a process that has died since.
\* ok: SendRequest returned a response.  err: it returned an error.
Call ==
  [st : {"idle", "err"}]
    \cup [st : {"dialing", "open", "lost"}, request : Message]
    \cup [st : {"ok"}, response : Response]

Idle == [st |-> "idle"]

ClusterTypeOK ==
  /\ process \in [Nodes -> Process \cup {Down}]
  /\ crashes \in 0..MaxCrashes
  /\ call \in [Requests -> [Nodes -> Call]]
  /\ cancelled \in SUBSET Requests

ClusterInit ==
  /\ process = [n \in Nodes |-> Down]
  /\ crashes = 0
  /\ call = [r \in Requests |-> [n \in Nodes |-> Idle]]
  /\ cancelled = {}

-----------------------------------------------------------------------------
(***************************************************************************)
(* The node's handler.                                                     *)
(***************************************************************************)

\* Handle refuses weights whose number is not that of the shard's features.
\* Every model in the system has ModelFeatures weights (see Training).
Accepts(p, request, modelFeatures) ==
  request.type = "compute_gradient" => p.features = modelFeatures

\* Mutation: the sample count includes the header row of the shard file.
HandleCountingHeader(p, request) ==
  IF request.type = "health"
  THEN [type |-> "health_response", id |-> p.id,
        samples |-> p.samples + 1, features |-> p.features]
  ELSE [type |-> "gradient_response", id |-> p.id, samples |-> p.samples,
        iteration |-> request.iteration, model |-> request.model]

Handle(p, request) ==
  IF request.type = "health"
  THEN [type |-> "health_response", id |-> p.id,
        samples |-> p.samples, features |-> p.features]
  ELSE [type |-> "gradient_response", id |-> p.id, samples |-> p.samples,
        iteration |-> request.iteration, model |-> request.model]

\* json.Encoder refuses a request with a NaN or an infinite weight.
Encodable(request) ==
  request.type = "compute_gradient" => request.model.numbers = "finite"

-----------------------------------------------------------------------------
(***************************************************************************)
(* The calls.  StartCalls is the loop of go statements, Answered the       *)
(* return of wg.Wait.                                                      *)
(***************************************************************************)

StartCalls(r, request) ==
  call' = [call EXCEPT ![r] =
             [n \in Nodes |-> [st |-> "dialing", request |-> request]]]

Answered(r) == \A n \in Nodes : call[r][n].st \in {"ok", "err"}

SetCall(r, n, value) == call' = [call EXCEPT ![r][n] = value]

\* Mutation: the dial is given context.Background().
ConnectIgnoringContext(r, n) ==
  /\ call[r][n].st = "dialing"
  /\ process[n] # Down
  /\ Encodable(call[r][n].request)
  /\ SetCall(r, n, [call[r][n] EXCEPT !.st = "open"])
  /\ UNCHANGED <<process, crashes, cancelled>>

\* The dial succeeds and the request is sent.  DialContext honours ctx.
Connect(r, n) ==
  /\ call[r][n].st = "dialing"
  /\ process[n] # Down
  /\ r \notin cancelled
  /\ Encodable(call[r][n].request)
  /\ SetCall(r, n, [call[r][n] EXCEPT !.st = "open"])
  /\ UNCHANGED <<process, crashes, cancelled>>

\* Mutation: the connection gets no deadline, so an answer that will never
\* come is awaited for ever.
CallFailsToDialOnly(r, n) ==
  /\ call[r][n].st = "dialing"
  /\ SetCall(r, n, [st |-> "err"])
  /\ UNCHANGED <<process, crashes, cancelled>>

\* Refused dial, cancelled dial, unencodable request, connection reset, EOF,
\* or the deadline of the call: at any moment before the answer is read.
CallFails(r, n) ==
  /\ call[r][n].st \in {"dialing", "open", "lost"}
  /\ SetCall(r, n, [st |-> "err"])
  /\ UNCHANGED <<process, crashes, cancelled>>

\* The handler goroutine of the node answers on the call's own connection.
NodeReply(r, n, modelFeatures) ==
  /\ call[r][n].st = "open"
  /\ process[n] # Down
  /\ LET request == call[r][n].request IN
       SetCall(r, n, IF Accepts(process[n], request, modelFeatures)
                     THEN [st |-> "ok", response |-> Handle(process[n], request)]
                     ELSE [st |-> "err"])
  /\ UNCHANGED <<process, crashes, cancelled>>

\* A node process dies, and its open connections with it.
NodeCrash(n) ==
  /\ process[n] # Down
  /\ crashes < MaxCrashes
  /\ crashes' = crashes + 1
  /\ process' = [process EXCEPT ![n] = Down]
  /\ call' = [r \in Requests |->
                [call[r] EXCEPT ![n] =
                   IF @.st = "open" THEN [@ EXCEPT !.st = "lost"] ELSE @]]
  /\ UNCHANGED cancelled

\* A node process starts: it reads its shard, then listens.
NodeStart(n) ==
  /\ process[n] = Down
  /\ \E p \in ProcessesOf[n] : process' = [process EXCEPT ![n] = p]
  /\ UNCHANGED <<crashes, call, cancelled>>

\* The client of request r goes away; net/http cancels the request's context.
Cancel(r) ==
  /\ r \notin cancelled
  /\ cancelled' = cancelled \cup {r}
  /\ UNCHANGED <<process, crashes, call>>

-----------------------------------------------------------------------------
(***************************************************************************)
(* The verdict of CheckCluster on the health calls of request r.           *)
(***************************************************************************)

Available(r, n) ==
  /\ call[r][n].st = "ok"
  /\ call[r][n].response.id = n

ClusterStatus(r) ==
  LET available == {n \in Nodes : Available(r, n)} IN
    CASE available = Nodes -> "ready"
      [] available = {}    -> "unavailable"
      [] OTHER             -> "degraded"

\* 0 unless the available nodes agree.
FeatureCount(r) ==
  LET counts == {call[r][n].response.features :
                   n \in {m \in Nodes : Available(r, m)}} IN
    IF \E f \in counts : counts = {f} THEN CHOOSE f \in counts : TRUE ELSE 0

\* What each node reported; total_samples is the sum.
SamplesByNode(r) ==
  [n \in Nodes |-> IF Available(r, n) THEN call[r][n].response.samples ELSE 0]

=============================================================================
