------------------------------ MODULE AsyncRpc ------------------------------
(***************************************************************************)
(* The asynchronous request path of the dataset service: replicas of the   *)
(* gateway (cmd/gateway), core (cmd/core) and data (cmd/data) services that *)
(* talk over four durable RabbitMQ queues.                                 *)
(*                                                                         *)
(*   client --HTTP--> gateway --toCore--> core --toData--> data --> rows    *)
(*   client <--HTTP-- gateway <-toGateway- core <-fromData- data            *)
(*                                                                         *)
(* All replicas of a service consume the same queue, the reply queues      *)
(* included. A queue is a set of messages: two consumers with a prefetch   *)
(* handle messages in any order, and every message that is ever published  *)
(* is distinct. A delivery is removed from its queue when a replica starts *)
(* to handle it and put back when the replica fails before its ack.        *)
(***************************************************************************)
EXTENDS Naturals, FiniteSets

CONSTANTS
  Gateway, Core, Data,  \* the replicas of the three services
  Request,              \* the HTTP requests; one is its own correlation id
  Shape,                \* what each request asks, and as whom
  User, NoUser,         \* actors; NoUser is ActorID = 0
  Dataset, Version,     \* the rows of the database that requests aim at
  NoTarget,             \* the target of a request that aims at no row
  Owner, DatasetOf,     \* datasets.owner_id, dataset_versions.dataset_id
  NoMessage,            \* an idle replica handles no message
  Fallible,             \* the replicas that may fail
  MaxFailures           \* bound on the number of failures

Process == Gateway \cup Core \cup Data

ReadType   == "read"       \* every GET of the gateway
OpenTypes  == {"create"}   \* an actor is enough: dataset and review creation...
AdminTypes == {"admin"}    \* category and user management, access decisions
OwnerTypes == {"datasetUpdate", "datasetDelete", "versionAdd", "versionDelete"}
Types == {ReadType} \cup OpenTypes \cup AdminTypes \cup OwnerTypes
Roles == {"", "user", "admin", "guest"}

Shapes == [type : Types, actor : User \cup {NoUser}, role : Roles,
           target : Dataset \cup Version \cup {NoTarget}]

ASSUME ReplicasAssumption ==
  /\ Gateway \cap Core = {} /\ Gateway \cap Data = {} /\ Core \cap Data = {}
  /\ IsFiniteSet(Data)
  /\ Fallible \subseteq Process
  /\ MaxFailures \in Nat

ASSUME RowsAssumption ==
  /\ Owner \in [Dataset -> User]
  /\ DatasetOf \in [Version -> Dataset]
  /\ Dataset \cap Version = {}
  /\ NoUser \notin User

\* The gateway's read handlers send no actor, all its other handlers require
\* one; a request names a row of the table its path names.
ASSUME ShapeAssumption ==
  /\ Shape \in [Request -> Shapes]
  /\ \A r \in Request :
       /\ (Shape[r].type = ReadType) <=> (Shape[r].actor = NoUser)
       /\ Shape[r].type \in {"datasetUpdate", "datasetDelete", "versionAdd"}
            => Shape[r].target \in Dataset
       /\ Shape[r].type = "versionDelete" => Shape[r].target \in Version

\* A message to the data service. "forward" is the client's request itself and
\* keeps its id and correlation id however often it is published; "version" and
\* "dataset" are look-ups of the core with fresh ids; "check" is never published,
\* it stands for a request answered without asking the data service. A request
\* is published again only after a failure: the count of failures is the fresh id.
Message == [req : Request, step : {"check", "version", "dataset", "forward"},
            epoch : 0..MaxFailures]

\* Mutation: every publish gets a new id.
FreshMessageId(m) == <<m.req, m.step, m.epoch>>

MessageId(m) == IF m.step = "forward" THEN <<m.req>> ELSE <<m.req, m.step, m.epoch>>

\* Mutation: the look-ups of a request reuse its correlation id.
SharedCorrelation(m) == <<m.req>>

Correlation(m) == IF m.step = "forward" THEN <<m.req>> ELSE <<m.req, m.step, m.epoch>>

Reply  == [to : Message, result : {"ok", "refused"}, epoch : 0..MaxFailures]
Answer == [req : Request, result : {"ok", "refused", "coreTimeout"},
           epoch : 0..MaxFailures]

ASSUME NoMessageAssumption == NoMessage \notin Message

Answered == {"ok", "refused", "coreTimeout", "gatewayTimeout", "unavailable", "reset"}

VARIABLES
  status,         \* up, lost (broker connection gone, never reopened) or down
  client,         \* what the HTTP client of each request has seen
  pending,        \* gatewayApp.pending of each gateway
  toCore,         \* queue gateway.core.cmd
  core,           \* the request each core handles and the message it waits on
  coreProcessed,  \* coreApp.processed
  toData,         \* queue core.data.cmd
  data,           \* the message each data replica handles
  dataProcessed,  \* dataApp.processed
  fromData,       \* queue data.core.evt
  toGateway,      \* queue core.gateway.evt
  rows,           \* the datasets and versions in the database
  executed,       \* how often each request took effect in the database
  failures        \* failures so far

gatewayVars == <<client, pending>>
coreVars    == <<core, coreProcessed>>
dataVars    == <<data, dataProcessed, rows, executed>>
systemVars  == <<status, failures>>
vars == <<gatewayVars, coreVars, dataVars, systemVars,
          toCore, toData, fromData, toGateway>>

IdleCore == [pc |-> "idle", sent |-> NoMessage]
IdleData == [pc |-> "idle", msg |-> NoMessage, result |-> "refused"]

Init ==
  /\ status = [p \in Process |-> "up"]
  /\ client = [r \in Request |-> "new"]
  /\ pending = [g \in Gateway |-> {}]
  /\ toCore = {} /\ toData = {} /\ fromData = {} /\ toGateway = {}
  /\ core = [c \in Core |-> IdleCore]
  /\ coreProcessed = [c \in Core |-> {}]
  /\ data = [d \in Data |-> IdleData]
  /\ dataProcessed = [d \in Data |-> {}]
  /\ rows = Dataset \cup Version
  /\ executed = [r \in Request |-> 0]
  /\ failures = 0

-----------------------------------------------------------------------------
(* The gateway.                                                            *)

\* A handler registers its wait channel and publishes the request.
Submit(g, r) ==
  /\ status[g] = "up"
  /\ client[r] = "new"
  /\ client' = [client EXCEPT ![r] = "waiting"]
  /\ pending' = [pending EXCEPT ![g] = @ \cup {r}]
  /\ toCore' = toCore \cup {r}
  /\ UNCHANGED <<coreVars, dataVars, systemVars, toData, fromData, toGateway>>

\* The gateway has lost its broker connection: the publish fails at once.
SubmitUnavailable(g, r) ==
  /\ status[g] = "lost"
  /\ client[r] = "new"
  /\ client' = [client EXCEPT ![r] = "unavailable"]
  /\ UNCHANGED <<pending, coreVars, dataVars, systemVars,
                 toCore, toData, fromData, toGateway>>

\* Mutation: any waiting handler takes the answer.
GatewayReplyToAnyone(g, a) ==
  /\ status[g] = "up"
  /\ a \in toGateway
  /\ toGateway' = toGateway \ {a}
  /\ \E r \in pending[g] :
       /\ client' = [client EXCEPT ![r] = a.result]
       /\ pending' = [pending EXCEPT ![g] = @ \ {r}]
  /\ UNCHANGED <<coreVars, dataVars, systemVars, toCore, toData, fromData>>

\* The reply listener hands an answer to the handler that waits for it.
GatewayReply(g, a) ==
  /\ status[g] = "up"
  /\ a \in toGateway
  /\ a.req \in pending[g]
  /\ toGateway' = toGateway \ {a}
  /\ client' = [client EXCEPT ![a.req] = a.result]
  /\ pending' = [pending EXCEPT ![g] = @ \ {a.req}]
  /\ UNCHANGED <<coreVars, dataVars, systemVars, toCore, toData, fromData>>

\* No handler of this replica waits for the answer: it is acked and gone.
GatewayDropReply(g, a) ==
  /\ status[g] = "up"
  /\ a \in toGateway
  /\ a.req \notin pending[g]
  /\ toGateway' = toGateway \ {a}
  /\ UNCHANGED <<gatewayVars, coreVars, dataVars, systemVars, toCore, toData, fromData>>

\* Mutation: the wait channel stays registered after the timeout.
GatewayTimeoutKeepsPending(g, r) ==
  /\ status[g] \in {"up", "lost"}
  /\ r \in pending[g]
  /\ client[r] = "waiting"
  /\ client' = [client EXCEPT ![r] = "gatewayTimeout"]
  /\ UNCHANGED <<pending, coreVars, dataVars, systemVars,
                 toCore, toData, fromData, toGateway>>

\* The handler's context expires before an answer comes.
GatewayTimeout(g, r) ==
  /\ status[g] \in {"up", "lost"}
  /\ r \in pending[g]
  /\ client' = [client EXCEPT ![r] = "gatewayTimeout"]
  /\ pending' = [pending EXCEPT ![g] = @ \ {r}]
  /\ UNCHANGED <<coreVars, dataVars, systemVars, toCore, toData, fromData, toGateway>>

-----------------------------------------------------------------------------
(* The core: one request at a time, from delivery to ack.                  *)

\* requireActor and the checks of enforceAccess that need no look-up.
Admissible(r) ==
  /\ Shape[r].actor # NoUser
  /\ Shape[r].role # "guest"
  /\ Shape[r].type \in AdminTypes => Shape[r].role = "admin"

\* Mutation: a version is deleted without asking for its owner.
FirstStepForDatasets(r) ==
  IF Shape[r].type \in OwnerTypes \ {"versionDelete"} THEN "dataset" ELSE "forward"

\* What enforceAccess asks the data service first, if anything.
FirstStep(r) ==
  IF Shape[r].type = "versionDelete" THEN "version"
  ELSE IF Shape[r].type \in OwnerTypes THEN "dataset" ELSE "forward"

TargetDataset(r) ==
  IF Shape[r].type = "versionDelete" THEN DatasetOf[Shape[r].target] ELSE Shape[r].target

\* ensureDatasetOwner, once the dataset has been fetched.
OwnerOrAdmin(r) ==
  \/ Owner[TargetDataset(r)] = Shape[r].actor
  \/ Shape[r].role = "admin"

Fresh(r, step) == [req |-> r, step |-> step, epoch |-> failures]

\* forwardToData: register the wait channel and publish to core.data.cmd.
SendToData(c, m) ==
  /\ core' = [core EXCEPT ![c] = [pc |-> "waiting", sent |-> m]]
  /\ toData' = toData \cup {m}
  /\ toGateway' = toGateway

\* Publish the outcome to core.gateway.evt; the delivery is acked afterwards.
AnswerGateway(c, m, result) ==
  /\ core' = [core EXCEPT ![c] = [pc |-> "answered", sent |-> m]]
  /\ toGateway' = toGateway \cup
       {[req |-> m.req, result |-> result, epoch |-> failures]}
  /\ toData' = toData

\* A delivery: a known id is acked without a word, a request that fails the
\* first checks is answered, any other causes a message to the data service.
CoreReceive(c, r) ==
  /\ status[c] = "up"
  /\ core[c].pc = "idle"
  /\ r \in toCore
  /\ toCore' = toCore \ {r}
  /\ IF r \in coreProcessed[c] THEN UNCHANGED <<core, toData, toGateway>>
     ELSE IF ~Admissible(r) THEN AnswerGateway(c, Fresh(r, "check"), "refused")
     ELSE SendToData(c, Fresh(r, FirstStep(r)))
  /\ UNCHANGED <<coreProcessed, gatewayVars, dataVars, systemVars, fromData>>

\* The reply listener finds the channel of the call that is in progress.
Awaits(c, p) ==
  /\ core[c].pc = "waiting"
  /\ Correlation(p.to) = Correlation(core[c].sent)

\* A look-up of enforceAccess returns.
CoreLookupReply(c, p) ==
  LET m == core[c].sent IN
  /\ status[c] = "up"
  /\ p \in fromData
  /\ Awaits(c, p)
  /\ m.step \in {"version", "dataset"}
  /\ fromData' = fromData \ {p}
  /\ IF p.result = "refused" THEN AnswerGateway(c, m, "refused")
     ELSE IF m.step = "version" THEN SendToData(c, Fresh(m.req, "dataset"))
     ELSE IF OwnerOrAdmin(m.req) THEN SendToData(c, Fresh(m.req, "forward"))
     ELSE AnswerGateway(c, m, "refused")
  /\ UNCHANGED <<coreProcessed, gatewayVars, dataVars, systemVars, toCore>>

\* The forwarded request returns: its id is remembered, then the reply goes on.
CoreForwardReply(c, p) ==
  LET m == core[c].sent IN
  /\ status[c] = "up"
  /\ p \in fromData
  /\ Awaits(c, p)
  /\ m.step = "forward"
  /\ fromData' = fromData \ {p}
  /\ coreProcessed' = [coreProcessed EXCEPT ![c] = @ \cup {m.req}]
  /\ AnswerGateway(c, m, p.result)
  /\ UNCHANGED <<gatewayVars, dataVars, systemVars, toCore>>

\* A reply nobody on this replica waits for is acked and gone.
CoreDropReply(c, p) ==
  /\ status[c] = "up"
  /\ p \in fromData
  /\ ~Awaits(c, p)
  /\ fromData' = fromData \ {p}
  /\ UNCHANGED <<gatewayVars, coreVars, dataVars, systemVars, toCore, toData, toGateway>>

\* Mutation: the same message is published again.
CoreTimeoutRetries(c) ==
  /\ status[c] = "up"
  /\ core[c].pc = "waiting"
  /\ SendToData(c, core[c].sent)
  /\ UNCHANGED <<coreProcessed, gatewayVars, dataVars, systemVars, toCore, fromData>>

\* Mutation: the error goes to the broker and not to the gateway.
CoreTimeoutUnanswered(c) ==
  /\ status[c] = "up"
  /\ core[c].pc = "waiting"
  /\ core' = [core EXCEPT ![c] = IdleCore]
  /\ UNCHANGED <<coreProcessed, gatewayVars, dataVars, systemVars,
                 toCore, toData, fromData, toGateway>>

\* Mutation: only a reply ends the wait.
CoreNeverTimesOut(c) ==
  /\ core[c].pc = "waiting" /\ core[c].pc = "idle"
  /\ UNCHANGED vars

\* forwardToData gives up; whichever call it was, sendError answers.
CoreTimeout(c) ==
  /\ status[c] = "up"
  /\ core[c].pc = "waiting"
  /\ AnswerGateway(c, core[c].sent, "coreTimeout")
  /\ UNCHANGED <<coreProcessed, gatewayVars, dataVars, systemVars, toCore, fromData>>

\* Mutation: the delivery is put back instead of acked.
CoreNackRequeue(c) ==
  /\ status[c] = "up"
  /\ core[c].pc = "answered"
  /\ core' = [core EXCEPT ![c] = IdleCore]
  /\ toCore' = toCore \cup {core[c].sent.req}
  /\ UNCHANGED <<coreProcessed, gatewayVars, dataVars, systemVars,
                 toData, fromData, toGateway>>

\* The handler has returned nil: handleDelivery acks.
CoreAck(c) ==
  /\ status[c] = "up"
  /\ core[c].pc = "answered"
  /\ core' = [core EXCEPT ![c] = IdleCore]
  /\ UNCHANGED <<coreProcessed, gatewayVars, dataVars, systemVars,
                 toCore, toData, fromData, toGateway>>

-----------------------------------------------------------------------------
(* The data service: one message at a time, from delivery to ack.          *)

DataReceive(d, m) ==
  /\ status[d] = "up"
  /\ data[d].pc = "idle"
  /\ m \in toData
  /\ MessageId(m) \notin dataProcessed[d]
  /\ toData' = toData \ {m}
  /\ data' = [data EXCEPT ![d] = [pc |-> "received", msg |-> m, result |-> "refused"]]
  /\ UNCHANGED <<dataProcessed, rows, executed, gatewayVars, coreVars, systemVars,
                 toCore, fromData, toGateway>>

\* "duplicate message ignored": acked, and no reply is sent.
DataIgnoreDuplicate(d, m) ==
  /\ status[d] = "up"
  /\ data[d].pc = "idle"
  /\ m \in toData
  /\ MessageId(m) \in dataProcessed[d]
  /\ toData' = toData \ {m}
  /\ UNCHANGED <<gatewayVars, coreVars, dataVars, systemVars, toCore, fromData, toGateway>>

\* The row a message needs, if it needs one.
Needs(m) ==
  LET s == Shape[m.req] IN
  CASE m.step = "version" -> {s.target}
    [] m.step = "dataset" -> {TargetDataset(m.req)}
    [] m.step = "forward" /\ s.type \in OwnerTypes -> {s.target}
    [] OTHER -> {}

\* The rows a forwarded request deletes; versions go with their dataset.
Removes(r) ==
  CASE Shape[r].type = "versionDelete" -> {Shape[r].target}
    [] Shape[r].type = "datasetDelete" ->
         {Shape[r].target} \cup {v \in Version : DatasetOf[v] = Shape[r].target}
    [] OTHER -> {}

\* The repository call succeeds and, for a forwarded request, commits. It needs
\* no broker connection.
DataExecute(d) ==
  LET m == data[d].msg IN
  /\ status[d] \in {"up", "lost"}
  /\ data[d].pc = "received"
  /\ Needs(m) \subseteq rows
  /\ data' = [data EXCEPT ![d].pc = "executed", ![d].result = "ok"]
  /\ IF m.step = "forward"
     THEN /\ executed' = [executed EXCEPT ![m.req] = @ + 1]
          /\ rows' = rows \ Removes(m.req)
     ELSE UNCHANGED <<executed, rows>>
  /\ UNCHANGED <<dataProcessed, gatewayVars, coreVars, systemVars,
                 toCore, toData, fromData, toGateway>>

\* Mutation: an error is reported after the commit.
DataRejectLate(d) ==
  /\ status[d] \in {"up", "lost"}
  /\ data[d].pc \in {"received", "executed"}
  /\ data' = [data EXCEPT ![d].pc = "executed", ![d].result = "refused"]
  /\ UNCHANGED <<dataProcessed, rows, executed, gatewayVars, coreVars, systemVars,
                 toCore, toData, fromData, toGateway>>

\* Mutation: a failed repository call is acked without a reply.
DataRejectSilently(d) ==
  /\ status[d] \in {"up", "lost"}
  /\ data[d].pc = "received"
  /\ data' = [data EXCEPT ![d] = IdleData]
  /\ UNCHANGED <<dataProcessed, rows, executed, gatewayVars, coreVars, systemVars,
                 toCore, toData, fromData, toGateway>>

\* The repository call fails: no such row, or the database refuses.
DataReject(d) ==
  /\ status[d] \in {"up", "lost"}
  /\ data[d].pc = "received"
  /\ data' = [data EXCEPT ![d].pc = "executed", ![d].result = "refused"]
  /\ UNCHANGED <<dataProcessed, rows, executed, gatewayVars, coreVars, systemVars,
                 toCore, toData, fromData, toGateway>>

\* The reply is published and, the handler returning nil, the id remembered.
DataReply(d) ==
  LET m == data[d].msg IN
  /\ status[d] = "up"
  /\ data[d].pc = "executed"
  /\ fromData' = fromData \cup
       {[to |-> m, result |-> data[d].result, epoch |-> failures]}
  /\ dataProcessed' = [dataProcessed EXCEPT ![d] = @ \cup {MessageId(m)}]
  /\ data' = [data EXCEPT ![d].pc = "replied"]
  /\ UNCHANGED <<rows, executed, gatewayVars, coreVars, systemVars,
                 toCore, toData, toGateway>>

\* Without a broker connection the publish fails and the handler gives up.
DataReplyFails(d) ==
  /\ status[d] = "lost"
  /\ data[d].pc = "executed"
  /\ data' = [data EXCEPT ![d] = IdleData]
  /\ UNCHANGED <<dataProcessed, rows, executed, gatewayVars, coreVars, systemVars,
                 toCore, toData, fromData, toGateway>>

DataAck(d) ==
  /\ status[d] = "up"
  /\ data[d].pc = "replied"
  /\ data' = [data EXCEPT ![d] = IdleData]
  /\ UNCHANGED <<dataProcessed, rows, executed, gatewayVars, coreVars, systemVars,
                 toCore, toData, fromData, toGateway>>

-----------------------------------------------------------------------------
(* Failures.                                                               *)

\* Mutation: an idle data replica has something to put back.
RequeueIdle(p) ==
  /\ toCore' = toCore
  /\ toData' = toData \cup {data[d].msg : d \in {k \in Data : k = p}}

\* The broker puts back what a replica had not acked when its channel closes.
Requeue(p) ==
  /\ toCore' = toCore \cup
       {core[c].sent.req : c \in {k \in Core :
          k = p /\ status[k] = "up" /\ core[k].pc # "idle"}}
  /\ toData' = toData \cup
       {data[d].msg : d \in {k \in Data :
          k = p /\ status[k] = "up" /\ data[k].pc # "idle"}}

\* The process dies with everything it keeps in memory.
Crash(p) ==
  /\ failures < MaxFailures
  /\ p \in Fallible
  /\ status[p] \in {"up", "lost"}
  /\ failures' = failures + 1
  /\ status' = [status EXCEPT ![p] = "down"]
  /\ Requeue(p)
  /\ client' = [r \in Request |->
       IF p \in Gateway /\ r \in pending[p] THEN "reset" ELSE client[r]]
  /\ pending' = [g \in Gateway |-> IF g = p THEN {} ELSE pending[g]]
  /\ core' = [c \in Core |-> IF c = p THEN IdleCore ELSE core[c]]
  /\ coreProcessed' = [c \in Core |-> IF c = p THEN {} ELSE coreProcessed[c]]
  /\ data' = [d \in Data |-> IF d = p THEN IdleData ELSE data[d]]
  /\ dataProcessed' = [d \in Data |-> IF d = p THEN {} ELSE dataProcessed[d]]
  /\ UNCHANGED <<rows, executed, fromData, toGateway>>

\* The broker connection breaks and nothing reopens it. A handler in progress
\* goes on: a core can publish no more, a data replica may still commit.
Disconnect(p) ==
  /\ failures < MaxFailures
  /\ p \in Fallible
  /\ status[p] = "up"
  /\ failures' = failures + 1
  /\ status' = [status EXCEPT ![p] = "lost"]
  /\ Requeue(p)
  /\ core' = [c \in Core |-> IF c = p THEN IdleCore ELSE core[c]]
  /\ data' = [d \in Data |->
       IF d = p /\ data[d].pc = "replied" THEN IdleData ELSE data[d]]
  /\ UNCHANGED <<gatewayVars, coreProcessed, dataProcessed, rows, executed,
                 fromData, toGateway>>

Restart(p) ==
  /\ status[p] = "down"
  /\ status' = [status EXCEPT ![p] = "up"]
  /\ UNCHANGED <<failures, gatewayVars, coreVars, dataVars,
                 toCore, toData, fromData, toGateway>>

-----------------------------------------------------------------------------
GatewayNext(g) ==
  \/ \E r \in Request :
       Submit(g, r) \/ SubmitUnavailable(g, r) \/ GatewayTimeout(g, r)
  \/ \E a \in toGateway : GatewayReply(g, a) \/ GatewayDropReply(g, a)

CoreNext(c) ==
  \/ \E r \in toCore : CoreReceive(c, r)
  \/ \E p \in fromData :
       CoreLookupReply(c, p) \/ CoreForwardReply(c, p) \/ CoreDropReply(c, p)
  \/ CoreTimeout(c) \/ CoreAck(c)

DataNext(d) ==
  \/ \E m \in toData : DataReceive(d, m) \/ DataIgnoreDuplicate(d, m)
  \/ DataExecute(d) \/ DataReject(d)
  \/ DataReply(d) \/ DataReplyFails(d) \/ DataAck(d)

Next ==
  \/ \E g \in Gateway : GatewayNext(g)
  \/ \E c \in Core : CoreNext(c)
  \/ \E d \in Data : DataNext(d)
  \/ \E p \in Process : Crash(p) \/ Disconnect(p) \/ Restart(p)

Spec == Init /\ [][Next]_vars

(* A replica that is up and has work gets on with it: the consume loops and *)
(* the context deadlines of the code run in goroutines of their own. Nobody *)
(* promises that a request comes, that a failure happens or is repaired.    *)
Fairness ==
  /\ \A g \in Gateway :
       /\ WF_vars(\E a \in toGateway : GatewayReply(g, a) \/ GatewayDropReply(g, a))
       /\ \A r \in Request : WF_vars(GatewayTimeout(g, r))
  /\ \A c \in Core :
       /\ WF_vars(\E r \in toCore : CoreReceive(c, r))
       /\ WF_vars(\E p \in fromData :
            CoreLookupReply(c, p) \/ CoreForwardReply(c, p) \/ CoreDropReply(c, p))
       /\ WF_vars(CoreTimeout(c))
       /\ WF_vars(CoreAck(c))
  /\ \A d \in Data : WF_vars(DataNext(d))

FairSpec == Spec /\ Fairness

-----------------------------------------------------------------------------
(* Properties.                                                             *)

\* Every variable holds values of its type.
TypeOK ==
  /\ status \in [Process -> {"up", "lost", "down"}]
  /\ client \in [Request -> {"new", "waiting"} \cup Answered]
  /\ pending \in [Gateway -> SUBSET Request]
  /\ toCore \subseteq Request
  /\ toData \subseteq Message
  /\ fromData \subseteq Reply
  /\ toGateway \subseteq Answer
  /\ core \in [Core -> [pc : {"idle", "waiting", "answered"},
                        sent : Message \cup {NoMessage}]]
  /\ \A c \in Core : core[c].pc # "idle" => core[c].sent \in Message
  /\ coreProcessed \in [Core -> SUBSET Request]
  /\ data \in [Data -> [pc : {"idle", "received", "executed", "replied"},
                        msg : Message \cup {NoMessage}, result : {"ok", "refused"}]]
  /\ \A d \in Data : data[d].pc # "idle" => data[d].msg \in Message
  /\ dataProcessed \in [Data -> SUBSET {MessageId(m) : m \in Message}]
  /\ rows \subseteq Dataset \cup Version
  /\ executed \in [Request -> Nat]
  /\ failures \in 0..MaxFailures

\* A client that reads "ok" is told the truth: its request took effect, whatever
\* replicas failed, whatever was redelivered, and whichever execution the answer
\* came from (forwardToData, startDataReplies, startReplyListener).
OkMeansExecuted == \A r \in Request : client[r] = "ok" => executed[r] > 0

\* Who may have a request carried out, in one place instead of along the path.
Permitted(r) ==
  /\ Shape[r].actor # NoUser
  /\ Shape[r].role # "guest"
  /\ Shape[r].type \in AdminTypes => Shape[r].role = "admin"
  /\ Shape[r].type \in OwnerTypes =>
       \/ Shape[r].role = "admin"
       \/ Shape[r].actor = Owner[IF Shape[r].target \in Version
                                 THEN DatasetOf[Shape[r].target] ELSE Shape[r].target]

\* The data service checks nothing itself, and what the core checked is several
\* messages old when the request runs: still only permitted requests take effect.
OnlyPermittedExecuted == \A r \in Request : executed[r] > 0 => Permitted(r)

\* Without failures a refused request has no effect, then or later.
RefusedMeansUntouched ==
  \A r \in Request : failures = 0 /\ client[r] = "refused" => executed[r] = 0

\* A request runs again only where a failure made the broker redeliver it: each
\* failure pays for at most one more execution.
FailuresPayForRepeats == \A r \in Request : executed[r] <= 1 + failures

\* The processed map of a data replica that does not fail keeps it from running
\* a request twice, however often failing cores publish it.
SteadyReplicasExecuteOnce ==
  Fallible \cap Data = {} => \A r \in Request : executed[r] <= Cardinality(Data)

\* A late or duplicate answer never changes what a client was told (the deferred
\* delete of gatewayApp.rpc).
AnswersAreFinal ==
  [][\A r \in Request : client[r] \in Answered => client'[r] = client[r]]_vars

\* A redelivered request is new to every core that can receive it: the duplicate
\* check at the head of handleGatewayMessage never swallows a request in silence.
RedeliveredRequestIsNew ==
  \A c \in Core, r \in toCore : status[c] = "up" => r \notin coreProcessed[c]

\* While a client waits its request, or the answer to it, is on its way: no
\* answer is consumed by a replica that does not wait for it (the deployment note
\* says that every service can be scaled).
WaitingRequestIsInFlight ==
  \A r \in Request : client[r] = "waiting" =>
    \/ r \in toCore
    \/ \E c \in Core : core[c].pc = "waiting" /\ core[c].sent.req = r
    \/ \E a \in toGateway : a.req = r

\* The same between core and data, without failures: while a core waits, its
\* message or the reply to it is on its way. (A failed core's request comes again
\* under an id the data service may know, and then nobody replies.)
CoreWaitIsInFlight ==
  \A c \in Core : failures = 0 /\ core[c].pc = "waiting" =>
    \/ core[c].sent \in toData
    \/ \E d \in Data : data[d].pc \in {"received", "executed"} /\ data[d].msg = core[c].sent
    \/ \E p \in fromData : p.to = core[c].sent

\* As long as one replica of each service stays, every queue is emptied, every
\* replica gets free again and no client waits for ever, lost replies and
\* silently ignored duplicates notwithstanding.
EventuallyDrained ==
  <>[](/\ toCore = {} /\ toData = {} /\ fromData = {} /\ toGateway = {}
       /\ \A c \in Core : core[c].pc = "idle"
       /\ \A d \in Data : data[d].pc = "idle"
       /\ \A r \in Request : client[r] # "waiting")

Contract == INSTANCE RpcContract WITH
  Outcome <- Answered,
  Allowed <- {r \in Request : Permitted(r)},
  Deletes <- [r \in Request |-> Removes(r)],
  Rows    <- Dataset \cup Version

\* Seen from the clients and the database alone, the replicas, queues, look-ups,
\* timeouts and failures implement an atomic service: the dataset owner is looked
\* up long before the request runs, yet the request is permitted when it runs.
ImplementsContract == Contract!Spec

=============================================================================
