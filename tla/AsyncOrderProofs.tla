--------------------------- MODULE AsyncOrderProofs ---------------------------
(***************************************************************************)
(* AsyncRpc before the first failure. Messages then differ in their ids, a  *)
(* request takes its steps one by one, and the data service sees each of its *)
(* messages once. It follows that a refusal is the truth, and that a core     *)
(* that is alone never waits in vain.                                       *)
(***************************************************************************)
EXTENDS AsyncRpcProofs

Steps == {"check", "version", "dataset", "forward"}

Rank(step) ==
  CASE step = "check" -> 0 [] step = "version" -> 1 [] step = "dataset" -> 2 [] OTHER -> 3

\* The id of the message for a step of a request.
IdOf(r, step) == MessageId([req |-> r, step |-> step, epoch |-> 0])

\* The message for a step has been published.
Came(r, step) ==
  \/ \E m \in toData : m.req = r /\ m.step = step
  \/ \E d \in Data : data[d].pc # "idle" /\ data[d].msg.req = r /\ data[d].msg.step = step
  \/ \E d \in Data : IdOf(r, step) \in dataProcessed[d]

\* No message is a repetition.
First ==
  /\ \A p \in Process : status[p] = "up"
  /\ \A m \in toData : m.epoch = 0
  /\ \A c \in Core : core[c].pc = "waiting" => core[c].sent.epoch = 0
  /\ \A d \in Data : data[d].pc # "idle" => data[d].msg.epoch = 0
  /\ \A p \in fromData : p.to.epoch = 0

\* A request takes its steps in their order, and none before it reaches a core.
InOrder ==
  \A r \in Request : \A step \in Steps : Came(r, step) =>
    /\ client[r] # "new"
    /\ r \notin toCore
    /\ \A c \in Core : WaitsFor(c, r) => Rank(step) <= Rank(core[c].sent.step)

\* The data service sees every message once and remembers what it has answered.
SeenOnce ==
  /\ \A m \in toData, d \in Data :
       /\ data[d].pc # "idle" => data[d].msg # m
       /\ MessageId(m) \notin dataProcessed[d]
  /\ \A d, k \in Data : data[d].pc \in {"received", "executed"} =>
       /\ MessageId(data[d].msg) \notin dataProcessed[k]
       /\ data[k].pc # "idle" /\ k # d => data[k].msg # data[d].msg
  /\ \A p \in fromData : \E d \in Data : MessageId(p.to) \in dataProcessed[d]

\* The forwarded message of a request is about to run.
Coming(r) == Queued(r) # {} \/ Received(r) # {}

\* A request that can no longer run.
Dead(r) == executed[r] = 0 /\ ~Unsent(r) /\ ~Coming(r) /\ \A c \in Core : ~WaitsFor(c, r)

\* The result "refused" of a forwarded request is the one of its only execution.
Truthful ==
  /\ \A r \in Request : executed[r] > 0 => Came(r, "forward") /\ ~Coming(r)
  /\ \A d \in Data : data[d].pc \in {"executed", "replied"} /\ data[d].msg.step = "forward"
       /\ data[d].result = "refused" => executed[data[d].msg.req] = 0
  /\ \A p \in fromData : p.to.step = "forward" /\ p.result = "refused" => executed[p.to.req] = 0
  /\ \A a \in toGateway : a.result = "refused" => Dead(a.req)
  /\ \A r \in Request : client[r] = "refused" => Dead(r)

Orderly == First /\ InOrder /\ SeenOnce /\ Truthful

Calm == failures = 0 => Orderly /\ (OneCore => CoreWaitIsInFlight)

\* Without a failure ids and fields tell messages apart.
LEMMA SameMessage ==
  ASSUME NEW m \in Message, NEW n \in Message,
         m.req = n.req, m.step = n.step, m.epoch = n.epoch
  PROVE  m = n
  BY DEF Message

LEMMA IdOfMessage ==
  ASSUME NEW m \in Message, m.epoch = 0
  PROVE  MessageId(m) = IdOf(m.req, m.step)
  BY DEF Message, MessageId, IdOf

LEMMA IdsDiffer ==
  ASSUME NEW q, NEW r, NEW s \in Steps, NEW t \in Steps, IdOf(q, s) = IdOf(r, t)
  PROVE  q = r /\ s = t
  <1>1. \A x, y : IdOf(x, y) = IF y = "forward" THEN <<x>> ELSE <<x, y, 0>>
    BY DEF IdOf, MessageId
  <1>2. \A x, y, z : <<x>> # <<y, z, 0>>
    OBVIOUS
  <1>3. CASE s = "forward" /\ t = "forward"
    BY <1>1, <1>3
  <1>4. CASE s # "forward" /\ t # "forward"
    BY <1>1, <1>4
  <1>5. CASE s = "forward" /\ t # "forward"
    BY <1>1, <1>2, <1>5
  <1>6. CASE s # "forward" /\ t = "forward"
    BY <1>1, <1>2, <1>6
  <1> QED
    BY <1>3, <1>4, <1>5, <1>6

LEMMA SameId ==
  ASSUME NEW m \in Message, NEW n \in Message, m.epoch = 0, n.epoch = 0, MessageId(m) = MessageId(n)
  PROVE  m = n
  <1>1. m.step \in Steps /\ n.step \in Steps
    BY DEF Message, Steps
  <1>2. m.req = n.req /\ m.step = n.step
    BY <1>1, IdOfMessage, IdsDiffer
  <1> QED
    BY <1>2, SameMessage

\* The messages in sight.
LEMMA MessagesInSight ==
  ASSUME TypeOK
  PROVE  /\ toData \subseteq Message /\ \A m \in toData : m.req \in Request /\ m.step \in Steps
         /\ \A d \in Data : data[d].pc # "idle" =>
              data[d].msg \in Message /\ data[d].msg.req \in Request /\ data[d].msg.step \in Steps
         /\ \A c \in Core : core[c].pc # "idle" =>
              core[c].sent \in Message /\ core[c].sent.req \in Request /\ core[c].sent.step \in Steps
         /\ \A p \in fromData : p.to \in Message /\ p.to.req \in Request /\ p.to.step \in Steps
         /\ \A a \in toGateway : a.req \in Request
  BY DEF TypeOK, Message, Reply, Answer, Steps

\* What comes when the core sends a message, and when the data service works.
LEMMA CameBySend ==
  ASSUME NEW m, toData' = toData \cup {m}, UNCHANGED <<data, dataProcessed>>, NEW q, NEW s
  PROVE  Came(q, s)' <=> Came(q, s) \/ (m.req = q /\ m.step = s)
  BY DEF Came

LEMMA CameUnchanged ==
  ASSUME UNCHANGED <<toData, data, dataProcessed>>, NEW q, NEW s
  PROVE  Came(q, s)' <=> Came(q, s)
  BY DEF Came

\* The steps of the data service without failures.
DataWork(d) ==
  \/ \E m \in toData : DataReceive(d, m)
  \/ DataExecute(d) \/ DataReject(d) \/ DataReply(d) \/ DataAck(d)

LEMMA CameByData ==
  ASSUME IInv, Deduplicated, First, NEW d \in Data, DataWork(d),
         NEW q \in Request, NEW s \in Steps
  PROVE  Came(q, s)' <=> Came(q, s)
  <1> USE DEF gatewayVars, coreVars, dataVars, systemVars
  <1>1. ASSUME NEW m \in toData, DataReceive(d, m) PROVE Came(q, s)' <=> Came(q, s)
    <2>1. /\ toData' = toData \ {m} /\ dataProcessed' = dataProcessed
          /\ data[d].pc = "idle" /\ data'[d].pc = "received" /\ data'[d].msg = m
          /\ \A k \in Data : k # d => data'[k] = data[k]
      BY <1>1 DEF DataReceive, IInv, TypeOK
    <2> QED
      BY <2>1 DEF Came
  <1>2. CASE DataExecute(d) \/ DataReject(d)
    <2>1. /\ toData' = toData /\ dataProcessed' = dataProcessed
          /\ \A k \in Data : data'[k].msg = data[k].msg /\ (data'[k].pc = "idle" <=> data[k].pc = "idle")
      BY <1>2 DEF DataExecute, DataReject, IInv, TypeOK
    <2> QED
      BY <2>1 DEF Came
  <1>3. CASE DataReply(d)
    <2> DEFINE m == data[d].msg
    <2>1. /\ toData' = toData /\ m \in Message /\ data[d].pc # "idle"
          /\ dataProcessed'[d] = dataProcessed[d] \cup {MessageId(m)}
          /\ \A k \in Data : k # d => dataProcessed'[k] = dataProcessed[k]
          /\ \A k \in Data : data'[k].msg = data[k].msg /\ (data'[k].pc = "idle" <=> data[k].pc = "idle")
      BY <1>3 DEF DataReply, IInv, TypeOK
    <2>2. MessageId(m) = IdOf(m.req, m.step) /\ m.step \in Steps
      BY <2>1, IdOfMessage, MessagesInSight DEF First, IInv
    <2>3. IdOf(q, s) = MessageId(m) => m.req = q /\ m.step = s
      BY <2>2, IdsDiffer
    <2> QED
      BY <2>1, <2>3 DEF Came
  <1>4. CASE DataAck(d)
    <2> DEFINE m == data[d].msg
    <2>1. /\ toData' = toData /\ dataProcessed' = dataProcessed
          /\ data[d].pc = "replied" /\ data'[d].pc = "idle" /\ m \in Message
          /\ \A k \in Data : k # d => data'[k] = data[k]
      BY <1>4 DEF DataAck, IdleData, IInv, TypeOK
    <2>2. IdOf(m.req, m.step) \in dataProcessed[d]
      BY <2>1, IdOfMessage DEF First, Deduplicated, Noted
    <2> QED
      BY <2>1, <2>2 DEF Came
  <1> QED
    BY <1>1, <1>2, <1>3, <1>4 DEF DataWork

\* A queued or received forward has come.
LEMMA ComingHasCome ==
  ASSUME NEW q, Coming(q)
  PROVE  Came(q, "forward")
  BY DEF Coming, Queued, Received, Forward, Came

\* The next message of a request, sent by the core that has the request in hand.
Sends(c, m) ==
  /\ m \in Message /\ m.req \in Request /\ m.epoch = 0 /\ m.step \in Steps
  /\ core'[c].pc = "waiting" /\ core'[c].sent = m
  /\ \A k \in Core : k # c => core'[k] = core[k] /\ ~Holds(k, m.req)
  /\ toData' = toData \cup {m} /\ toCore' = toCore \ {m.req}
  /\ client[m.req] # "new" /\ Unsent(m.req)
  /\ UNCHANGED <<client, data, dataProcessed, executed, status, toGateway>>
  /\ fromData' \subseteq fromData
  /\ \A s \in Steps : Came(m.req, s) => Rank(s) < Rank(m.step)

\* The answer to a request whose work is over.
Answers(c, r, result) ==
  /\ r \in Request
  /\ core'[c].pc = "answered"
  /\ \A k \in Core : k # c => core'[k] = core[k] /\ ~Holds(k, r)
  /\ core[c].pc # "idle" => core[c].sent.req = r
  /\ toCore' = toCore \ {r}
  /\ client[r] # "new"
  /\ \E e : toGateway' = toGateway \cup {[req |-> r, result |-> result, epoch |-> e]}
  /\ UNCHANGED <<client, toData, data, dataProcessed, executed, status>>
  /\ fromData' \subseteq fromData
  /\ result = "refused" => executed[r] = 0 /\ ~Coming(r)

LEMMA ReceiveIsOrderly ==
  ASSUME IInv, Delivery, failures = 0, Orderly, NEW c \in Core, NEW r \in toCore, CoreReceive(c, r)
  PROVE  (\E m : Sends(c, m)) \/ Answers(c, r, "refused")
  <1> USE DEF gatewayVars, coreVars, dataVars, systemVars
  <1>1. /\ r \in Request /\ client[r] # "new" /\ \A k \in Core : ~Holds(k, r)
        /\ core[c].pc = "idle" /\ r \notin coreProcessed[c]
        /\ toCore' = toCore \ {r} /\ fromData' = fromData
        /\ UNCHANGED <<client, data, dataProcessed, executed, status>>
    BY DEF CoreReceive, IInv, TypeOK, Accepted, Delivery, OnePlace, Remembered
  <1>2. \A s \in Steps : ~Came(r, s)
    BY <1>1 DEF Orderly, InOrder
  <1>3. /\ Fresh(r, FirstStep(r)) \in Message /\ Fresh(r, FirstStep(r)).req = r
        /\ Fresh(r, FirstStep(r)).epoch = 0 /\ Fresh(r, FirstStep(r)).step \in Steps
        /\ Fresh(r, "check").req = r
    BY <1>1, FreshIsMessage, FirstStepType DEF IInv, Fresh, Steps
  <1>4. CASE ~Admissible(r)
    <2>1. AnswerGateway(c, Fresh(r, "check"), "refused")
      BY <1>1, <1>4 DEF CoreReceive
    <2>2. executed[r] = 0 /\ ~Coming(r)
      BY <1>1, <1>2, ComingHasCome DEF Orderly, Truthful, IInv, TypeOK, Steps
    <2>3. /\ core'[c].pc = "answered" /\ toData' = toData
          /\ \A k \in Core : k # c => core'[k] = core[k]
          /\ toGateway' = toGateway \cup {[req |-> r, result |-> "refused", epoch |-> failures]}
      BY <1>3, <2>1 DEF AnswerGateway, IInv, TypeOK
    <2> QED
      BY <1>1, <2>2, <2>3 DEF Answers
  <1>5. CASE Admissible(r)
    <2> DEFINE m == Fresh(r, FirstStep(r))
    <2>1. SendToData(c, m)
      BY <1>1, <1>5 DEF CoreReceive
    <2>2. /\ core'[c].pc = "waiting" /\ core'[c].sent = m /\ toData' = toData \cup {m}
          /\ \A k \in Core : k # c => core'[k] = core[k]
          /\ toGateway' = toGateway
      BY <2>1 DEF SendToData, IInv, TypeOK
    <2> HIDE DEF m
    <2>3. Unsent(r)
      BY DEF Unsent
    <2>4. Sends(c, m)
      BY <1>1, <1>2, <1>3, <2>2, <2>3 DEF Sends, m
    <2> QED
      BY <2>4
  <1> QED
    BY <1>4, <1>5

LEMMA LookupIsOrderly ==
  ASSUME IInv, Delivery, failures = 0, Orderly, NEW c \in Core, NEW p \in fromData, CoreLookupReply(c, p)
  PROVE  (\E m : Sends(c, m)) \/ Answers(c, core[c].sent.req, "refused")
  <1> USE DEF gatewayVars, coreVars, dataVars, systemVars
  <1> DEFINE n == core[c].sent
             r == n.req
  <1>1. core[c].pc = "waiting" /\ n \in Message /\ r \in Request /\ n.step \in {"version", "dataset"}
    BY DEF IInv, TypeOK, CoreLookupReply, Awaits, Message
  <1>2. Holds(c, r) /\ WaitsFor(c, r)
    BY <1>1 DEF Holds, WaitsFor
  <1>3. /\ client[r] # "new" /\ r \notin toCore /\ \A k \in Core : k # c => ~Holds(k, r)
    BY <1>1, <1>2 DEF IInv, Accepted, Delivery, OnePlace
  <1>4. toCore' = toCore \ {r} /\ UNCHANGED <<client, data, dataProcessed, executed, status>>
        /\ fromData' \subseteq fromData
    BY <1>3 DEF CoreLookupReply
  <1>5. \A s \in Steps : Came(r, s) => Rank(s) <= Rank(n.step)
    BY <1>1, <1>2 DEF Orderly, InOrder
  <1>6. /\ Fresh(r, "dataset") \in Message /\ Fresh(r, "forward") \in Message
        /\ Fresh(r, "dataset").req = r /\ Fresh(r, "dataset").step = "dataset" /\ Fresh(r, "dataset").epoch = 0
        /\ Fresh(r, "forward").req = r /\ Fresh(r, "forward").step = "forward" /\ Fresh(r, "forward").epoch = 0
    BY <1>1, FreshIsMessage DEF IInv, Fresh
  <1>7. ASSUME NEW m \in {Fresh(r, "dataset"), Fresh(r, "forward")}, SendToData(c, m),
               m.step = "dataset" => n.step = "version"
        PROVE  Sends(c, m)
    <2>1. /\ core'[c].pc = "waiting" /\ core'[c].sent = m /\ toData' = toData \cup {m}
          /\ \A k \in Core : k # c => core'[k] = core[k]
          /\ toGateway' = toGateway
      BY <1>7 DEF SendToData, IInv, TypeOK
    <2>2. m \in Message /\ m.req = r /\ m.epoch = 0 /\ m.step \in Steps
      BY <1>6, <1>7 DEF Steps
    <2>3. Rank(n.step) < Rank(m.step) /\ \A s \in Steps : Rank(s) \in Nat
      BY <1>1, <1>6, <1>7 DEF Rank, Steps
    <2>4. \A s \in Steps : Came(m.req, s) => Rank(s) < Rank(m.step)
      BY <1>5, <2>2, <2>3, <1>1 DEF Steps
    <2>5. Unsent(r)
      BY <1>1, <1>2 DEF Unsent
    <2> HIDE DEF r, n
    <2> QED
      BY <1>1, <1>3, <1>4, <2>1, <2>2, <2>4, <2>5 DEF Sends
  <1>8. CASE AnswerGateway(c, n, "refused")
    <2>1. /\ core'[c].pc = "answered" /\ toData' = toData
          /\ \A k \in Core : k # c => core'[k] = core[k]
          /\ toGateway' = toGateway \cup {[req |-> r, result |-> "refused", epoch |-> failures]}
      BY <1>8 DEF AnswerGateway, IInv, TypeOK
    <2>2. ~Came(r, "forward")
      BY <1>1, <1>5 DEF Rank, Steps
    <2>3. executed[r] = 0 /\ ~Coming(r)
      BY <1>1, <2>2, ComingHasCome DEF Orderly, Truthful, IInv, TypeOK
    <2> QED
      BY <1>1, <1>3, <1>4, <2>1, <2>3 DEF Answers
  <1>9. \/ AnswerGateway(c, n, "refused")
        \/ SendToData(c, Fresh(r, "dataset")) /\ n.step = "version"
        \/ SendToData(c, Fresh(r, "forward"))
    BY DEF CoreLookupReply
  <1> QED
    BY <1>6, <1>7, <1>8, <1>9

LEMMA ForwardIsOrderly ==
  ASSUME IInv, Delivery, failures = 0, Orderly, NEW c \in Core, NEW p \in fromData, CoreForwardReply(c, p)
  PROVE  Answers(c, core[c].sent.req, p.result)
  <1> USE DEF gatewayVars, coreVars, dataVars, systemVars
  <1> DEFINE n == core[c].sent
             r == n.req
  <1>1. core[c].pc = "waiting" /\ n \in Message /\ r \in Request /\ n.step = "forward" /\ p.to \in Message
    BY DEF IInv, TypeOK, CoreForwardReply, Awaits, Message, Reply
  <1>2. p.to.step = "forward" /\ p.to.req = r /\ p.to.epoch = 0
    BY <1>1, ForwardCorrelation DEF CoreForwardReply, Awaits, Orderly, First
  <1>3. Holds(c, r)
    BY <1>1 DEF Holds
  <1>4. /\ client[r] # "new" /\ r \notin toCore /\ \A k \in Core : k # c => ~Holds(k, r)
    BY <1>1, <1>3 DEF IInv, Accepted, Delivery, OnePlace
  <1>5. toCore' = toCore \ {r} /\ UNCHANGED <<client, data, dataProcessed, executed, status>>
        /\ fromData' \subseteq fromData
    BY <1>4 DEF CoreForwardReply
  <1>6. /\ core'[c].pc = "answered" /\ toData' = toData
        /\ \A k \in Core : k # c => core'[k] = core[k]
        /\ toGateway' = toGateway \cup {[req |-> r, result |-> p.result, epoch |-> failures]}
    BY DEF CoreForwardReply, AnswerGateway, IInv, TypeOK
  <1>7. ~Coming(r)
    <2>1. PICK d \in Data : MessageId(p.to) \in dataProcessed[d]
      BY DEF Orderly, SeenOnce
    <2>2. \A m \in Queued(r) : m = p.to
      BY <1>1, <1>2, SameMessage DEF Queued, Forward, Orderly, First, IInv, TypeOK
    <2>3. \A k \in Received(r) : data[k].msg = p.to
      BY <1>1, <1>2, SameMessage, MessagesInSight DEF Received, Forward, Orderly, First, IInv
    <2> QED
      BY <2>1, <2>2, <2>3 DEF Coming, Queued, Received, Orderly, SeenOnce
  <1>8. p.result = "refused" => executed[r] = 0
    BY <1>2 DEF Orderly, Truthful
  <1> HIDE DEF n
  <1> QED
    BY <1>1, <1>4, <1>5, <1>6, <1>7, <1>8 DEF Answers, n

LEMMA TimeoutIsOrderly ==
  ASSUME IInv, Delivery, NEW c \in Core, CoreTimeout(c)
  PROVE  Answers(c, core[c].sent.req, "coreTimeout")
  <1> USE DEF gatewayVars, coreVars, dataVars, systemVars
  <1> DEFINE r == core[c].sent.req
  <1>1. core[c].pc = "waiting" /\ r \in Request
    BY DEF IInv, TypeOK, CoreTimeout, Message
  <1>2. Holds(c, r)
    BY <1>1 DEF Holds
  <1>3. /\ client[r] # "new" /\ r \notin toCore /\ \A k \in Core : k # c => ~Holds(k, r)
    BY <1>1, <1>2 DEF IInv, Accepted, Delivery, OnePlace
  <1>4. /\ core'[c].pc = "answered" /\ toData' = toData
        /\ \A k \in Core : k # c => core'[k] = core[k]
        /\ toGateway' = toGateway \cup {[req |-> r, result |-> "coreTimeout", epoch |-> failures]}
    BY DEF CoreTimeout, AnswerGateway, IInv, TypeOK
  <1>5. toCore' = toCore \ {r} /\ UNCHANGED <<client, data, dataProcessed, executed, status, fromData>>
    BY <1>3 DEF CoreTimeout
  <1> QED
    BY <1>1, <1>3, <1>4, <1>5 DEF Answers

\* What has been refused, or is about to be, is dead.
LEMMA RefusedAreDead ==
  ASSUME Orderly
  PROVE  /\ \A q \in Request : client[q] = "refused" => Dead(q)
         /\ \A b \in toGateway : b.result = "refused" => Dead(b.req)
BY DEF Truthful, Orderly

\* The steps without failures, by what they do to the order of things.
LEMMA OrderlyKinds ==
  ASSUME IInv, Delivery, Deduplicated, failures = 0, Orderly, [Next]_vars, failures' = 0
  PROVE  \/ \E g \in Gateway, r \in Request : Submit(g, r) \/ GatewayTimeout(g, r)
         \/ \E g \in Gateway, a \in toGateway : GatewayReply(g, a) \/ GatewayDropReply(g, a)
         \/ \E c \in Core : \E m : Sends(c, m)
         \/ \E c \in Core : \E r, result : Answers(c, r, result)
         \/ \E c \in Core : CoreAck(c) \/ \E p \in fromData : CoreDropReply(c, p)
         \/ \E d \in Data : DataWork(d)
         \/ UNCHANGED vars
  <1>1. \A p \in Process : status[p] = "up"
    BY DEF Orderly, First
  <1>2. ASSUME NEW g \in Gateway, NEW r \in Request PROVE ~SubmitUnavailable(g, r)
    BY <1>1 DEF SubmitUnavailable, Process
  <1>3. ASSUME NEW d \in Data PROVE ~DataReplyFails(d)
    BY <1>1 DEF DataReplyFails, Process
  <1>4. ASSUME NEW d \in Data, NEW m \in toData PROVE ~DataIgnoreDuplicate(d, m)
    BY DEF DataIgnoreDuplicate, Orderly, SeenOnce
  <1>5. ASSUME NEW p \in Process PROVE ~Crash(p) /\ ~Disconnect(p) /\ ~Restart(p)
    BY <1>1 DEF Crash, Disconnect, Restart
  <1> QED
    BY <1>2, <1>3, <1>4, <1>5, ReceiveIsOrderly, LookupIsOrderly, ForwardIsOrderly, TimeoutIsOrderly
       DEF Next, GatewayNext, CoreNext, DataNext, DataWork

\* No step repeats a message.
LEMMA FirstNext ==
  ASSUME IInv, Delivery, Deduplicated, failures = 0, Orderly, [Next]_vars, failures' = 0
  PROVE  First'
<1> USE DEF gatewayVars, coreVars, dataVars, systemVars
<1>1. ASSUME NEW g \in Gateway, NEW r \in Request, Submit(g, r) PROVE First'
  BY <1>1 DEF Submit, First, Orderly, IInv, TypeOK
<1>2. ASSUME NEW g \in Gateway, NEW r \in Request, GatewayTimeout(g, r) PROVE First'
  BY <1>2 DEF GatewayTimeout, First, Orderly, IInv, TypeOK
<1>3. ASSUME NEW g \in Gateway, NEW a \in toGateway, GatewayReply(g, a) PROVE First'
  BY <1>3 DEF GatewayReply, First, Orderly, IInv, TypeOK
<1>4. ASSUME NEW g \in Gateway, NEW a \in toGateway, GatewayDropReply(g, a) PROVE First'
  BY <1>4 DEF GatewayDropReply, First, Orderly, IInv, TypeOK
<1>5. ASSUME NEW c \in Core, NEW m, Sends(c, m) PROVE First'
  BY <1>5 DEF Sends, First, Orderly, IInv, TypeOK
<1>6. ASSUME NEW c \in Core, NEW r, NEW result, Answers(c, r, result) PROVE First'
  BY <1>6 DEF Answers, First, Orderly, IInv, TypeOK
<1>7. ASSUME NEW c \in Core, CoreAck(c) PROVE First'
  BY <1>7 DEF CoreAck, IdleCore, First, Orderly, IInv, TypeOK
<1>8. ASSUME NEW c \in Core, NEW p \in fromData, CoreDropReply(c, p) PROVE First'
  BY <1>8 DEF CoreDropReply, First, Orderly, IInv, TypeOK
<1>9. ASSUME NEW d \in Data, NEW m \in toData, DataReceive(d, m) PROVE First'
  BY <1>9 DEF DataReceive, First, Orderly, IInv, TypeOK
<1>10. ASSUME NEW d \in Data, DataExecute(d) PROVE First'
  BY <1>10 DEF DataExecute, First, Orderly, IInv, TypeOK
<1>11. ASSUME NEW d \in Data, DataReject(d) PROVE First'
  BY <1>11 DEF DataReject, First, Orderly, IInv, TypeOK
<1>12. ASSUME NEW d \in Data, DataReply(d) PROVE First'
  BY <1>12 DEF DataReply, First, Orderly, IInv, TypeOK
<1>13. ASSUME NEW d \in Data, DataAck(d) PROVE First'
  BY <1>13 DEF DataAck, IdleData, First, Orderly, IInv, TypeOK
<1>14. CASE UNCHANGED vars
  BY <1>14 DEF vars, First, Orderly, IInv, TypeOK
<1> QED
  BY OrderlyKinds, <1>1, <1>2, <1>3, <1>4, <1>5, <1>6, <1>7, <1>8, <1>9, <1>10, <1>11, <1>12, <1>13, <1>14 DEF DataWork

\* No step takes a request back.
LEMMA InOrderNext ==
  ASSUME IInv, Delivery, Deduplicated, failures = 0, Orderly, [Next]_vars, failures' = 0
  PROVE  InOrder'
<1> USE DEF gatewayVars, coreVars, dataVars, systemVars
<1>1. ASSUME NEW g \in Gateway, NEW r \in Request, Submit(g, r) PROVE InOrder'
  BY <1>1, CameUnchanged DEF Submit, InOrder, Orderly, WaitsFor, IInv, TypeOK, Answer
<1>2. ASSUME NEW g \in Gateway, NEW r \in Request, GatewayTimeout(g, r) PROVE InOrder'
  BY <1>2, CameUnchanged DEF GatewayTimeout, InOrder, Orderly, WaitsFor, IInv, TypeOK, Answer
<1>3. ASSUME NEW g \in Gateway, NEW a \in toGateway, GatewayReply(g, a) PROVE InOrder'
  BY <1>3, CameUnchanged DEF GatewayReply, InOrder, Orderly, WaitsFor, IInv, TypeOK, Answer
<1>4. ASSUME NEW g \in Gateway, NEW a \in toGateway, GatewayDropReply(g, a) PROVE InOrder'
  BY <1>4, CameUnchanged DEF GatewayDropReply, InOrder, Orderly, WaitsFor, IInv, TypeOK, Answer
<1>5. ASSUME NEW c \in Core, NEW m, Sends(c, m) PROVE InOrder'
  <2>1. \A q \in Request, s \in Steps : Came(q, s)' => Came(q, s) \/ (m.req = q /\ m.step = s)
    BY <1>5, CameBySend DEF Sends
  <2>2. \A s \in Steps : Rank(s) \in Nat
    BY DEF Rank, Steps
  <2>3. ASSUME NEW q \in Request, NEW s \in Steps, Came(q, s)', q # m.req
        PROVE  /\ client'[q] # "new" /\ q \notin toCore'
               /\ \A k \in Core : WaitsFor(k, q)' => Rank(s) <= Rank(core'[k].sent.step)
    BY <1>5, <2>1, <2>3 DEF Sends, InOrder, Orderly, WaitsFor
  <2>4. ASSUME NEW s \in Steps, Came(m.req, s)'
        PROVE  /\ client'[m.req] # "new" /\ m.req \notin toCore'
               /\ \A k \in Core : WaitsFor(k, m.req)' => Rank(s) <= Rank(core'[k].sent.step)
    <3>1. Rank(s) <= Rank(m.step)
      BY <1>5, <2>1, <2>2, <2>4 DEF Sends
    <3> QED
      BY <1>5, <3>1 DEF Sends, WaitsFor, Holds
  <2> QED
    BY <2>3, <2>4 DEF InOrder
<1>6. ASSUME NEW c \in Core, NEW r, NEW result, Answers(c, r, result) PROVE InOrder'
  BY <1>6, CameUnchanged DEF Answers, InOrder, Orderly, WaitsFor, IInv, TypeOK, Answer
<1>7. ASSUME NEW c \in Core, CoreAck(c) PROVE InOrder'
  BY <1>7, CameUnchanged DEF CoreAck, IdleCore, InOrder, Orderly, WaitsFor, IInv, TypeOK, Answer
<1>8. ASSUME NEW c \in Core, NEW p \in fromData, CoreDropReply(c, p) PROVE InOrder'
  BY <1>8, CameUnchanged DEF CoreDropReply, InOrder, Orderly, WaitsFor, IInv, TypeOK, Answer
<1>9. ASSUME NEW d \in Data, NEW m \in toData, DataReceive(d, m) PROVE InOrder'
  <2>1. \A q \in Request, s \in Steps : Came(q, s)' => Came(q, s)
    BY <1>9, CameByData DEF Orderly, DataWork
  <2>2. UNCHANGED <<client, toCore, core>>
    BY <1>9 DEF DataReceive
  <2> QED
    BY <2>1, <2>2 DEF InOrder, Orderly, WaitsFor
<1>10. ASSUME NEW d \in Data, DataExecute(d) PROVE InOrder'
  <2>1. \A q \in Request, s \in Steps : Came(q, s)' => Came(q, s)
    BY <1>10, CameByData DEF Orderly, DataWork
  <2>2. UNCHANGED <<client, toCore, core>>
    BY <1>10 DEF DataExecute
  <2> QED
    BY <2>1, <2>2 DEF InOrder, Orderly, WaitsFor
<1>11. ASSUME NEW d \in Data, DataReject(d) PROVE InOrder'
  <2>1. \A q \in Request, s \in Steps : Came(q, s)' => Came(q, s)
    BY <1>11, CameByData DEF Orderly, DataWork
  <2>2. UNCHANGED <<client, toCore, core>>
    BY <1>11 DEF DataReject
  <2> QED
    BY <2>1, <2>2 DEF InOrder, Orderly, WaitsFor
<1>12. ASSUME NEW d \in Data, DataReply(d) PROVE InOrder'
  <2>1. \A q \in Request, s \in Steps : Came(q, s)' => Came(q, s)
    BY <1>12, CameByData DEF Orderly, DataWork
  <2>2. UNCHANGED <<client, toCore, core>>
    BY <1>12 DEF DataReply
  <2> QED
    BY <2>1, <2>2 DEF InOrder, Orderly, WaitsFor
<1>13. ASSUME NEW d \in Data, DataAck(d) PROVE InOrder'
  <2>1. \A q \in Request, s \in Steps : Came(q, s)' => Came(q, s)
    BY <1>13, CameByData DEF Orderly, DataWork
  <2>2. UNCHANGED <<client, toCore, core>>
    BY <1>13 DEF DataAck
  <2> QED
    BY <2>1, <2>2 DEF InOrder, Orderly, WaitsFor
<1>14. CASE UNCHANGED vars
  BY <1>14, CameUnchanged DEF vars, InOrder, Orderly, WaitsFor, IInv, TypeOK, Answer
<1> QED
  BY OrderlyKinds, <1>1, <1>2, <1>3, <1>4, <1>5, <1>6, <1>7, <1>8, <1>9, <1>10, <1>11, <1>12, <1>13, <1>14 DEF DataWork

\* No step shows the data service a message again.
LEMMA SeenOnceNext ==
  ASSUME IInv, Delivery, Deduplicated, failures = 0, Orderly, [Next]_vars, failures' = 0
  PROVE  SeenOnce'
<1> USE DEF gatewayVars, coreVars, dataVars, systemVars
<1>1. ASSUME NEW g \in Gateway, NEW r \in Request, Submit(g, r) PROVE SeenOnce'
  BY <1>1 DEF Submit, SeenOnce, Orderly, IInv, TypeOK
<1>2. ASSUME NEW g \in Gateway, NEW r \in Request, GatewayTimeout(g, r) PROVE SeenOnce'
  BY <1>2 DEF GatewayTimeout, SeenOnce, Orderly, IInv, TypeOK
<1>3. ASSUME NEW g \in Gateway, NEW a \in toGateway, GatewayReply(g, a) PROVE SeenOnce'
  BY <1>3 DEF GatewayReply, SeenOnce, Orderly, IInv, TypeOK
<1>4. ASSUME NEW g \in Gateway, NEW a \in toGateway, GatewayDropReply(g, a) PROVE SeenOnce'
  BY <1>4 DEF GatewayDropReply, SeenOnce, Orderly, IInv, TypeOK
<1>5. ASSUME NEW c \in Core, NEW m, Sends(c, m) PROVE SeenOnce'
  <2>1. ~Came(m.req, m.step)
    BY <1>5 DEF Sends, Rank, Steps
  <2>2. MessageId(m) = IdOf(m.req, m.step)
    BY <1>5, IdOfMessage DEF Sends
  <2>3. \A d \in Data : (data[d].pc # "idle" => data[d].msg # m) /\ MessageId(m) \notin dataProcessed[d]
    BY <2>1, <2>2 DEF Came
  <2> QED
    BY <1>5, <2>3 DEF Sends, SeenOnce, Orderly
<1>6. ASSUME NEW c \in Core, NEW r, NEW result, Answers(c, r, result) PROVE SeenOnce'
  BY <1>6 DEF Answers, SeenOnce, Orderly, IInv, TypeOK
<1>7. ASSUME NEW c \in Core, CoreAck(c) PROVE SeenOnce'
  BY <1>7 DEF CoreAck, IdleCore, SeenOnce, Orderly, IInv, TypeOK
<1>8. ASSUME NEW c \in Core, NEW p \in fromData, CoreDropReply(c, p) PROVE SeenOnce'
  BY <1>8 DEF CoreDropReply, SeenOnce, Orderly, IInv, TypeOK
<1>9. ASSUME NEW d \in Data, NEW m \in toData, DataReceive(d, m) PROVE SeenOnce'
  BY <1>9 DEF DataReceive, SeenOnce, Orderly, IInv, TypeOK
<1>10. ASSUME NEW d \in Data, DataExecute(d) PROVE SeenOnce'
  BY <1>10 DEF DataExecute, SeenOnce, Orderly, IInv, TypeOK
<1>11. ASSUME NEW d \in Data, DataReject(d) PROVE SeenOnce'
  BY <1>11 DEF DataReject, SeenOnce, Orderly, IInv, TypeOK
<1>12. ASSUME NEW d \in Data, DataReply(d) PROVE SeenOnce'
  <2> DEFINE n == data[d].msg
  <2>1. /\ toData' = toData /\ data[d].pc = "executed" /\ n \in Message /\ n.epoch = 0
        /\ data'[d].pc = "replied" /\ data'[d].msg = n
        /\ \A k \in Data : k # d => data'[k] = data[k] /\ dataProcessed'[k] = dataProcessed[k]
        /\ dataProcessed'[d] = dataProcessed[d] \cup {MessageId(n)}
        /\ \A p \in fromData' : p \in fromData \/ p.to = n
    BY <1>12 DEF DataReply, IInv, TypeOK, Orderly, First
  <2>2. \A m \in toData : MessageId(m) # MessageId(n)
    BY <2>1, SameId DEF Orderly, First, SeenOnce, IInv, TypeOK
  <2>3. \A k \in Data : k # d /\ data[k].pc \in {"received", "executed"} => MessageId(data[k].msg) # MessageId(n)
    BY <2>1, SameId DEF Orderly, First, SeenOnce, IInv, TypeOK
  <2> HIDE DEF n
  <2> QED
    BY <2>1, <2>2, <2>3 DEF SeenOnce, Orderly
<1>13. ASSUME NEW d \in Data, DataAck(d) PROVE SeenOnce'
  BY <1>13 DEF DataAck, IdleData, SeenOnce, Orderly, IInv, TypeOK
<1>14. CASE UNCHANGED vars
  BY <1>14 DEF vars, SeenOnce, Orderly, IInv, TypeOK
<1> QED
  BY OrderlyKinds, <1>1, <1>2, <1>3, <1>4, <1>5, <1>6, <1>7, <1>8, <1>9, <1>10, <1>11, <1>12, <1>13, <1>14 DEF DataWork

\* No step refuses what has run or may still run.
LEMMA TruthfulNext ==
  ASSUME IInv, Delivery, Deduplicated, failures = 0, Orderly, [Next]_vars, failures' = 0
  PROVE  Truthful'
<1> USE DEF gatewayVars, coreVars, dataVars, systemVars
<1>1. ASSUME NEW g \in Gateway, NEW r \in Request, Submit(g, r) PROVE Truthful'
  <2>1. /\ UNCHANGED <<core, toData, data, dataProcessed, executed, fromData, toGateway>> /\ client[r] = "new"
        /\ toCore' = toCore \cup {r} /\ \A q \in Request : q # r => client'[q] = client[q]
        /\ client'[r] = "waiting"
    BY <1>1 DEF Submit, IInv, TypeOK
  <2>2. \A q \in Request : Came(q, "forward")' <=> Came(q, "forward")
    BY <2>1, CameUnchanged
  <2>3. \A q \in Request : Coming(q)' <=> Coming(q)
    BY <2>1 DEF Coming, Queued, Received, Forward
  <2>4. \A q \in Request : Dead(q) => Dead(q)'
    BY <2>1, <2>3 DEF Dead, Unsent, WaitsFor
  <2>5. \A q \in Request : client'[q] = "refused" => Dead(q)'
    <3>1. ASSUME NEW q \in Request, client'[q] = "refused" PROVE Dead(q)
      <4>1. client[q] = "refused" \/ \E b \in toGateway : b.req = q /\ b.result = "refused"
        BY <2>1, <3>1
      <4> QED
        BY <4>1, RefusedAreDead
    <3> QED
      BY <2>4, <3>1
  <2>6. \A b \in toGateway' : b.result = "refused" => Dead(b.req)'
    BY <2>1, <2>4, MessagesInSight DEF Truthful, Orderly, IInv
  <2>7. \A q \in Request : executed'[q] > 0 => Came(q, "forward")' /\ ~Coming(q)'
    BY <2>1, <2>2, <2>3 DEF Truthful, Orderly
  <2> QED
    BY <2>1, <2>5, <2>6, <2>7 DEF Truthful, Orderly
<1>2. ASSUME NEW g \in Gateway, NEW r \in Request, GatewayTimeout(g, r) PROVE Truthful'
  <2>1. /\ UNCHANGED <<core, toCore, toData, data, dataProcessed, executed, fromData>>
        /\ toGateway' \subseteq toGateway
        /\ \A q \in Request : client[q] # "new" => client'[q] # "new"
        /\ \A q \in Request : client'[q] = "refused" =>
             client[q] = "refused" \/ \E b \in toGateway : b.req = q /\ b.result = "refused"
    BY <1>2 DEF GatewayTimeout, IInv, TypeOK, Answer
  <2>2. \A q \in Request : Came(q, "forward")' <=> Came(q, "forward")
    BY <2>1, CameUnchanged
  <2>3. \A q \in Request : Coming(q)' <=> Coming(q)
    BY <2>1 DEF Coming, Queued, Received, Forward
  <2>4. \A q \in Request : Dead(q) => Dead(q)'
    BY <2>1, <2>3 DEF Dead, Unsent, WaitsFor
  <2>5. \A q \in Request : client'[q] = "refused" => Dead(q)'
    <3>1. ASSUME NEW q \in Request, client'[q] = "refused" PROVE Dead(q)
      <4>1. client[q] = "refused" \/ \E b \in toGateway : b.req = q /\ b.result = "refused"
        BY <2>1, <3>1
      <4> QED
        BY <4>1, RefusedAreDead
    <3> QED
      BY <2>4, <3>1
  <2>6. \A b \in toGateway' : b.result = "refused" => Dead(b.req)'
    BY <2>1, <2>4, MessagesInSight DEF Truthful, Orderly, IInv
  <2>7. \A q \in Request : executed'[q] > 0 => Came(q, "forward")' /\ ~Coming(q)'
    BY <2>1, <2>2, <2>3 DEF Truthful, Orderly
  <2> QED
    BY <2>1, <2>5, <2>6, <2>7 DEF Truthful, Orderly
<1>3. ASSUME NEW g \in Gateway, NEW a \in toGateway, GatewayReply(g, a) PROVE Truthful'
  <2>1. /\ UNCHANGED <<core, toCore, toData, data, dataProcessed, executed, fromData>>
        /\ toGateway' \subseteq toGateway
        /\ \A q \in Request : client[q] # "new" => client'[q] # "new"
        /\ \A q \in Request : client'[q] = "refused" =>
             client[q] = "refused" \/ \E b \in toGateway : b.req = q /\ b.result = "refused"
    BY <1>3 DEF GatewayReply, IInv, TypeOK, Answer
  <2>2. \A q \in Request : Came(q, "forward")' <=> Came(q, "forward")
    BY <2>1, CameUnchanged
  <2>3. \A q \in Request : Coming(q)' <=> Coming(q)
    BY <2>1 DEF Coming, Queued, Received, Forward
  <2>4. \A q \in Request : Dead(q) => Dead(q)'
    BY <2>1, <2>3 DEF Dead, Unsent, WaitsFor
  <2>5. \A q \in Request : client'[q] = "refused" => Dead(q)'
    <3>1. ASSUME NEW q \in Request, client'[q] = "refused" PROVE Dead(q)
      <4>1. client[q] = "refused" \/ \E b \in toGateway : b.req = q /\ b.result = "refused"
        BY <2>1, <3>1
      <4> QED
        BY <4>1, RefusedAreDead
    <3> QED
      BY <2>4, <3>1
  <2>6. \A b \in toGateway' : b.result = "refused" => Dead(b.req)'
    BY <2>1, <2>4, MessagesInSight DEF Truthful, Orderly, IInv
  <2>7. \A q \in Request : executed'[q] > 0 => Came(q, "forward")' /\ ~Coming(q)'
    BY <2>1, <2>2, <2>3 DEF Truthful, Orderly
  <2> QED
    BY <2>1, <2>5, <2>6, <2>7 DEF Truthful, Orderly
<1>4. ASSUME NEW g \in Gateway, NEW a \in toGateway, GatewayDropReply(g, a) PROVE Truthful'
  <2>1. /\ UNCHANGED <<core, toCore, toData, data, dataProcessed, executed, fromData>>
        /\ toGateway' \subseteq toGateway
        /\ \A q \in Request : client[q] # "new" => client'[q] # "new"
        /\ \A q \in Request : client'[q] = "refused" =>
             client[q] = "refused" \/ \E b \in toGateway : b.req = q /\ b.result = "refused"
    BY <1>4 DEF GatewayDropReply, IInv, TypeOK, Answer
  <2>2. \A q \in Request : Came(q, "forward")' <=> Came(q, "forward")
    BY <2>1, CameUnchanged
  <2>3. \A q \in Request : Coming(q)' <=> Coming(q)
    BY <2>1 DEF Coming, Queued, Received, Forward
  <2>4. \A q \in Request : Dead(q) => Dead(q)'
    BY <2>1, <2>3 DEF Dead, Unsent, WaitsFor
  <2>5. \A q \in Request : client'[q] = "refused" => Dead(q)'
    <3>1. ASSUME NEW q \in Request, client'[q] = "refused" PROVE Dead(q)
      <4>1. client[q] = "refused" \/ \E b \in toGateway : b.req = q /\ b.result = "refused"
        BY <2>1, <3>1
      <4> QED
        BY <4>1, RefusedAreDead
    <3> QED
      BY <2>4, <3>1
  <2>6. \A b \in toGateway' : b.result = "refused" => Dead(b.req)'
    BY <2>1, <2>4, MessagesInSight DEF Truthful, Orderly, IInv
  <2>7. \A q \in Request : executed'[q] > 0 => Came(q, "forward")' /\ ~Coming(q)'
    BY <2>1, <2>2, <2>3 DEF Truthful, Orderly
  <2> QED
    BY <2>1, <2>5, <2>6, <2>7 DEF Truthful, Orderly
<1>5. ASSUME NEW c \in Core, NEW m, Sends(c, m) PROVE Truthful'
  <2>1. ~Came(m.req, m.step)
    BY <1>5 DEF Sends, Rank, Steps
  <2>2. \A q : Came(q, "forward")' <=> Came(q, "forward") \/ (m.req = q /\ m.step = "forward")
    BY <1>5, CameBySend DEF Sends
  <2>3. \A q : Coming(q)' => Coming(q) \/ (m.req = q /\ m.step = "forward")
    BY <1>5 DEF Sends, Coming, Queued, Received, Forward
  <2>4. Unsent(m.req)
    BY <1>5 DEF Sends
  <2>5. \A q \in Request : Dead(q) => Dead(q)'
    BY <1>5, <2>3, <2>4 DEF Sends, Dead, Unsent, WaitsFor
  <2>6. /\ executed' = executed /\ data' = data /\ client' = client /\ toGateway' = toGateway
        /\ fromData' \subseteq fromData
    BY <1>5 DEF Sends
  <2> QED
    BY <2>1, <2>2, <2>3, <2>5, <2>6, MessagesInSight DEF Truthful, Orderly, IInv
<1>6. ASSUME NEW c \in Core, NEW r, NEW result, Answers(c, r, result) PROVE Truthful'
  <2>1. /\ UNCHANGED <<toData, data, dataProcessed, executed, client>> /\ fromData' \subseteq fromData
        /\ toCore' \subseteq toCore /\ \A k \in Core : core'[k].pc = "waiting" => core'[k] = core[k]
    BY <1>6 DEF Answers
  <2>2. \A q \in Request : Came(q, "forward")' <=> Came(q, "forward")
    BY <2>1, CameUnchanged
  <2>3. \A q \in Request : Coming(q)' <=> Coming(q)
    BY <2>1 DEF Coming, Queued, Received, Forward
  <2>4. \A q \in Request : Dead(q) => Dead(q)'
    BY <2>1, <2>3 DEF Dead, Unsent, WaitsFor
  <2>5. result = "refused" => Dead(r)'
    BY <1>6, <2>1, <2>3 DEF Answers, Dead, Unsent, WaitsFor, Holds
  <2>6. \A a \in toGateway' : a \in toGateway \/ (a.req = r /\ a.result = result)
    BY <1>6 DEF Answers
  <2> QED
    BY <2>1, <2>2, <2>3, <2>4, <2>5, <2>6, MessagesInSight DEF Truthful, Orderly, IInv
<1>7. ASSUME NEW c \in Core, CoreAck(c) PROVE Truthful'
  <2>1. /\ UNCHANGED <<toCore, toData, data, dataProcessed, executed, client, toGateway>>
        /\ fromData' = fromData
        /\ \A k \in Core : core'[k].pc = "waiting" => core'[k] = core[k]
    BY <1>7 DEF CoreAck, IdleCore, IInv, TypeOK
  <2>2. \A q \in Request : Came(q, "forward")' <=> Came(q, "forward")
    BY <2>1, CameUnchanged
  <2>3. \A q \in Request : Coming(q)' <=> Coming(q)
    BY <2>1 DEF Coming, Queued, Received, Forward
  <2>4. \A q \in Request : Dead(q) => Dead(q)'
    BY <2>1, <2>3 DEF Dead, Unsent, WaitsFor
  <2>5. \A q \in Request : client'[q] = "refused" => Dead(q)'
    <3>1. ASSUME NEW q \in Request, client'[q] = "refused" PROVE Dead(q)
      <4>1. client[q] = "refused" \/ \E b \in toGateway : b.req = q /\ b.result = "refused"
        BY <2>1, <3>1
      <4> QED
        BY <4>1, RefusedAreDead
    <3> QED
      BY <2>4, <3>1
  <2>6. \A b \in toGateway' : b.result = "refused" => Dead(b.req)'
    BY <2>1, <2>4, MessagesInSight DEF Truthful, Orderly, IInv
  <2>7. \A q \in Request : executed'[q] > 0 => Came(q, "forward")' /\ ~Coming(q)'
    BY <2>1, <2>2, <2>3 DEF Truthful, Orderly
  <2> QED
    BY <2>1, <2>5, <2>6, <2>7 DEF Truthful, Orderly
<1>8. ASSUME NEW c \in Core, NEW p \in fromData, CoreDropReply(c, p) PROVE Truthful'
  <2>1. /\ UNCHANGED <<core, toCore, toData, data, dataProcessed, executed, client, toGateway>>
        /\ fromData' \subseteq fromData
    BY <1>8 DEF CoreDropReply
  <2>2. \A q \in Request : Came(q, "forward")' <=> Came(q, "forward")
    BY <2>1, CameUnchanged
  <2>3. \A q \in Request : Coming(q)' <=> Coming(q)
    BY <2>1 DEF Coming, Queued, Received, Forward
  <2>4. \A q \in Request : Dead(q) => Dead(q)'
    BY <2>1, <2>3 DEF Dead, Unsent, WaitsFor
  <2>5. \A q \in Request : client'[q] = "refused" => Dead(q)'
    <3>1. ASSUME NEW q \in Request, client'[q] = "refused" PROVE Dead(q)
      <4>1. client[q] = "refused" \/ \E b \in toGateway : b.req = q /\ b.result = "refused"
        BY <2>1, <3>1
      <4> QED
        BY <4>1, RefusedAreDead
    <3> QED
      BY <2>4, <3>1
  <2>6. \A b \in toGateway' : b.result = "refused" => Dead(b.req)'
    BY <2>1, <2>4, MessagesInSight DEF Truthful, Orderly, IInv
  <2>7. \A q \in Request : executed'[q] > 0 => Came(q, "forward")' /\ ~Coming(q)'
    BY <2>1, <2>2, <2>3 DEF Truthful, Orderly
  <2> QED
    BY <2>1, <2>5, <2>6, <2>7 DEF Truthful, Orderly
<1>9. ASSUME NEW d \in Data, NEW m \in toData, DataReceive(d, m) PROVE Truthful'
  <2>1. UNCHANGED <<core, toCore, client, toGateway, executed>>
    BY <1>9 DEF DataReceive
  <2>2. \A q \in Request : Came(q, "forward")' <=> Came(q, "forward")
    BY <1>9, CameByData DEF Orderly, DataWork, Steps
  <2>3. \A q : Coming(q)' => Coming(q)
    BY <1>9 DEF DataReceive, Coming, Queued, Received, Forward, IInv, TypeOK
  <2>4. \A q \in Request : Dead(q) => Dead(q)'
    BY <2>1, <2>3 DEF Dead, Unsent, WaitsFor
  <2>5. \A k \in Data : data'[k].pc \in {"executed", "replied"} /\ data'[k].msg.step = "forward"
          /\ data'[k].result = "refused" => executed'[data'[k].msg.req] = 0
    BY <1>9, <2>1 DEF DataReceive, Truthful, Orderly, IInv, TypeOK
  <2>6. \A p \in fromData' : p.to.step = "forward" /\ p.result = "refused" => executed'[p.to.req] = 0
    BY <1>9, <2>1 DEF DataReceive, Truthful, Orderly
  <2> QED
    BY <2>1, <2>2, <2>3, <2>4, <2>5, <2>6, MessagesInSight DEF Truthful, Orderly, IInv
<1>10. ASSUME NEW d \in Data, DataExecute(d) PROVE Truthful'
  <2> DEFINE n == data[d].msg
             r == n.req
  <2>1. /\ UNCHANGED <<core, toCore, client, toGateway, fromData, toData>>
        /\ n \in Message /\ r \in Request /\ n.epoch = 0 /\ data[d].pc = "received"
        /\ data'[d].msg = n /\ data'[d].pc = "executed" /\ data'[d].result = "ok"
        /\ \A k \in Data : k # d => data'[k] = data[k]
    BY <1>10 DEF DataExecute, IInv, TypeOK, Message, Orderly, First
  <2>2. \A q \in Request : Came(q, "forward")' <=> Came(q, "forward")
    BY <1>10, CameByData DEF Orderly, DataWork, Steps
  <2>3. \A q : Coming(q)' => Coming(q)
    BY <2>1 DEF Coming, Queued, Received, Forward
  <2>4. \A q \in Request : executed'[q] # executed[q] => q = r /\ n.step = "forward"
    BY <1>10, <2>1 DEF DataExecute, IInv, TypeOK
  <2>5. ASSUME n.step = "forward"
        PROVE  /\ Coming(r) /\ ~Coming(r)' /\ Came(r, "forward")
               /\ \A k \in Data : k # d /\ data[k].pc # "idle" => ~Forward(data[k].msg, r)
               /\ \A p \in fromData : ~Forward(p.to, r)
    <3>1. d \in Received(r)
      BY <2>1, <2>5 DEF Received, Forward
    <3>2. ASSUME NEW m \in Message, Forward(m, r), m.epoch = 0 PROVE m = n
      BY <2>1, <2>5, <3>2, SameMessage DEF Forward
    <3>3. \A k \in Data : k # d /\ data[k].pc # "idle" => ~Forward(data[k].msg, r)
      BY <2>1, <3>2 DEF Orderly, First, SeenOnce, IInv, TypeOK
    <3>4. \A m \in toData : ~Forward(m, r)
      BY <2>1, <3>2 DEF Orderly, First, SeenOnce, IInv, TypeOK
    <3>5. \A p \in fromData : ~Forward(p.to, r)
      BY <2>1, <3>2, MessagesInSight DEF Orderly, First, SeenOnce, IInv
    <3>6. ~Coming(r)'
      BY <2>1, <3>3, <3>4 DEF Coming, Queued, Received
    <3>7. Coming(r)
      BY <3>1 DEF Coming
    <3> QED
      BY <3>3, <3>5, <3>6, <3>7, ComingHasCome
  <2>6. \A q \in Request : Dead(q) => Dead(q)'
    BY <2>1, <2>3, <2>4, <2>5 DEF Dead, Unsent, WaitsFor
  <2>7. \A q \in Request : executed'[q] > 0 => Came(q, "forward")' /\ ~Coming(q)'
    BY <2>1, <2>2, <2>3, <2>4, <2>5 DEF Truthful, Orderly
  <2>8. \A k \in Data : data'[k].pc \in {"executed", "replied"} /\ data'[k].msg.step = "forward"
          /\ data'[k].result = "refused" => executed'[data'[k].msg.req] = 0
    BY <2>1, <2>4, <2>5, MessagesInSight DEF Truthful, Orderly, IInv, Forward
  <2>9. \A p \in fromData' : p.to.step = "forward" /\ p.result = "refused" => executed'[p.to.req] = 0
    BY <2>1, <2>4, <2>5, MessagesInSight DEF Truthful, Orderly, IInv, Forward
  <2> QED
    BY <2>1, <2>6, <2>7, <2>8, <2>9, MessagesInSight DEF Truthful, Orderly, IInv
<1>11. ASSUME NEW d \in Data, DataReject(d) PROVE Truthful'
  <2>1. UNCHANGED <<core, toCore, client, toGateway, executed>>
    BY <1>11 DEF DataReject
  <2>2. \A q \in Request : Came(q, "forward")' <=> Came(q, "forward")
    BY <1>11, CameByData DEF Orderly, DataWork, Steps
  <2>3. \A q : Coming(q)' => Coming(q)
    BY <1>11 DEF DataReject, Coming, Queued, Received, Forward, IInv, TypeOK
  <2>4. \A q \in Request : Dead(q) => Dead(q)'
    BY <2>1, <2>3 DEF Dead, Unsent, WaitsFor
  <2>5. \A k \in Data : data'[k].pc \in {"executed", "replied"} /\ data'[k].msg.step = "forward"
          /\ data'[k].result = "refused" => executed'[data'[k].msg.req] = 0
    <3>1. data[d].msg \in Message /\ data[d].msg.req \in Request /\ data[d].pc = "received"
      BY <1>11 DEF DataReject, IInv, TypeOK, Message
    <3>2. data[d].msg.step = "forward" => executed[data[d].msg.req] = 0
      BY <3>1 DEF Received, Forward, Coming, Truthful, Orderly, IInv, TypeOK
    <3>3. data'[d].msg = data[d].msg /\ \A k \in Data : k # d => data'[k] = data[k]
      BY <1>11 DEF DataReject, IInv, TypeOK
    <3> QED
      BY <2>1, <3>2, <3>3 DEF Truthful, Orderly
  <2>6. \A p \in fromData' : p.to.step = "forward" /\ p.result = "refused" => executed'[p.to.req] = 0
    BY <1>11, <2>1 DEF DataReject, Truthful, Orderly
  <2> QED
    BY <2>1, <2>2, <2>3, <2>4, <2>5, <2>6, MessagesInSight DEF Truthful, Orderly, IInv
<1>12. ASSUME NEW d \in Data, DataReply(d) PROVE Truthful'
  <2>1. UNCHANGED <<core, toCore, client, toGateway, executed>>
    BY <1>12 DEF DataReply
  <2>2. \A q \in Request : Came(q, "forward")' <=> Came(q, "forward")
    BY <1>12, CameByData DEF Orderly, DataWork, Steps
  <2>3. \A q : Coming(q)' => Coming(q)
    BY <1>12 DEF DataReply, Coming, Queued, Received, Forward, IInv, TypeOK
  <2>4. \A q \in Request : Dead(q) => Dead(q)'
    BY <2>1, <2>3 DEF Dead, Unsent, WaitsFor
  <2>5. \A k \in Data : data'[k].pc \in {"executed", "replied"} /\ data'[k].msg.step = "forward"
          /\ data'[k].result = "refused" => executed'[data'[k].msg.req] = 0
    BY <1>12, <2>1 DEF DataReply, Truthful, Orderly, IInv, TypeOK
  <2>6. \A p \in fromData' : p.to.step = "forward" /\ p.result = "refused" => executed'[p.to.req] = 0
    BY <1>12, <2>1 DEF DataReply, Truthful, Orderly
  <2> QED
    BY <2>1, <2>2, <2>3, <2>4, <2>5, <2>6, MessagesInSight DEF Truthful, Orderly, IInv
<1>13. ASSUME NEW d \in Data, DataAck(d) PROVE Truthful'
  <2>1. UNCHANGED <<core, toCore, client, toGateway, executed>>
    BY <1>13 DEF DataAck
  <2>2. \A q \in Request : Came(q, "forward")' <=> Came(q, "forward")
    BY <1>13, CameByData DEF Orderly, DataWork, Steps
  <2>3. \A q : Coming(q)' => Coming(q)
    BY <1>13 DEF DataAck, Coming, Queued, Received, Forward, IInv, TypeOK, IdleData
  <2>4. \A q \in Request : Dead(q) => Dead(q)'
    BY <2>1, <2>3 DEF Dead, Unsent, WaitsFor
  <2>5. \A k \in Data : data'[k].pc \in {"executed", "replied"} /\ data'[k].msg.step = "forward"
          /\ data'[k].result = "refused" => executed'[data'[k].msg.req] = 0
    BY <1>13, <2>1 DEF DataAck, Truthful, Orderly, IInv, TypeOK, IdleData
  <2>6. \A p \in fromData' : p.to.step = "forward" /\ p.result = "refused" => executed'[p.to.req] = 0
    BY <1>13, <2>1 DEF DataAck, Truthful, Orderly
  <2> QED
    BY <2>1, <2>2, <2>3, <2>4, <2>5, <2>6, MessagesInSight DEF Truthful, Orderly, IInv
<1>14. CASE UNCHANGED vars
  <2>1. UNCHANGED <<core, toCore, toData, data, dataProcessed, executed, fromData, client, toGateway>>
    BY <1>14 DEF vars
  <2>2. \A q : Came(q, "forward")' <=> Came(q, "forward")
    BY <2>1, CameUnchanged
  <2>3. \A q : (Coming(q)' <=> Coming(q)) /\ (Dead(q) => Dead(q)')
    BY <2>1 DEF Coming, Queued, Received, Forward, Dead, Unsent, WaitsFor
  <2> QED
    BY <2>1, <2>2, <2>3, MessagesInSight DEF Truthful, Orderly, IInv
<1> QED
  BY OrderlyKinds, <1>1, <1>2, <1>3, <1>4, <1>5, <1>6, <1>7, <1>8, <1>9, <1>10, <1>11, <1>12, <1>13, <1>14 DEF DataWork

\* The message of a core that waits, or the reply to it, is on its way.
LEMMA CoreInFlightNext ==
  ASSUME IInv, Delivery, Deduplicated, failures = 0, Orderly, [Next]_vars, failures' = 0,
         OneCore, CoreWaitIsInFlight
  PROVE  CoreWaitIsInFlight'
<1> USE DEF gatewayVars, coreVars, dataVars, systemVars
<1>1. ASSUME NEW g \in Gateway, NEW r \in Request, Submit(g, r) PROVE CoreWaitIsInFlight'
  BY <1>1 DEF Submit, CoreWaitIsInFlight, OneCore, IInv, TypeOK, Awaits
<1>2. ASSUME NEW g \in Gateway, NEW r \in Request, GatewayTimeout(g, r) PROVE CoreWaitIsInFlight'
  BY <1>2 DEF GatewayTimeout, CoreWaitIsInFlight, OneCore, IInv, TypeOK, Awaits
<1>3. ASSUME NEW g \in Gateway, NEW a \in toGateway, GatewayReply(g, a) PROVE CoreWaitIsInFlight'
  BY <1>3 DEF GatewayReply, CoreWaitIsInFlight, OneCore, IInv, TypeOK, Awaits
<1>4. ASSUME NEW g \in Gateway, NEW a \in toGateway, GatewayDropReply(g, a) PROVE CoreWaitIsInFlight'
  BY <1>4 DEF GatewayDropReply, CoreWaitIsInFlight, OneCore, IInv, TypeOK, Awaits
<1>5. ASSUME NEW c \in Core, NEW m, Sends(c, m) PROVE CoreWaitIsInFlight'
  BY <1>5 DEF Sends, CoreWaitIsInFlight, OneCore, IInv, TypeOK, Awaits
<1>6. ASSUME NEW c \in Core, NEW r, NEW result, Answers(c, r, result) PROVE CoreWaitIsInFlight'
  BY <1>6 DEF Answers, CoreWaitIsInFlight, OneCore, IInv, TypeOK, Awaits
<1>7. ASSUME NEW c \in Core, CoreAck(c) PROVE CoreWaitIsInFlight'
  BY <1>7 DEF CoreAck, IdleCore, CoreWaitIsInFlight, OneCore, IInv, TypeOK, Awaits
<1>8. ASSUME NEW c \in Core, NEW p \in fromData, CoreDropReply(c, p) PROVE CoreWaitIsInFlight'
  BY <1>8 DEF CoreDropReply, CoreWaitIsInFlight, OneCore, IInv, TypeOK, Awaits
<1>9. ASSUME NEW d \in Data, NEW m \in toData, DataReceive(d, m) PROVE CoreWaitIsInFlight'
  BY <1>9 DEF DataReceive, CoreWaitIsInFlight, OneCore, IInv, TypeOK, Awaits
<1>10. ASSUME NEW d \in Data, DataExecute(d) PROVE CoreWaitIsInFlight'
  BY <1>10 DEF DataExecute, CoreWaitIsInFlight, OneCore, IInv, TypeOK, Awaits
<1>11. ASSUME NEW d \in Data, DataReject(d) PROVE CoreWaitIsInFlight'
  BY <1>11 DEF DataReject, CoreWaitIsInFlight, OneCore, IInv, TypeOK, Awaits
<1>12. ASSUME NEW d \in Data, DataReply(d) PROVE CoreWaitIsInFlight'
  <2>0. [to |-> data[d].msg, result |-> data[d].result, epoch |-> failures] \in fromData'
    BY <1>12 DEF DataReply
  <2>1. /\ UNCHANGED <<core, toData>> /\ fromData \subseteq fromData'
        /\ \E p \in fromData' : p.to = data[d].msg
        /\ \A k \in Data : k # d => data'[k] = data[k]
    BY <1>12, <2>0 DEF DataReply, IInv, TypeOK
  <2> QED
    BY <2>1 DEF CoreWaitIsInFlight
<1>13. ASSUME NEW d \in Data, DataAck(d) PROVE CoreWaitIsInFlight'
  BY <1>13 DEF DataAck, IdleData, CoreWaitIsInFlight, OneCore, IInv, TypeOK, Awaits
<1>14. CASE UNCHANGED vars
  BY <1>14 DEF vars, CoreWaitIsInFlight, OneCore, IInv, TypeOK, Awaits
<1> QED
  BY OrderlyKinds, <1>1, <1>2, <1>3, <1>4, <1>5, <1>6, <1>7, <1>8, <1>9, <1>10, <1>11, <1>12, <1>13, <1>14 DEF DataWork

LEMMA CalmInit == Init => Calm
<1> SUFFICES ASSUME Init PROVE Orderly /\ CoreWaitIsInFlight
  BY DEF Calm
<1>1. First /\ SeenOnce /\ CoreWaitIsInFlight
  BY DEF Init, First, SeenOnce, CoreWaitIsInFlight, IdleCore, IdleData
<1>2. ASSUME NEW r \in Request, NEW s \in Steps PROVE ~Came(r, s)
  BY DEF Init, Came, IdleData
<1>3. InOrder
  BY <1>2 DEF InOrder
<1>4. Truthful
  BY DEF Init, Truthful, IdleData
<1> QED
  BY <1>1, <1>3, <1>4 DEF Orderly

\* Failures are counted one by one.
LEMMA FailuresGrow == IInv /\ [Next]_vars => failures' \in {failures, failures + 1}
<1> SUFFICES ASSUME IInv, [Next]_vars PROVE failures' \in {failures, failures + 1}
  OBVIOUS
<1> USE DEF gatewayVars, coreVars, dataVars, systemVars
<1>1. ASSUME NEW g \in Gateway, NEW r \in Request, Submit(g, r) PROVE failures' \in {failures, failures + 1}
  BY <1>1 DEF Submit
<1>2. ASSUME NEW g \in Gateway, NEW r \in Request, SubmitUnavailable(g, r) PROVE failures' \in {failures, failures + 1}
  BY <1>2 DEF SubmitUnavailable
<1>3. ASSUME NEW g \in Gateway, NEW a \in toGateway, GatewayReply(g, a) PROVE failures' \in {failures, failures + 1}
  BY <1>3 DEF GatewayReply
<1>4. ASSUME NEW g \in Gateway, NEW a \in toGateway, GatewayDropReply(g, a) PROVE failures' \in {failures, failures + 1}
  BY <1>4 DEF GatewayDropReply
<1>5. ASSUME NEW g \in Gateway, NEW r \in Request, GatewayTimeout(g, r) PROVE failures' \in {failures, failures + 1}
  BY <1>5 DEF GatewayTimeout
<1>6. ASSUME NEW c \in Core, NEW r \in toCore, CoreReceive(c, r) PROVE failures' \in {failures, failures + 1}
  BY <1>6 DEF CoreReceive
<1>7. ASSUME NEW c \in Core, NEW p \in fromData, CoreLookupReply(c, p) PROVE failures' \in {failures, failures + 1}
  BY <1>7 DEF CoreLookupReply
<1>8. ASSUME NEW c \in Core, NEW p \in fromData, CoreForwardReply(c, p) PROVE failures' \in {failures, failures + 1}
  BY <1>8 DEF CoreForwardReply
<1>9. ASSUME NEW c \in Core, NEW p \in fromData, CoreDropReply(c, p) PROVE failures' \in {failures, failures + 1}
  BY <1>9 DEF CoreDropReply
<1>10. ASSUME NEW c \in Core, CoreTimeout(c) PROVE failures' \in {failures, failures + 1}
  BY <1>10 DEF CoreTimeout
<1>11. ASSUME NEW c \in Core, CoreAck(c) PROVE failures' \in {failures, failures + 1}
  BY <1>11 DEF CoreAck
<1>12. ASSUME NEW d \in Data, NEW m \in toData, DataReceive(d, m) PROVE failures' \in {failures, failures + 1}
  BY <1>12 DEF DataReceive
<1>13. ASSUME NEW d \in Data, NEW m \in toData, DataIgnoreDuplicate(d, m) PROVE failures' \in {failures, failures + 1}
  BY <1>13 DEF DataIgnoreDuplicate
<1>14. ASSUME NEW d \in Data, DataExecute(d) PROVE failures' \in {failures, failures + 1}
  BY <1>14 DEF DataExecute
<1>15. ASSUME NEW d \in Data, DataReject(d) PROVE failures' \in {failures, failures + 1}
  BY <1>15 DEF DataReject
<1>16. ASSUME NEW d \in Data, DataReply(d) PROVE failures' \in {failures, failures + 1}
  BY <1>16 DEF DataReply
<1>17. ASSUME NEW d \in Data, DataReplyFails(d) PROVE failures' \in {failures, failures + 1}
  BY <1>17 DEF DataReplyFails
<1>18. ASSUME NEW d \in Data, DataAck(d) PROVE failures' \in {failures, failures + 1}
  BY <1>18 DEF DataAck
<1>19. ASSUME NEW p \in Process, Crash(p) PROVE failures' \in {failures, failures + 1}
  BY <1>19 DEF Crash
<1>20. ASSUME NEW p \in Process, Disconnect(p) PROVE failures' \in {failures, failures + 1}
  BY <1>20 DEF Disconnect
<1>21. ASSUME NEW p \in Process, Restart(p) PROVE failures' \in {failures, failures + 1}
  BY <1>21 DEF Restart
<1>22. CASE UNCHANGED vars
  BY <1>22 DEF vars
<1> QED
  BY <1>1, <1>2, <1>3, <1>4, <1>5, <1>6, <1>7, <1>8, <1>9, <1>10, <1>11, <1>12,
     <1>13, <1>14, <1>15, <1>16, <1>17, <1>18, <1>19, <1>20, <1>21, <1>22
     DEF Next, GatewayNext, CoreNext, DataNext

LEMMA CalmNext == IInv /\ Delivery /\ Deduplicated /\ Calm /\ [Next]_vars => Calm'
<1> SUFFICES ASSUME IInv, Delivery, Deduplicated, Calm, [Next]_vars, failures' = 0
             PROVE  Orderly' /\ (OneCore => CoreWaitIsInFlight')
  BY DEF Calm, OneCore
<1>1. failures = 0
  BY FailuresGrow DEF IInv, TypeOK
<1>2. Orderly /\ (OneCore => CoreWaitIsInFlight)
  BY <1>1 DEF Calm
<1>3. Orderly'
  BY <1>1, <1>2, FirstNext, InOrderNext, SeenOnceNext, TruthfulNext DEF Orderly
<1>4. OneCore => CoreWaitIsInFlight'
  BY <1>1, <1>2, CoreInFlightNext
<1> QED
  BY <1>3, <1>4

LEMMA CalmCorrect == Spec => []Calm
BY CalmInit, CalmNext, IInvCorrect, DeliveryCorrect, DeduplicatedCorrect, PTL DEF Spec

\* Until something fails, a request that was refused has not been executed and never will
\* be: a refusal comes from a check before any message was forwarded, or from the one
\* execution that failed.
THEOREM RefusalsAreTruthful == Spec => []RefusedMeansUntouched
<1>1. Calm => RefusedMeansUntouched
  BY RefusedAreDead DEF Calm, Dead, RefusedMeansUntouched
<1> QED
  BY <1>1, CalmCorrect, PTL

\* With one core, until something fails, the message of a core that waits, or the reply to
\* it, is on its way. (With two, one drops the reply to the other.)
THEOREM OneCoreLosesNothing ==
  ASSUME OneCore
  PROVE  Spec => []CoreWaitIsInFlight
<1>1. Calm => CoreWaitIsInFlight
  BY DEF Calm, CoreWaitIsInFlight
<1> QED
  BY <1>1, CalmCorrect, PTL
=============================================================================
