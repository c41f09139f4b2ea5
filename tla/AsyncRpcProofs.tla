--------------------------- MODULE AsyncRpcProofs ---------------------------
(***************************************************************************)
(* Proofs about AsyncRpc for any number of replicas, requests and failures. *)
(***************************************************************************)
EXTENDS AsyncRpc, FiniteSetTheorems, TLAPS

-----------------------------------------------------------------------------
(* Type correctness.                                                       *)

\* A fresh message is a message.
LEMMA FreshIsMessage ==
  ASSUME TypeOK, NEW r \in Request, NEW step \in {"check", "version", "dataset", "forward"}
  PROVE  Fresh(r, step) \in Message
BY DEF TypeOK, Fresh, Message

LEMMA FirstStepType ==
  ASSUME NEW r \in Request
  PROVE  FirstStep(r) \in {"version", "dataset", "forward"}
BY DEF FirstStep

\* What the core publishes keeps the variables it writes within their types.
LEMMA SendToDataType ==
  ASSUME TypeOK, NEW c \in Core, NEW m \in Message, SendToData(c, m)
  PROVE  /\ core' \in [Core -> [pc : {"idle", "waiting", "answered"},
                                sent : Message \cup {NoMessage}]]
         /\ \A k \in Core : core'[k].pc # "idle" => core'[k].sent \in Message
         /\ toData' \subseteq Message /\ toGateway' \subseteq Answer
BY DEF TypeOK, SendToData

LEMMA AnswerGatewayType ==
  ASSUME TypeOK, NEW c \in Core, NEW m \in Message,
         NEW result \in {"ok", "refused", "coreTimeout"}, AnswerGateway(c, m, result)
  PROVE  /\ core' \in [Core -> [pc : {"idle", "waiting", "answered"},
                                sent : Message \cup {NoMessage}]]
         /\ \A k \in Core : core'[k].pc # "idle" => core'[k].sent \in Message
         /\ toData' \subseteq Message /\ toGateway' \subseteq Answer
<1>1. [req |-> m.req, result |-> result, epoch |-> failures] \in Answer
  BY DEF TypeOK, Answer, Message
<1> QED
  BY <1>1 DEF TypeOK, AnswerGateway

\* What the broker puts back are requests and messages.
LEMMA RequeueType ==
  ASSUME TypeOK, NEW p \in Process, Requeue(p)
  PROVE  toCore' \subseteq Request /\ toData' \subseteq Message
BY DEF TypeOK, Requeue, Message

LEMMA TypeInit == Init => TypeOK
BY ReplicasAssumption DEF Init, TypeOK, IdleCore, IdleData, Process

LEMMA TypeNext == TypeOK /\ [Next]_vars => TypeOK'
<1> SUFFICES ASSUME TypeOK, [Next]_vars PROVE TypeOK'
  OBVIOUS
<1> USE ReplicasAssumption
<1>1. ASSUME NEW g \in Gateway, NEW r \in Request, Submit(g, r) PROVE TypeOK'
  BY <1>1 DEF TypeOK, Submit, gatewayVars, coreVars, dataVars, systemVars
<1>2. ASSUME NEW g \in Gateway, NEW r \in Request, SubmitUnavailable(g, r) PROVE TypeOK'
  BY <1>2 DEF TypeOK, SubmitUnavailable, Answered, coreVars, dataVars, systemVars
<1>3. ASSUME NEW g \in Gateway, NEW a \in toGateway, GatewayReply(g, a) PROVE TypeOK'
  <2>1. a.req \in Request /\ a.result \in Answered
    BY <1>3 DEF TypeOK, Answer, Answered
  <2> QED
    BY <1>3, <2>1 DEF TypeOK, GatewayReply, coreVars, dataVars, systemVars
<1>4. ASSUME NEW g \in Gateway, NEW a \in toGateway, GatewayDropReply(g, a) PROVE TypeOK'
  BY <1>4 DEF TypeOK, GatewayDropReply, gatewayVars, coreVars, dataVars, systemVars
<1>5. ASSUME NEW g \in Gateway, NEW r \in Request, GatewayTimeout(g, r) PROVE TypeOK'
  BY <1>5 DEF TypeOK, GatewayTimeout, Answered, coreVars, dataVars, systemVars
<1>6. ASSUME NEW c \in Core, NEW r \in toCore, CoreReceive(c, r) PROVE TypeOK'
  <2>1. r \in Request
    BY DEF TypeOK
  <2>2. Fresh(r, "check") \in Message /\ Fresh(r, FirstStep(r)) \in Message
    BY <2>1, FreshIsMessage, FirstStepType
  <2>3. /\ core' \in [Core -> [pc : {"idle", "waiting", "answered"},
                                sent : Message \cup {NoMessage}]]
        /\ \A k \in Core : core'[k].pc # "idle" => core'[k].sent \in Message
        /\ toData' \subseteq Message /\ toGateway' \subseteq Answer
    <3>1. CASE r \in coreProcessed[c]
      BY <1>6, <3>1 DEF CoreReceive, TypeOK
    <3>2. CASE r \notin coreProcessed[c] /\ ~Admissible(r)
      BY <1>6, <2>2, <3>2, AnswerGatewayType DEF CoreReceive
    <3>3. CASE r \notin coreProcessed[c] /\ Admissible(r)
      BY <1>6, <2>2, <3>3, SendToDataType DEF CoreReceive
    <3> QED
      BY <3>1, <3>2, <3>3
  <2> QED
    BY <1>6, <2>3 DEF TypeOK, CoreReceive, gatewayVars, dataVars, systemVars
<1>7. ASSUME NEW c \in Core, NEW p \in fromData, CoreLookupReply(c, p) PROVE TypeOK'
  <2> DEFINE m == core[c].sent
  <2>1. m \in Message /\ m.req \in Request
    BY <1>7 DEF TypeOK, CoreLookupReply, Awaits, Message
  <2>2. Fresh(m.req, "dataset") \in Message /\ Fresh(m.req, "forward") \in Message
    BY <2>1, FreshIsMessage
  <2>3. \/ AnswerGateway(c, m, "refused")
        \/ SendToData(c, Fresh(m.req, "dataset"))
        \/ SendToData(c, Fresh(m.req, "forward"))
    BY <1>7 DEF CoreLookupReply
  <2>4. /\ core' \in [Core -> [pc : {"idle", "waiting", "answered"},
                                sent : Message \cup {NoMessage}]]
        /\ \A k \in Core : core'[k].pc # "idle" => core'[k].sent \in Message
        /\ toData' \subseteq Message /\ toGateway' \subseteq Answer
    <3> HIDE DEF m
    <3> QED
      BY <2>1, <2>2, <2>3, AnswerGatewayType, SendToDataType
  <2> QED
    BY <1>7, <2>4 DEF TypeOK, CoreLookupReply, gatewayVars, dataVars, systemVars
<1>8. ASSUME NEW c \in Core, NEW p \in fromData, CoreForwardReply(c, p) PROVE TypeOK'
  <2> DEFINE m == core[c].sent
  <2>1. m \in Message /\ m.req \in Request /\ p.result \in {"ok", "refused", "coreTimeout"}
    BY <1>8 DEF TypeOK, CoreForwardReply, Awaits, Message, Reply
  <2>2. AnswerGateway(c, m, p.result)
    BY <1>8 DEF CoreForwardReply
  <2>3. /\ core' \in [Core -> [pc : {"idle", "waiting", "answered"},
                                sent : Message \cup {NoMessage}]]
        /\ \A k \in Core : core'[k].pc # "idle" => core'[k].sent \in Message
        /\ toData' \subseteq Message /\ toGateway' \subseteq Answer
    <3> HIDE DEF m
    <3> QED
      BY <2>1, <2>2, AnswerGatewayType
  <2> QED
    BY <1>8, <2>1, <2>3 DEF TypeOK, CoreForwardReply, gatewayVars, dataVars, systemVars
<1>9. ASSUME NEW c \in Core, NEW p \in fromData, CoreDropReply(c, p) PROVE TypeOK'
  BY <1>9 DEF TypeOK, CoreDropReply, gatewayVars, coreVars, dataVars, systemVars
<1>10. ASSUME NEW c \in Core, CoreTimeout(c) PROVE TypeOK'
  <2>1. core[c].sent \in Message /\ AnswerGateway(c, core[c].sent, "coreTimeout")
    BY <1>10 DEF TypeOK, CoreTimeout
  <2>2. /\ core' \in [Core -> [pc : {"idle", "waiting", "answered"},
                                sent : Message \cup {NoMessage}]]
        /\ \A k \in Core : core'[k].pc # "idle" => core'[k].sent \in Message
        /\ toData' \subseteq Message /\ toGateway' \subseteq Answer
    BY <2>1, AnswerGatewayType
  <2> QED
    BY <1>10, <2>2 DEF TypeOK, CoreTimeout, gatewayVars, dataVars, systemVars
<1>11. ASSUME NEW c \in Core, CoreAck(c) PROVE TypeOK'
  BY <1>11 DEF TypeOK, CoreAck, IdleCore, gatewayVars, dataVars, systemVars
<1>12. ASSUME NEW d \in Data, NEW m \in toData, DataReceive(d, m) PROVE TypeOK'
  BY <1>12 DEF TypeOK, DataReceive, gatewayVars, coreVars, systemVars
<1>13. ASSUME NEW d \in Data, NEW m \in toData, DataIgnoreDuplicate(d, m) PROVE TypeOK'
  BY <1>13 DEF TypeOK, DataIgnoreDuplicate, gatewayVars, coreVars, dataVars, systemVars
<1>14. ASSUME NEW d \in Data, DataExecute(d) PROVE TypeOK'
  <2>1. executed' \in [Request -> Nat] /\ rows' \subseteq Dataset \cup Version
    <3>1. data[d].msg \in Message /\ data[d].msg.req \in Request
      BY <1>14 DEF TypeOK, DataExecute, Message
    <3> QED
      BY <1>14, <3>1 DEF TypeOK, DataExecute
  <2>2. /\ data' \in [Data -> [pc : {"idle", "received", "executed", "replied"},
                        msg : Message \cup {NoMessage}, result : {"ok", "refused"}]]
        /\ \A k \in Data : data'[k].pc # "idle" => data'[k].msg \in Message
    BY <1>14 DEF TypeOK, DataExecute
  <2> QED
    BY <1>14, <2>1, <2>2 DEF TypeOK, DataExecute, gatewayVars, coreVars, systemVars
<1>15. ASSUME NEW d \in Data, DataReject(d) PROVE TypeOK'
  BY <1>15 DEF TypeOK, DataReject, gatewayVars, coreVars, systemVars
<1>16. ASSUME NEW d \in Data, DataReply(d) PROVE TypeOK'
  <2>1. data[d].msg \in Message
    BY <1>16 DEF TypeOK, DataReply
  <2>2. [to |-> data[d].msg, result |-> data[d].result, epoch |-> failures] \in Reply
    BY <2>1 DEF TypeOK, Reply
  <2> QED
    BY <1>16, <2>1, <2>2 DEF TypeOK, DataReply, gatewayVars, coreVars, systemVars
<1>17. ASSUME NEW d \in Data, DataReplyFails(d) PROVE TypeOK'
  BY <1>17 DEF TypeOK, DataReplyFails, IdleData, gatewayVars, coreVars, systemVars
<1>18. ASSUME NEW d \in Data, DataAck(d) PROVE TypeOK'
  BY <1>18 DEF TypeOK, DataAck, IdleData, gatewayVars, coreVars, systemVars
<1>19. ASSUME NEW p \in Process, Crash(p) PROVE TypeOK'
  <2>1. toCore' \subseteq Request /\ toData' \subseteq Message
    BY <1>19, RequeueType DEF Crash
  <2> QED
    BY <1>19, <2>1 DEF TypeOK, Crash, Answered, IdleCore, IdleData
<1>20. ASSUME NEW p \in Process, Disconnect(p) PROVE TypeOK'
  <2>1. toCore' \subseteq Request /\ toData' \subseteq Message
    BY <1>20, RequeueType DEF Disconnect
  <2> QED
    BY <1>20, <2>1 DEF TypeOK, Disconnect, IdleCore, IdleData, gatewayVars
<1>21. ASSUME NEW p \in Process, Restart(p) PROVE TypeOK'
  BY <1>21 DEF TypeOK, Restart, gatewayVars, coreVars, dataVars
<1>22. CASE UNCHANGED vars
  BY <1>22 DEF TypeOK, vars, gatewayVars, coreVars, dataVars, systemVars
<1> QED
  BY <1>1, <1>2, <1>3, <1>4, <1>5, <1>6, <1>7, <1>8, <1>9, <1>10, <1>11, <1>12,
     <1>13, <1>14, <1>15, <1>16, <1>17, <1>18, <1>19, <1>20, <1>21, <1>22
     DEF Next, GatewayNext, CoreNext, DataNext

\* Every reachable state is well typed.
THEOREM TypeCorrect == Spec => []TypeOK
BY TypeInit, TypeNext, PTL DEF Spec

-----------------------------------------------------------------------------
(* The inductive invariant. An answer is as good as the message it is made *)
(* from, and that message as good as the checks it has passed.             *)

\* Every "ok" on its way to the client comes from an execution.
OkIsBacked ==
  /\ \A r \in Request : client[r] = "ok" => executed[r] > 0
  /\ \A a \in toGateway : a.result = "ok" => executed[a.req] > 0
  /\ \A p \in fromData :
       p.to.step = "forward" /\ p.result = "ok" => executed[p.to.req] > 0
  /\ \A d \in Data :
       data[d].pc # "idle" /\ data[d].msg.step = "forward" /\ data[d].result = "ok"
         => executed[data[d].msg.req] > 0

\* A message to the data service has passed the checks that come before it.
Cleared(m) ==
  /\ Admissible(m.req)
  /\ m.step \in {"version", "dataset"} => Shape[m.req].type \in OwnerTypes
  /\ m.step = "forward" /\ Shape[m.req].type \in OwnerTypes => OwnerOrAdmin(m.req)

ChecksPassed ==
  /\ \A m \in toData : Cleared(m)
  /\ \A d \in Data : data[d].pc # "idle" => Cleared(data[d].msg)
  /\ \A c \in Core : core[c].pc = "waiting" => Cleared(core[c].sent)
  /\ \A r \in Request : executed[r] > 0 => Permitted(r)

\* Nothing happens to a request before it was accepted.
Accepted ==
  /\ \A r \in toCore : client[r] # "new"
  /\ \A m \in toData : client[m.req] # "new"
  /\ \A c \in Core : core[c].pc # "idle" => client[core[c].sent.req] # "new"
  /\ \A d \in Data : data[d].pc # "idle" => client[data[d].msg.req] # "new"

\* A pending request belongs to one gateway, and its client waits.
PendingWaits ==
  /\ \A g \in Gateway : \A r \in pending[g] : client[r] = "waiting"
  /\ \A g, h \in Gateway : g # h => pending[g] \cap pending[h] = {}

IInv == TypeOK /\ OkIsBacked /\ ChecksPassed /\ Accepted /\ PendingWaits

LEMMA IInvInit == Init => IInv
<1> SUFFICES ASSUME Init PROVE IInv
  OBVIOUS
<1>1. TypeOK
  BY TypeInit
<1>2. OkIsBacked /\ ChecksPassed /\ Accepted /\ PendingWaits
  BY DEF Init, OkIsBacked, ChecksPassed, Accepted, PendingWaits, IdleCore, IdleData
<1> QED
  BY <1>1, <1>2 DEF IInv

\* The reply to a forwarded request is recognised by the request alone.
LEMMA ForwardCorrelation ==
  ASSUME NEW m \in Message, NEW n \in Message,
         Correlation(m) = Correlation(n), n.step = "forward"
  PROVE  m.step = "forward" /\ m.req = n.req
<1>1. Correlation(n) = <<n.req>>
  BY DEF Correlation
<1>2. CASE m.step = "forward"
  BY <1>1, <1>2 DEF Correlation
<1>3. CASE m.step # "forward"
  <2>1. Correlation(m) = <<m.req, m.step, m.epoch>>
    BY <1>3 DEF Correlation
  <2>2. <<m.req, m.step, m.epoch>> # <<n.req>>
    OBVIOUS
  <2> QED
    BY <1>1, <2>1, <2>2
<1> QED
  BY <1>2, <1>3

\* A cleared forward is a permitted request.
LEMMA ClearedIsPermitted ==
  ASSUME NEW m \in Message, m.step = "forward", Cleared(m)
  PROVE  Permitted(m.req)
<1>1. m.req \in Request
  BY DEF Message
<1>2. CASE Shape[m.req].type \in OwnerTypes
  <2>1. OwnerOrAdmin(m.req) /\ Admissible(m.req)
    BY <1>2 DEF Cleared
  <2>2. CASE Shape[m.req].type = "versionDelete"
    BY <1>1, <2>1, <2>2, ShapeAssumption
       DEF Permitted, OwnerOrAdmin, Admissible, TargetDataset
  <2>3. CASE Shape[m.req].type # "versionDelete"
    <3>1. Shape[m.req].target \in Dataset
      BY <1>1, <1>2, <2>3, ShapeAssumption DEF OwnerTypes
    <3> QED
      BY <1>1, <2>1, <2>3, <3>1, RowsAssumption
         DEF Permitted, OwnerOrAdmin, Admissible, TargetDataset
  <2> QED
    BY <2>2, <2>3
<1>3. CASE Shape[m.req].type \notin OwnerTypes
  BY <1>3 DEF Cleared, Permitted, Admissible
<1> QED
  BY <1>2, <1>3

\* A step keeps pending requests waiting, each at one gateway.
LEMMA PendingWaitsNext == IInv /\ [Next]_vars => PendingWaits'
<1> SUFFICES ASSUME IInv, [Next]_vars PROVE PendingWaits'
  OBVIOUS
<1> USE DEF IInv, TypeOK, PendingWaits, gatewayVars, coreVars, dataVars, systemVars
<1>1. ASSUME NEW g \in Gateway, NEW r \in Request, Submit(g, r) PROVE PendingWaits'
  <2>1. \A h \in Gateway : r \notin pending[h]
    BY <1>1 DEF Submit
  <2> QED
    BY <1>1, <2>1 DEF Submit
<1>2. ASSUME NEW g \in Gateway, NEW r \in Request, SubmitUnavailable(g, r) PROVE PendingWaits'
  BY <1>2 DEF SubmitUnavailable
<1>3. ASSUME NEW g \in Gateway, NEW a \in toGateway, GatewayReply(g, a) PROVE PendingWaits'
  <2>1. a.req \in Request
    BY DEF Answer
  <2>2. \A h \in Gateway : h # g => a.req \notin pending[h]
    BY <1>3 DEF GatewayReply
  <2> QED
    BY <1>3, <2>1, <2>2 DEF GatewayReply
<1>4. ASSUME NEW g \in Gateway, NEW a \in toGateway, GatewayDropReply(g, a) PROVE PendingWaits'
  BY <1>4 DEF GatewayDropReply
<1>5. ASSUME NEW g \in Gateway, NEW r \in Request, GatewayTimeout(g, r) PROVE PendingWaits'
  BY <1>5 DEF GatewayTimeout
<1>6. ASSUME NEW c \in Core, NEW r \in toCore, CoreReceive(c, r) PROVE PendingWaits'
  BY <1>6 DEF CoreReceive
<1>7. ASSUME NEW c \in Core, NEW p \in fromData, CoreLookupReply(c, p) PROVE PendingWaits'
  BY <1>7 DEF CoreLookupReply
<1>8. ASSUME NEW c \in Core, NEW p \in fromData, CoreForwardReply(c, p) PROVE PendingWaits'
  BY <1>8 DEF CoreForwardReply
<1>9. ASSUME NEW c \in Core, NEW p \in fromData, CoreDropReply(c, p) PROVE PendingWaits'
  BY <1>9 DEF CoreDropReply
<1>10. ASSUME NEW c \in Core, CoreTimeout(c) PROVE PendingWaits'
  BY <1>10 DEF CoreTimeout
<1>11. ASSUME NEW c \in Core, CoreAck(c) PROVE PendingWaits'
  BY <1>11 DEF CoreAck
<1>12. ASSUME NEW d \in Data, NEW m \in toData, DataReceive(d, m) PROVE PendingWaits'
  BY <1>12 DEF DataReceive
<1>13. ASSUME NEW d \in Data, NEW m \in toData, DataIgnoreDuplicate(d, m) PROVE PendingWaits'
  BY <1>13 DEF DataIgnoreDuplicate
<1>14. ASSUME NEW d \in Data, DataExecute(d) PROVE PendingWaits'
  BY <1>14 DEF DataExecute
<1>15. ASSUME NEW d \in Data, DataReject(d) PROVE PendingWaits'
  BY <1>15 DEF DataReject
<1>16. ASSUME NEW d \in Data, DataReply(d) PROVE PendingWaits'
  BY <1>16 DEF DataReply
<1>17. ASSUME NEW d \in Data, DataReplyFails(d) PROVE PendingWaits'
  BY <1>17 DEF DataReplyFails
<1>18. ASSUME NEW d \in Data, DataAck(d) PROVE PendingWaits'
  BY <1>18 DEF DataAck
<1>19. ASSUME NEW p \in Process, Crash(p) PROVE PendingWaits'
  BY <1>19 DEF Crash
<1>20. ASSUME NEW p \in Process, Disconnect(p) PROVE PendingWaits'
  BY <1>20 DEF Disconnect
<1>21. ASSUME NEW p \in Process, Restart(p) PROVE PendingWaits'
  BY <1>21 DEF Restart
<1>22. CASE UNCHANGED vars
  BY <1>22 DEF vars
<1> QED
  BY <1>1, <1>2, <1>3, <1>4, <1>5, <1>6, <1>7, <1>8, <1>9, <1>10, <1>11, <1>12,
     <1>13, <1>14, <1>15, <1>16, <1>17, <1>18, <1>19, <1>20, <1>21, <1>22
     DEF Next, GatewayNext, CoreNext, DataNext

\* A step handles no request that was not accepted.
LEMMA AcceptedNext == IInv /\ [Next]_vars => Accepted'
<1> SUFFICES ASSUME IInv, [Next]_vars PROVE Accepted'
  OBVIOUS
<1> USE DEF IInv, TypeOK, Accepted, gatewayVars, coreVars, dataVars, systemVars
<1>1. ASSUME NEW g \in Gateway, NEW r \in Request, Submit(g, r) PROVE Accepted'
  BY <1>1 DEF Submit
<1>2. ASSUME NEW g \in Gateway, NEW r \in Request, SubmitUnavailable(g, r) PROVE Accepted'
  BY <1>2 DEF SubmitUnavailable
<1>3. ASSUME NEW g \in Gateway, NEW a \in toGateway, GatewayReply(g, a) PROVE Accepted'
  BY <1>3 DEF GatewayReply, Answer
<1>4. ASSUME NEW g \in Gateway, NEW a \in toGateway, GatewayDropReply(g, a) PROVE Accepted'
  BY <1>4 DEF GatewayDropReply
<1>5. ASSUME NEW g \in Gateway, NEW r \in Request, GatewayTimeout(g, r) PROVE Accepted'
  BY <1>5 DEF GatewayTimeout
<1>6. ASSUME NEW c \in Core, NEW r \in toCore, CoreReceive(c, r) PROVE Accepted'
  BY <1>6 DEF CoreReceive, AnswerGateway, SendToData, Fresh
<1>7. ASSUME NEW c \in Core, NEW p \in fromData, CoreLookupReply(c, p) PROVE Accepted'
  <2>1. core[c].pc = "waiting" /\ client[core[c].sent.req] # "new"
    BY <1>7 DEF CoreLookupReply, Awaits
  <2> QED
    BY <1>7, <2>1 DEF CoreLookupReply, AnswerGateway, SendToData, Fresh
<1>8. ASSUME NEW c \in Core, NEW p \in fromData, CoreForwardReply(c, p) PROVE Accepted'
  <2>1. core[c].pc = "waiting" /\ client[core[c].sent.req] # "new"
    BY <1>8 DEF CoreForwardReply, Awaits
  <2> QED
    BY <1>8, <2>1 DEF CoreForwardReply, AnswerGateway
<1>9. ASSUME NEW c \in Core, NEW p \in fromData, CoreDropReply(c, p) PROVE Accepted'
  BY <1>9 DEF CoreDropReply
<1>10. ASSUME NEW c \in Core, CoreTimeout(c) PROVE Accepted'
  BY <1>10 DEF CoreTimeout, AnswerGateway
<1>11. ASSUME NEW c \in Core, CoreAck(c) PROVE Accepted'
  BY <1>11 DEF CoreAck, IdleCore
<1>12. ASSUME NEW d \in Data, NEW m \in toData, DataReceive(d, m) PROVE Accepted'
  BY <1>12 DEF DataReceive
<1>13. ASSUME NEW d \in Data, NEW m \in toData, DataIgnoreDuplicate(d, m) PROVE Accepted'
  BY <1>13 DEF DataIgnoreDuplicate
<1>14. ASSUME NEW d \in Data, DataExecute(d) PROVE Accepted'
  BY <1>14 DEF DataExecute
<1>15. ASSUME NEW d \in Data, DataReject(d) PROVE Accepted'
  BY <1>15 DEF DataReject
<1>16. ASSUME NEW d \in Data, DataReply(d) PROVE Accepted'
  BY <1>16 DEF DataReply
<1>17. ASSUME NEW d \in Data, DataReplyFails(d) PROVE Accepted'
  BY <1>17 DEF DataReplyFails, IdleData
<1>18. ASSUME NEW d \in Data, DataAck(d) PROVE Accepted'
  BY <1>18 DEF DataAck, IdleData
<1>19. ASSUME NEW p \in Process, Crash(p) PROVE Accepted'
  <2>1. \A r \in Request : client[r] # "new" => client'[r] # "new"
    BY <1>19 DEF Crash
  <2>2. /\ \A r \in toCore' : client[r] # "new" /\ r \in Request
        /\ \A m \in toData' : client[m.req] # "new" /\ m.req \in Request
    BY <1>19 DEF Crash, Requeue, Message
  <2>3. /\ \A c \in Core : core'[c].pc # "idle" =>
             client[core'[c].sent.req] # "new" /\ core'[c].sent.req \in Request
        /\ \A d \in Data : data'[d].pc # "idle" =>
             client[data'[d].msg.req] # "new" /\ data'[d].msg.req \in Request
    BY <1>19 DEF Crash, IdleCore, IdleData, Message
  <2> QED
    BY <2>1, <2>2, <2>3
<1>20. ASSUME NEW p \in Process, Disconnect(p) PROVE Accepted'
  BY <1>20 DEF Disconnect, Requeue, IdleCore, IdleData
<1>21. ASSUME NEW p \in Process, Restart(p) PROVE Accepted'
  BY <1>21 DEF Restart
<1>22. CASE UNCHANGED vars
  BY <1>22 DEF vars
<1> QED
  BY <1>1, <1>2, <1>3, <1>4, <1>5, <1>6, <1>7, <1>8, <1>9, <1>10, <1>11, <1>12,
     <1>13, <1>14, <1>15, <1>16, <1>17, <1>18, <1>19, <1>20, <1>21, <1>22
     DEF Next, GatewayNext, CoreNext, DataNext

\* A step sends and runs only what was checked.
LEMMA ChecksPassedNext == IInv /\ [Next]_vars => ChecksPassed'
<1> SUFFICES ASSUME IInv, [Next]_vars PROVE ChecksPassed'
  OBVIOUS
<1> USE DEF IInv, TypeOK, ChecksPassed, gatewayVars, coreVars, dataVars, systemVars
<1>1. ASSUME NEW g \in Gateway, NEW r \in Request, Submit(g, r) PROVE ChecksPassed'
  BY <1>1 DEF Submit
<1>2. ASSUME NEW g \in Gateway, NEW r \in Request, SubmitUnavailable(g, r) PROVE ChecksPassed'
  BY <1>2 DEF SubmitUnavailable
<1>3. ASSUME NEW g \in Gateway, NEW a \in toGateway, GatewayReply(g, a) PROVE ChecksPassed'
  BY <1>3 DEF GatewayReply
<1>4. ASSUME NEW g \in Gateway, NEW a \in toGateway, GatewayDropReply(g, a) PROVE ChecksPassed'
  BY <1>4 DEF GatewayDropReply
<1>5. ASSUME NEW g \in Gateway, NEW r \in Request, GatewayTimeout(g, r) PROVE ChecksPassed'
  BY <1>5 DEF GatewayTimeout
<1>6. ASSUME NEW c \in Core, NEW r \in toCore, CoreReceive(c, r) PROVE ChecksPassed'
  <2>1. ASSUME Admissible(r) PROVE Cleared(Fresh(r, FirstStep(r)))
    BY <2>1 DEF Cleared, Fresh, FirstStep, OwnerTypes
  <2> QED
    BY <1>6, <2>1 DEF CoreReceive, AnswerGateway, SendToData
<1>7. ASSUME NEW c \in Core, NEW p \in fromData, CoreLookupReply(c, p) PROVE ChecksPassed'
  <2> DEFINE m == core[c].sent
  <2>1. Cleared(m) /\ m.step \in {"version", "dataset"}
    BY <1>7 DEF CoreLookupReply, Awaits
  <2>2. Cleared(Fresh(m.req, "dataset"))
    BY <2>1 DEF Cleared, Fresh
  <2>3. ASSUME OwnerOrAdmin(m.req) PROVE Cleared(Fresh(m.req, "forward"))
    BY <2>1, <2>3 DEF Cleared, Fresh
  <2> QED
    BY <1>7, <2>2, <2>3 DEF CoreLookupReply, AnswerGateway, SendToData
<1>8. ASSUME NEW c \in Core, NEW p \in fromData, CoreForwardReply(c, p) PROVE ChecksPassed'
  BY <1>8 DEF CoreForwardReply, AnswerGateway
<1>9. ASSUME NEW c \in Core, NEW p \in fromData, CoreDropReply(c, p) PROVE ChecksPassed'
  BY <1>9 DEF CoreDropReply
<1>10. ASSUME NEW c \in Core, CoreTimeout(c) PROVE ChecksPassed'
  BY <1>10 DEF CoreTimeout, AnswerGateway
<1>11. ASSUME NEW c \in Core, CoreAck(c) PROVE ChecksPassed'
  BY <1>11 DEF CoreAck, IdleCore
<1>12. ASSUME NEW d \in Data, NEW m \in toData, DataReceive(d, m) PROVE ChecksPassed'
  BY <1>12 DEF DataReceive
<1>13. ASSUME NEW d \in Data, NEW m \in toData, DataIgnoreDuplicate(d, m) PROVE ChecksPassed'
  BY <1>13 DEF DataIgnoreDuplicate
<1>14. ASSUME NEW d \in Data, DataExecute(d) PROVE ChecksPassed'
  <2> DEFINE m == data[d].msg
  <2>1. m \in Message /\ m.req \in Request /\ Cleared(m)
    BY <1>14 DEF DataExecute, Message
  <2>2. \A r \in Request : executed'[r] > 0 => Permitted(r)
    <3>1. CASE m.step = "forward"
      <4>1. Permitted(m.req)
        BY <2>1, <3>1, ClearedIsPermitted
      <4>2. \A r \in Request : r # m.req => executed'[r] = executed[r]
        BY <1>14, <2>1, <3>1 DEF DataExecute
      <4> QED
        BY <4>1, <4>2
    <3>2. CASE m.step # "forward"
      BY <1>14, <3>2 DEF DataExecute
    <3> QED
      BY <3>1, <3>2
  <2>3. \A k \in Data : data'[k].pc # "idle" => Cleared(data'[k].msg)
    BY <1>14 DEF DataExecute
  <2> QED
    BY <1>14, <2>2, <2>3 DEF DataExecute
<1>15. ASSUME NEW d \in Data, DataReject(d) PROVE ChecksPassed'
  BY <1>15 DEF DataReject
<1>16. ASSUME NEW d \in Data, DataReply(d) PROVE ChecksPassed'
  BY <1>16 DEF DataReply
<1>17. ASSUME NEW d \in Data, DataReplyFails(d) PROVE ChecksPassed'
  BY <1>17 DEF DataReplyFails, IdleData
<1>18. ASSUME NEW d \in Data, DataAck(d) PROVE ChecksPassed'
  BY <1>18 DEF DataAck, IdleData
<1>19. ASSUME NEW p \in Process, Crash(p) PROVE ChecksPassed'
  BY <1>19 DEF Crash, Requeue, IdleCore, IdleData
<1>20. ASSUME NEW p \in Process, Disconnect(p) PROVE ChecksPassed'
  BY <1>20 DEF Disconnect, Requeue, IdleCore, IdleData
<1>21. ASSUME NEW p \in Process, Restart(p) PROVE ChecksPassed'
  BY <1>21 DEF Restart
<1>22. CASE UNCHANGED vars
  BY <1>22 DEF vars
<1> QED
  BY <1>1, <1>2, <1>3, <1>4, <1>5, <1>6, <1>7, <1>8, <1>9, <1>10, <1>11, <1>12,
     <1>13, <1>14, <1>15, <1>16, <1>17, <1>18, <1>19, <1>20, <1>21, <1>22
     DEF Next, GatewayNext, CoreNext, DataNext

\* A step passes on an ok only from where it came.
LEMMA OkIsBackedNext == IInv /\ [Next]_vars => OkIsBacked'
<1> SUFFICES ASSUME IInv, [Next]_vars PROVE OkIsBacked'
  OBVIOUS
<1> USE DEF IInv, TypeOK, OkIsBacked, gatewayVars, coreVars, dataVars, systemVars
<1>1. ASSUME NEW g \in Gateway, NEW r \in Request, Submit(g, r) PROVE OkIsBacked'
  BY <1>1 DEF Submit
<1>2. ASSUME NEW g \in Gateway, NEW r \in Request, SubmitUnavailable(g, r) PROVE OkIsBacked'
  BY <1>2 DEF SubmitUnavailable
<1>3. ASSUME NEW g \in Gateway, NEW a \in toGateway, GatewayReply(g, a) PROVE OkIsBacked'
  BY <1>3 DEF GatewayReply, Answer
<1>4. ASSUME NEW g \in Gateway, NEW a \in toGateway, GatewayDropReply(g, a) PROVE OkIsBacked'
  BY <1>4 DEF GatewayDropReply
<1>5. ASSUME NEW g \in Gateway, NEW r \in Request, GatewayTimeout(g, r) PROVE OkIsBacked'
  BY <1>5 DEF GatewayTimeout
<1>6. ASSUME NEW c \in Core, NEW r \in toCore, CoreReceive(c, r) PROVE OkIsBacked'
  BY <1>6 DEF CoreReceive, AnswerGateway, SendToData, Fresh
<1>7. ASSUME NEW c \in Core, NEW p \in fromData, CoreLookupReply(c, p) PROVE OkIsBacked'
  BY <1>7 DEF CoreLookupReply, AnswerGateway, SendToData, Fresh
<1>8. ASSUME NEW c \in Core, NEW p \in fromData, CoreForwardReply(c, p) PROVE OkIsBacked'
  <2> DEFINE m == core[c].sent
  <2>1. m \in Message /\ m.step = "forward" /\ p.to \in Message
    BY <1>8 DEF CoreForwardReply, Awaits, Reply
  <2>2. p.to.step = "forward" /\ p.to.req = m.req
    BY <1>8, <2>1, ForwardCorrelation DEF CoreForwardReply, Awaits
  <2>3. p.result = "ok" => executed[m.req] > 0
    BY <2>2
  <2> QED
    BY <1>8, <2>3 DEF CoreForwardReply, AnswerGateway
<1>9. ASSUME NEW c \in Core, NEW p \in fromData, CoreDropReply(c, p) PROVE OkIsBacked'
  BY <1>9 DEF CoreDropReply
<1>10. ASSUME NEW c \in Core, CoreTimeout(c) PROVE OkIsBacked'
  BY <1>10 DEF CoreTimeout, AnswerGateway
<1>11. ASSUME NEW c \in Core, CoreAck(c) PROVE OkIsBacked'
  BY <1>11 DEF CoreAck
<1>12. ASSUME NEW d \in Data, NEW m \in toData, DataReceive(d, m) PROVE OkIsBacked'
  BY <1>12 DEF DataReceive
<1>13. ASSUME NEW d \in Data, NEW m \in toData, DataIgnoreDuplicate(d, m) PROVE OkIsBacked'
  BY <1>13 DEF DataIgnoreDuplicate
<1>14. ASSUME NEW d \in Data, DataExecute(d) PROVE OkIsBacked'
  <2> DEFINE m == data[d].msg
  <2>1. m \in Message /\ m.req \in Request
    BY <1>14 DEF DataExecute, Message
  <2>2. \A r \in Request : executed[r] > 0 => executed'[r] > 0
    <3>1. CASE m.step = "forward"
      BY <1>14, <2>1, <3>1 DEF DataExecute
    <3>2. CASE m.step # "forward"
      BY <1>14, <3>2 DEF DataExecute
    <3> QED
      BY <3>1, <3>2
  <2>3. m.step = "forward" => executed'[m.req] > 0
    BY <1>14, <2>1 DEF DataExecute
  <2>4. \A k \in Data : data'[k].pc # "idle" /\ data'[k].msg.step = "forward"
             /\ data'[k].result = "ok" => executed'[data'[k].msg.req] > 0
    <3>1. \A k \in Data : k # d => data'[k] = data[k]
      BY <1>14 DEF DataExecute
    <3>2. data'[d].msg = m
      BY <1>14 DEF DataExecute
    <3>3. \A k \in Data : data[k].pc # "idle" => data[k].msg.req \in Request
      BY DEF Message
    <3> QED
      BY <2>2, <2>3, <3>1, <3>2, <3>3
  <2>5. /\ \A a \in toGateway : a.req \in Request
        /\ \A p \in fromData : p.to.req \in Request
    BY DEF Answer, Reply, Message
  <2> QED
    BY <1>14, <2>2, <2>4, <2>5 DEF DataExecute
<1>15. ASSUME NEW d \in Data, DataReject(d) PROVE OkIsBacked'
  BY <1>15 DEF DataReject
<1>16. ASSUME NEW d \in Data, DataReply(d) PROVE OkIsBacked'
  BY <1>16 DEF DataReply
<1>17. ASSUME NEW d \in Data, DataReplyFails(d) PROVE OkIsBacked'
  BY <1>17 DEF DataReplyFails, IdleData
<1>18. ASSUME NEW d \in Data, DataAck(d) PROVE OkIsBacked'
  BY <1>18 DEF DataAck, IdleData
<1>19. ASSUME NEW p \in Process, Crash(p) PROVE OkIsBacked'
  BY <1>19 DEF Crash, Requeue, IdleCore, IdleData
<1>20. ASSUME NEW p \in Process, Disconnect(p) PROVE OkIsBacked'
  BY <1>20 DEF Disconnect, Requeue, IdleCore, IdleData
<1>21. ASSUME NEW p \in Process, Restart(p) PROVE OkIsBacked'
  BY <1>21 DEF Restart
<1>22. CASE UNCHANGED vars
  BY <1>22 DEF vars
<1> QED
  BY <1>1, <1>2, <1>3, <1>4, <1>5, <1>6, <1>7, <1>8, <1>9, <1>10, <1>11, <1>12,
     <1>13, <1>14, <1>15, <1>16, <1>17, <1>18, <1>19, <1>20, <1>21, <1>22
     DEF Next, GatewayNext, CoreNext, DataNext

LEMMA IInvNext == IInv /\ [Next]_vars => IInv'
<1>1. IInv /\ [Next]_vars => TypeOK'
  BY TypeNext DEF IInv
<1> QED
  BY <1>1, PendingWaitsNext, AcceptedNext, ChecksPassedNext, OkIsBackedNext DEF IInv

LEMMA IInvCorrect == Spec => []IInv
BY IInvInit, IInvNext, PTL DEF Spec

\* A client that reads "ok" is told the truth.
THEOREM OkTruth == Spec => []OkMeansExecuted
<1>1. IInv => OkMeansExecuted
  BY DEF IInv, OkIsBacked, OkMeansExecuted
<1> QED
  BY <1>1, IInvCorrect, PTL

\* Only permitted requests take effect.
THEOREM Authorisation == Spec => []OnlyPermittedExecuted
<1>1. IInv => OnlyPermittedExecuted
  BY DEF IInv, ChecksPassed, OnlyPermittedExecuted
<1> QED
  BY <1>1, IInvCorrect, PTL

\* Every step is a step of the contract or leaves what the contract sees alone.
LEMMA ContractNext == IInv /\ [Next]_vars => [Contract!Next]_<<client, executed, rows>>
<1> SUFFICES ASSUME IInv, [Next]_vars PROVE [Contract!Next]_<<client, executed, rows>>
  OBVIOUS
<1> USE DEF IInv, TypeOK, gatewayVars, coreVars, dataVars, systemVars
<1>1. ASSUME NEW g \in Gateway, NEW r \in Request, Submit(g, r) PROVE [Contract!Next]_<<client, executed, rows>>
  <2>1. Contract!Accept(r)
    BY <1>1 DEF Submit, Contract!Accept
  <2> QED
    BY <2>1 DEF Contract!Next
<1>2. ASSUME NEW g \in Gateway, NEW r \in Request, SubmitUnavailable(g, r) PROVE [Contract!Next]_<<client, executed, rows>>
  <2>1. Contract!Settle
    BY <1>2 DEF SubmitUnavailable, Contract!Settle, Answered
  <2> QED
    BY <2>1 DEF Contract!Next
<1>3. ASSUME NEW g \in Gateway, NEW a \in toGateway, GatewayReply(g, a) PROVE [Contract!Next]_<<client, executed, rows>>
  <2>1. a.req \in Request /\ a.result \in Answered
    BY DEF Answer, Answered
  <2>2. client[a.req] = "waiting" /\ (a.result = "ok" => executed[a.req] > 0)
    BY <1>3 DEF GatewayReply, PendingWaits, OkIsBacked
  <2>3. Contract!Settle
    BY <1>3, <2>1, <2>2 DEF GatewayReply, Contract!Settle, Answered
  <2> QED
    BY <2>3 DEF Contract!Next
<1>4. ASSUME NEW g \in Gateway, NEW a \in toGateway, GatewayDropReply(g, a) PROVE [Contract!Next]_<<client, executed, rows>>
  BY <1>4 DEF GatewayDropReply
<1>5. ASSUME NEW g \in Gateway, NEW r \in Request, GatewayTimeout(g, r) PROVE [Contract!Next]_<<client, executed, rows>>
  <2>1. r \in Request /\ client[r] = "waiting"
    BY <1>5 DEF GatewayTimeout, PendingWaits
  <2>2. Contract!Settle
    BY <1>5, <2>1 DEF GatewayTimeout, Contract!Settle, Answered
  <2> QED
    BY <2>2 DEF Contract!Next
<1>6. ASSUME NEW c \in Core, NEW r \in toCore, CoreReceive(c, r) PROVE [Contract!Next]_<<client, executed, rows>>
  BY <1>6 DEF CoreReceive
<1>7. ASSUME NEW c \in Core, NEW p \in fromData, CoreLookupReply(c, p) PROVE [Contract!Next]_<<client, executed, rows>>
  BY <1>7 DEF CoreLookupReply
<1>8. ASSUME NEW c \in Core, NEW p \in fromData, CoreForwardReply(c, p) PROVE [Contract!Next]_<<client, executed, rows>>
  BY <1>8 DEF CoreForwardReply
<1>9. ASSUME NEW c \in Core, NEW p \in fromData, CoreDropReply(c, p) PROVE [Contract!Next]_<<client, executed, rows>>
  BY <1>9 DEF CoreDropReply
<1>10. ASSUME NEW c \in Core, CoreTimeout(c) PROVE [Contract!Next]_<<client, executed, rows>>
  BY <1>10 DEF CoreTimeout
<1>11. ASSUME NEW c \in Core, CoreAck(c) PROVE [Contract!Next]_<<client, executed, rows>>
  BY <1>11 DEF CoreAck
<1>12. ASSUME NEW d \in Data, NEW m \in toData, DataReceive(d, m) PROVE [Contract!Next]_<<client, executed, rows>>
  BY <1>12 DEF DataReceive
<1>13. ASSUME NEW d \in Data, NEW m \in toData, DataIgnoreDuplicate(d, m) PROVE [Contract!Next]_<<client, executed, rows>>
  BY <1>13 DEF DataIgnoreDuplicate
<1>14. ASSUME NEW d \in Data, DataExecute(d) PROVE [Contract!Next]_<<client, executed, rows>>
  <2> DEFINE m == data[d].msg
  <2>1. m \in Message /\ m.req \in Request /\ Cleared(m) /\ client[m.req] # "new"
    BY <1>14 DEF DataExecute, Message, ChecksPassed, Accepted
  <2>2. CASE m.step = "forward"
    <3>1. Permitted(m.req)
      BY <2>1, <2>2, ClearedIsPermitted
    <3>2. Contract!Execute(m.req)
      BY <1>14, <2>1, <2>2, <3>1 DEF DataExecute, Contract!Execute
    <3> QED
      BY <2>1, <3>2 DEF Contract!Next
  <2>3. CASE m.step # "forward"
    BY <1>14, <2>3 DEF DataExecute
  <2> QED
    BY <2>2, <2>3
<1>15. ASSUME NEW d \in Data, DataReject(d) PROVE [Contract!Next]_<<client, executed, rows>>
  BY <1>15 DEF DataReject
<1>16. ASSUME NEW d \in Data, DataReply(d) PROVE [Contract!Next]_<<client, executed, rows>>
  BY <1>16 DEF DataReply
<1>17. ASSUME NEW d \in Data, DataReplyFails(d) PROVE [Contract!Next]_<<client, executed, rows>>
  BY <1>17 DEF DataReplyFails
<1>18. ASSUME NEW d \in Data, DataAck(d) PROVE [Contract!Next]_<<client, executed, rows>>
  BY <1>18 DEF DataAck
<1>19. ASSUME NEW p \in Process, Crash(p) PROVE [Contract!Next]_<<client, executed, rows>>
  <2>1. Contract!Settle
    BY <1>19 DEF Crash, Contract!Settle, Answered, PendingWaits
  <2> QED
    BY <2>1 DEF Contract!Next
<1>20. ASSUME NEW p \in Process, Disconnect(p) PROVE [Contract!Next]_<<client, executed, rows>>
  BY <1>20 DEF Disconnect
<1>21. ASSUME NEW p \in Process, Restart(p) PROVE [Contract!Next]_<<client, executed, rows>>
  BY <1>21 DEF Restart
<1>22. CASE UNCHANGED vars
  BY <1>22 DEF vars
<1> QED
  BY <1>1, <1>2, <1>3, <1>4, <1>5, <1>6, <1>7, <1>8, <1>9, <1>10, <1>11, <1>12,
     <1>13, <1>14, <1>15, <1>16, <1>17, <1>18, <1>19, <1>20, <1>21, <1>22
     DEF Next, GatewayNext, CoreNext, DataNext

\* The system implements its contract.
THEOREM Refinement == Spec => ImplementsContract
<1>1. Init => Contract!Init
  BY DEF Init, Contract!Init
<1>2. IInv /\ [Next]_vars => [Contract!Next]_<<client, executed, rows>>
  BY ContractNext
<1> QED
  BY <1>1, <1>2, IInvCorrect, PTL
     DEF Spec, ImplementsContract, Contract!Spec, Contract!contractVars

\* No step changes an answer a client already has.
THEOREM Finality == Spec => AnswersAreFinal
<1>1. IInv /\ [Next]_vars =>
        [\A r \in Request : client[r] \in Answered => client'[r] = client[r]]_vars
  <2> SUFFICES ASSUME IInv, [Next]_vars, NEW r \in Request, client[r] \in Answered
               PROVE  client'[r] = client[r]
    OBVIOUS
  <2>1. [Contract!Next]_<<client, executed, rows>>
    BY ContractNext
  <2>2. client[r] # "new" /\ client[r] # "waiting"
    BY DEF Answered
  <2> QED
    BY <2>1, <2>2 DEF IInv, TypeOK, Contract!Next, Contract!Accept, Contract!Execute,
       Contract!Settle
<1> QED
  BY <1>1, IInvCorrect, PTL DEF Spec, AnswersAreFinal

-----------------------------------------------------------------------------
(* Redelivery. A request is always in one place of the core: in its queue   *)
(* or with the one replica that handles it.                                *)

Holds(c, r) == core[c].pc # "idle" /\ core[c].sent.req = r
WaitsFor(c, r) == core[c].pc = "waiting" /\ core[c].sent.req = r

OnePlace ==
  /\ \A r \in toCore, c \in Core : ~Holds(c, r)
  /\ \A r \in Request, c, k \in Core : Holds(c, r) /\ Holds(k, r) => c = k

\* A core that is up remembers only requests that have been answered and are not
\* in the queue; one without its broker connection handles nothing.
Remembered ==
  /\ \A c \in Core : status[c] # "up" => core[c].pc = "idle"
  /\ \A c \in Core : status[c] = "down" => coreProcessed[c] = {}
  /\ \A c \in Core : \A r \in coreProcessed[c] :
       /\ client[r] # "new"
       /\ status[c] = "up" =>
            /\ r \notin toCore
            /\ \A k \in Core : Holds(k, r) => k = c /\ core[k].pc = "answered"

\* A client waits only while a handler of some gateway does.
Handled == \A r \in Request : client[r] = "waiting" => \E g \in Gateway : r \in pending[g]

OneGateway == \A g, h \in Gateway : g = h
OneCore == \A c, k \in Core : c = k

Delivery ==
  /\ OnePlace /\ Remembered /\ Handled
  /\ OneGateway => WaitingRequestIsInFlight

\* What the core publishes: it goes on with one request, and an answer is in the queue.
Continues(c, r, s) ==
  /\ core'[c].pc = s /\ core'[c].sent.req = r
  /\ \A k \in Core : k # c => core'[k] = core[k]
  /\ toGateway \subseteq toGateway'
  /\ s = "answered" => \E a \in toGateway' : a.req = r

LEMMA SendContinues ==
  ASSUME TypeOK, NEW c \in Core, NEW m \in Message, SendToData(c, m)
  PROVE  Continues(c, m.req, "waiting")
  BY DEF TypeOK, SendToData, Continues

LEMMA AnswerContinues ==
  ASSUME TypeOK, NEW c \in Core, NEW m \in Message, NEW result, AnswerGateway(c, m, result)
  PROVE  Continues(c, m.req, "answered")
  <1>1. [req |-> m.req, result |-> result, epoch |-> failures] \in toGateway'
    BY DEF AnswerGateway
  <1> QED
    BY <1>1 DEF TypeOK, AnswerGateway, Continues

LEMMA ReceiveContinues ==
  ASSUME TypeOK, NEW c \in Core, NEW r \in toCore, CoreReceive(c, r)
  PROVE  \/ r \in coreProcessed[c] /\ UNCHANGED <<core, toGateway>>
         \/ Continues(c, r, "waiting") \/ Continues(c, r, "answered")
  <1>1. r \in Request
    BY DEF TypeOK
  <1>2. Fresh(r, "check") \in Message /\ Fresh(r, FirstStep(r)) \in Message
    BY <1>1, FreshIsMessage, FirstStepType
  <1>3. Fresh(r, "check").req = r /\ Fresh(r, FirstStep(r)).req = r
    BY DEF Fresh
  <1>4. CASE r \in coreProcessed[c]
    BY <1>4 DEF CoreReceive
  <1>5. CASE r \notin coreProcessed[c] /\ ~Admissible(r)
    <2>1. AnswerGateway(c, Fresh(r, "check"), "refused")
      BY <1>5 DEF CoreReceive
    <2> QED
      BY <1>2, <1>3, <2>1, AnswerContinues
  <1>6. CASE r \notin coreProcessed[c] /\ Admissible(r)
    <2>1. SendToData(c, Fresh(r, FirstStep(r)))
      BY <1>6 DEF CoreReceive
    <2> QED
      BY <1>2, <1>3, <2>1, SendContinues
  <1> QED
    BY <1>4, <1>5, <1>6

LEMMA LookupContinues ==
  ASSUME TypeOK, NEW c \in Core, NEW p \in fromData, CoreLookupReply(c, p)
  PROVE  /\ core[c].pc = "waiting" /\ core[c].sent.req \in Request
         /\ \/ Continues(c, core[c].sent.req, "waiting")
            \/ Continues(c, core[c].sent.req, "answered")
  <1> DEFINE m == core[c].sent
  <1>1. core[c].pc = "waiting" /\ m \in Message /\ m.req \in Request
    BY DEF TypeOK, CoreLookupReply, Awaits, Message
  <1>2. Fresh(m.req, "dataset") \in Message /\ Fresh(m.req, "forward") \in Message
    BY <1>1, FreshIsMessage
  <1>3. Fresh(m.req, "dataset").req = m.req /\ Fresh(m.req, "forward").req = m.req
    BY DEF Fresh
  <1>4. \/ AnswerGateway(c, m, "refused")
        \/ SendToData(c, Fresh(m.req, "dataset"))
        \/ SendToData(c, Fresh(m.req, "forward"))
    BY DEF CoreLookupReply
  <1> HIDE DEF m
  <1>5. Continues(c, m.req, "waiting") \/ Continues(c, m.req, "answered")
    BY <1>1, <1>2, <1>3, <1>4, SendContinues, AnswerContinues
  <1> QED
    BY <1>1, <1>5 DEF m

LEMMA ForwardContinues ==
  ASSUME TypeOK, NEW c \in Core, NEW p \in fromData, CoreForwardReply(c, p)
  PROVE  /\ core[c].pc = "waiting" /\ core[c].sent \in Message /\ core[c].sent.req \in Request
         /\ Continues(c, core[c].sent.req, "answered")
  <1>1. core[c].pc = "waiting" /\ core[c].sent \in Message /\ core[c].sent.req \in Request
    BY DEF TypeOK, CoreForwardReply, Awaits, Message
  <1> QED
    BY <1>1, AnswerContinues DEF CoreForwardReply

LEMMA TimeoutContinues ==
  ASSUME TypeOK, NEW c \in Core, CoreTimeout(c)
  PROVE  /\ core[c].pc = "waiting" /\ core[c].sent \in Message /\ core[c].sent.req \in Request
         /\ Continues(c, core[c].sent.req, "answered")
  <1>1. core[c].pc = "waiting" /\ core[c].sent \in Message /\ core[c].sent.req \in Request
    BY DEF TypeOK, CoreTimeout, Message
  <1> QED
    BY <1>1, AnswerContinues DEF CoreTimeout

\* No step puts a request in two places.
LEMMA OnePlaceNext == IInv /\ Delivery /\ [Next]_vars => OnePlace'
<1> SUFFICES ASSUME IInv, Delivery, [Next]_vars PROVE OnePlace'
  OBVIOUS
<1> USE DEF IInv, TypeOK, Delivery, OnePlace, Remembered, Accepted, Holds, Message, gatewayVars, coreVars, dataVars, systemVars
<1>1. ASSUME NEW g \in Gateway, NEW r \in Request, Submit(g, r) PROVE OnePlace'
  BY <1>1 DEF Submit
<1>2. ASSUME NEW g \in Gateway, NEW r \in Request, SubmitUnavailable(g, r) PROVE OnePlace'
  BY <1>2 DEF SubmitUnavailable
<1>3. ASSUME NEW g \in Gateway, NEW a \in toGateway, GatewayReply(g, a) PROVE OnePlace'
  <2>1. a.req \in Request /\ a.result \in {"ok", "refused", "coreTimeout"}
    BY DEF Answer
  <2> QED
    BY <1>3, <2>1 DEF GatewayReply
<1>4. ASSUME NEW g \in Gateway, NEW a \in toGateway, GatewayDropReply(g, a) PROVE OnePlace'
  BY <1>4 DEF GatewayDropReply
<1>5. ASSUME NEW g \in Gateway, NEW r \in Request, GatewayTimeout(g, r) PROVE OnePlace'
  BY <1>5 DEF GatewayTimeout
<1>6. ASSUME NEW c \in Core, NEW r \in toCore, CoreReceive(c, r) PROVE OnePlace'
  <2>1. r \in Request /\ core[c].pc = "idle"
    BY <1>6 DEF CoreReceive
  <2>2. \/ r \in coreProcessed[c] /\ UNCHANGED <<core, toGateway>>
        \/ Continues(c, r, "waiting") \/ Continues(c, r, "answered")
    BY <1>6, ReceiveContinues
  <2>3. /\ status[c] = "up" /\ toCore' = toCore \ {r}
        /\ UNCHANGED <<client, pending, coreProcessed, status>>
    BY <1>6 DEF CoreReceive
  <2> HIDE DEF IInv
  <2>4. CASE r \in coreProcessed[c] /\ UNCHANGED <<core, toGateway>>
    BY <2>1, <2>3, <2>4
  <2>5. CASE Continues(c, r, "waiting")
    BY <2>1, <2>3, <2>5 DEF Continues
  <2>6. CASE Continues(c, r, "answered")
    BY <2>1, <2>3, <2>6 DEF Continues
  <2> QED
    BY <2>2, <2>4, <2>5, <2>6
<1>7. ASSUME NEW c \in Core, NEW p \in fromData, CoreLookupReply(c, p) PROVE OnePlace'
  <2>1. core[c].pc = "waiting" /\ core[c].sent.req \in Request
    BY <1>7, LookupContinues
  <2>2. \/ Continues(c, core[c].sent.req, "waiting")
        \/ Continues(c, core[c].sent.req, "answered")
    BY <1>7, LookupContinues
  <2>3. UNCHANGED <<client, pending, toCore, coreProcessed, status>>
    BY <1>7 DEF CoreLookupReply
  <2> HIDE DEF IInv
  <2>4. CASE Continues(c, core[c].sent.req, "waiting")
    BY <2>1, <2>3, <2>4 DEF Continues
  <2>5. CASE Continues(c, core[c].sent.req, "answered")
    BY <2>1, <2>3, <2>5 DEF Continues
  <2> QED
    BY <2>2, <2>4, <2>5
<1>8. ASSUME NEW c \in Core, NEW p \in fromData, CoreForwardReply(c, p) PROVE OnePlace'
  BY <1>8 DEF CoreForwardReply, AnswerGateway, Awaits
<1>9. ASSUME NEW c \in Core, NEW p \in fromData, CoreDropReply(c, p) PROVE OnePlace'
  BY <1>9 DEF CoreDropReply
<1>10. ASSUME NEW c \in Core, CoreTimeout(c) PROVE OnePlace'
  BY <1>10 DEF CoreTimeout, AnswerGateway
<1>11. ASSUME NEW c \in Core, CoreAck(c) PROVE OnePlace'
  BY <1>11 DEF CoreAck, IdleCore
<1>12. ASSUME NEW d \in Data, NEW m \in toData, DataReceive(d, m) PROVE OnePlace'
  BY <1>12 DEF DataReceive
<1>13. ASSUME NEW d \in Data, NEW m \in toData, DataIgnoreDuplicate(d, m) PROVE OnePlace'
  BY <1>13 DEF DataIgnoreDuplicate
<1>14. ASSUME NEW d \in Data, DataExecute(d) PROVE OnePlace'
  BY <1>14 DEF DataExecute
<1>15. ASSUME NEW d \in Data, DataReject(d) PROVE OnePlace'
  BY <1>15 DEF DataReject
<1>16. ASSUME NEW d \in Data, DataReply(d) PROVE OnePlace'
  BY <1>16 DEF DataReply
<1>17. ASSUME NEW d \in Data, DataReplyFails(d) PROVE OnePlace'
  BY <1>17 DEF DataReplyFails, IdleData
<1>18. ASSUME NEW d \in Data, DataAck(d) PROVE OnePlace'
  BY <1>18 DEF DataAck, IdleData
<1>19. ASSUME NEW p \in Process, Crash(p) PROVE OnePlace'
  BY <1>19 DEF Crash, Requeue, IdleCore, IdleData
<1>20. ASSUME NEW p \in Process, Disconnect(p) PROVE OnePlace'
  BY <1>20 DEF Disconnect, Requeue, IdleCore, IdleData
<1>21. ASSUME NEW p \in Process, Restart(p) PROVE OnePlace'
  BY <1>21 DEF Restart
<1>22. CASE UNCHANGED vars
  BY <1>22 DEF vars
<1> QED
  BY <1>1, <1>2, <1>3, <1>4, <1>5, <1>6, <1>7, <1>8, <1>9, <1>10, <1>11, <1>12,
     <1>13, <1>14, <1>15, <1>16, <1>17, <1>18, <1>19, <1>20, <1>21, <1>22
     DEF Next, GatewayNext, CoreNext, DataNext

\* No step puts an answered request back into the queue of a core that remembers it.
LEMMA RememberedNext == IInv /\ Delivery /\ [Next]_vars => Remembered'
<1> SUFFICES ASSUME IInv, Delivery, [Next]_vars PROVE Remembered'
  OBVIOUS
<1> USE DEF IInv, TypeOK, Delivery, OnePlace, Remembered, Accepted, Holds, Message, gatewayVars, coreVars, dataVars, systemVars
<1>1. ASSUME NEW g \in Gateway, NEW r \in Request, Submit(g, r) PROVE Remembered'
  BY <1>1 DEF Submit
<1>2. ASSUME NEW g \in Gateway, NEW r \in Request, SubmitUnavailable(g, r) PROVE Remembered'
  BY <1>2 DEF SubmitUnavailable
<1>3. ASSUME NEW g \in Gateway, NEW a \in toGateway, GatewayReply(g, a) PROVE Remembered'
  <2>1. a.req \in Request /\ a.result \in {"ok", "refused", "coreTimeout"}
    BY DEF Answer
  <2> QED
    BY <1>3, <2>1 DEF GatewayReply
<1>4. ASSUME NEW g \in Gateway, NEW a \in toGateway, GatewayDropReply(g, a) PROVE Remembered'
  BY <1>4 DEF GatewayDropReply
<1>5. ASSUME NEW g \in Gateway, NEW r \in Request, GatewayTimeout(g, r) PROVE Remembered'
  BY <1>5 DEF GatewayTimeout
<1>6. ASSUME NEW c \in Core, NEW r \in toCore, CoreReceive(c, r) PROVE Remembered'
  <2>1. r \in Request /\ core[c].pc = "idle"
    BY <1>6 DEF CoreReceive
  <2>2. \/ r \in coreProcessed[c] /\ UNCHANGED <<core, toGateway>>
        \/ Continues(c, r, "waiting") \/ Continues(c, r, "answered")
    BY <1>6, ReceiveContinues
  <2>3. /\ status[c] = "up" /\ toCore' = toCore \ {r}
        /\ UNCHANGED <<client, pending, coreProcessed, status>>
    BY <1>6 DEF CoreReceive
  <2> HIDE DEF IInv
  <2>4. CASE r \in coreProcessed[c] /\ UNCHANGED <<core, toGateway>>
    BY <2>1, <2>3, <2>4
  <2>5. CASE Continues(c, r, "waiting")
    BY <2>1, <2>3, <2>5 DEF Continues
  <2>6. CASE Continues(c, r, "answered")
    BY <2>1, <2>3, <2>6 DEF Continues
  <2> QED
    BY <2>2, <2>4, <2>5, <2>6
<1>7. ASSUME NEW c \in Core, NEW p \in fromData, CoreLookupReply(c, p) PROVE Remembered'
  <2>1. core[c].pc = "waiting" /\ core[c].sent.req \in Request
    BY <1>7, LookupContinues
  <2>2. \/ Continues(c, core[c].sent.req, "waiting")
        \/ Continues(c, core[c].sent.req, "answered")
    BY <1>7, LookupContinues
  <2>3. UNCHANGED <<client, pending, toCore, coreProcessed, status>>
    BY <1>7 DEF CoreLookupReply
  <2> HIDE DEF IInv
  <2>4. CASE Continues(c, core[c].sent.req, "waiting")
    BY <2>1, <2>3, <2>4 DEF Continues
  <2>5. CASE Continues(c, core[c].sent.req, "answered")
    BY <2>1, <2>3, <2>5 DEF Continues
  <2> QED
    BY <2>2, <2>4, <2>5
<1>8. ASSUME NEW c \in Core, NEW p \in fromData, CoreForwardReply(c, p) PROVE Remembered'
  BY <1>8 DEF CoreForwardReply, AnswerGateway, Awaits
<1>9. ASSUME NEW c \in Core, NEW p \in fromData, CoreDropReply(c, p) PROVE Remembered'
  BY <1>9 DEF CoreDropReply
<1>10. ASSUME NEW c \in Core, CoreTimeout(c) PROVE Remembered'
  BY <1>10 DEF CoreTimeout, AnswerGateway
<1>11. ASSUME NEW c \in Core, CoreAck(c) PROVE Remembered'
  BY <1>11 DEF CoreAck, IdleCore
<1>12. ASSUME NEW d \in Data, NEW m \in toData, DataReceive(d, m) PROVE Remembered'
  BY <1>12 DEF DataReceive
<1>13. ASSUME NEW d \in Data, NEW m \in toData, DataIgnoreDuplicate(d, m) PROVE Remembered'
  BY <1>13 DEF DataIgnoreDuplicate
<1>14. ASSUME NEW d \in Data, DataExecute(d) PROVE Remembered'
  BY <1>14 DEF DataExecute
<1>15. ASSUME NEW d \in Data, DataReject(d) PROVE Remembered'
  BY <1>15 DEF DataReject
<1>16. ASSUME NEW d \in Data, DataReply(d) PROVE Remembered'
  BY <1>16 DEF DataReply
<1>17. ASSUME NEW d \in Data, DataReplyFails(d) PROVE Remembered'
  BY <1>17 DEF DataReplyFails, IdleData
<1>18. ASSUME NEW d \in Data, DataAck(d) PROVE Remembered'
  BY <1>18 DEF DataAck, IdleData
<1>19. ASSUME NEW p \in Process, Crash(p) PROVE Remembered'
  BY <1>19 DEF Crash, Requeue, IdleCore, IdleData
<1>20. ASSUME NEW p \in Process, Disconnect(p) PROVE Remembered'
  BY <1>20 DEF Disconnect, Requeue, IdleCore, IdleData
<1>21. ASSUME NEW p \in Process, Restart(p) PROVE Remembered'
  BY <1>21 DEF Restart
<1>22. CASE UNCHANGED vars
  BY <1>22 DEF vars
<1> QED
  BY <1>1, <1>2, <1>3, <1>4, <1>5, <1>6, <1>7, <1>8, <1>9, <1>10, <1>11, <1>12,
     <1>13, <1>14, <1>15, <1>16, <1>17, <1>18, <1>19, <1>20, <1>21, <1>22
     DEF Next, GatewayNext, CoreNext, DataNext

\* A client that waits has its handler.
LEMMA HandledNext == IInv /\ Delivery /\ [Next]_vars => Handled'
<1> SUFFICES ASSUME IInv, Delivery, [Next]_vars PROVE Handled'
  OBVIOUS
<1> USE DEF IInv, TypeOK, Delivery, Handled, PendingWaits, gatewayVars, coreVars, dataVars, systemVars
<1>1. ASSUME NEW g \in Gateway, NEW r \in Request, Submit(g, r) PROVE Handled'
  BY <1>1 DEF Submit
<1>2. ASSUME NEW g \in Gateway, NEW r \in Request, SubmitUnavailable(g, r) PROVE Handled'
  BY <1>2 DEF SubmitUnavailable
<1>3. ASSUME NEW g \in Gateway, NEW a \in toGateway, GatewayReply(g, a) PROVE Handled'
  <2>1. a.req \in Request /\ a.result \in {"ok", "refused", "coreTimeout"}
    BY DEF Answer
  <2> QED
    BY <1>3, <2>1 DEF GatewayReply
<1>4. ASSUME NEW g \in Gateway, NEW a \in toGateway, GatewayDropReply(g, a) PROVE Handled'
  BY <1>4 DEF GatewayDropReply
<1>5. ASSUME NEW g \in Gateway, NEW r \in Request, GatewayTimeout(g, r) PROVE Handled'
  BY <1>5 DEF GatewayTimeout
<1>6. ASSUME NEW c \in Core, NEW r \in toCore, CoreReceive(c, r) PROVE Handled'
  <2>1. r \in Request /\ core[c].pc = "idle"
    BY <1>6 DEF CoreReceive
  <2>2. \/ r \in coreProcessed[c] /\ UNCHANGED <<core, toGateway>>
        \/ Continues(c, r, "waiting") \/ Continues(c, r, "answered")
    BY <1>6, ReceiveContinues
  <2>3. /\ status[c] = "up" /\ toCore' = toCore \ {r}
        /\ UNCHANGED <<client, pending, coreProcessed, status>>
    BY <1>6 DEF CoreReceive
  <2> HIDE DEF IInv
  <2>4. CASE r \in coreProcessed[c] /\ UNCHANGED <<core, toGateway>>
    BY <2>1, <2>3, <2>4
  <2>5. CASE Continues(c, r, "waiting")
    BY <2>1, <2>3, <2>5 DEF Continues
  <2>6. CASE Continues(c, r, "answered")
    BY <2>1, <2>3, <2>6 DEF Continues
  <2> QED
    BY <2>2, <2>4, <2>5, <2>6
<1>7. ASSUME NEW c \in Core, NEW p \in fromData, CoreLookupReply(c, p) PROVE Handled'
  <2>1. core[c].pc = "waiting" /\ core[c].sent.req \in Request
    BY <1>7, LookupContinues
  <2>2. \/ Continues(c, core[c].sent.req, "waiting")
        \/ Continues(c, core[c].sent.req, "answered")
    BY <1>7, LookupContinues
  <2>3. UNCHANGED <<client, pending, toCore, coreProcessed, status>>
    BY <1>7 DEF CoreLookupReply
  <2> HIDE DEF IInv
  <2>4. CASE Continues(c, core[c].sent.req, "waiting")
    BY <2>1, <2>3, <2>4 DEF Continues
  <2>5. CASE Continues(c, core[c].sent.req, "answered")
    BY <2>1, <2>3, <2>5 DEF Continues
  <2> QED
    BY <2>2, <2>4, <2>5
<1>8. ASSUME NEW c \in Core, NEW p \in fromData, CoreForwardReply(c, p) PROVE Handled'
  BY <1>8 DEF CoreForwardReply, AnswerGateway, Awaits
<1>9. ASSUME NEW c \in Core, NEW p \in fromData, CoreDropReply(c, p) PROVE Handled'
  BY <1>9 DEF CoreDropReply
<1>10. ASSUME NEW c \in Core, CoreTimeout(c) PROVE Handled'
  BY <1>10 DEF CoreTimeout, AnswerGateway
<1>11. ASSUME NEW c \in Core, CoreAck(c) PROVE Handled'
  BY <1>11 DEF CoreAck, IdleCore
<1>12. ASSUME NEW d \in Data, NEW m \in toData, DataReceive(d, m) PROVE Handled'
  BY <1>12 DEF DataReceive
<1>13. ASSUME NEW d \in Data, NEW m \in toData, DataIgnoreDuplicate(d, m) PROVE Handled'
  BY <1>13 DEF DataIgnoreDuplicate
<1>14. ASSUME NEW d \in Data, DataExecute(d) PROVE Handled'
  BY <1>14 DEF DataExecute
<1>15. ASSUME NEW d \in Data, DataReject(d) PROVE Handled'
  BY <1>15 DEF DataReject
<1>16. ASSUME NEW d \in Data, DataReply(d) PROVE Handled'
  BY <1>16 DEF DataReply
<1>17. ASSUME NEW d \in Data, DataReplyFails(d) PROVE Handled'
  BY <1>17 DEF DataReplyFails, IdleData
<1>18. ASSUME NEW d \in Data, DataAck(d) PROVE Handled'
  BY <1>18 DEF DataAck, IdleData
<1>19. ASSUME NEW p \in Process, Crash(p) PROVE Handled'
  BY <1>19 DEF Crash, Requeue, IdleCore, IdleData
<1>20. ASSUME NEW p \in Process, Disconnect(p) PROVE Handled'
  BY <1>20 DEF Disconnect, Requeue, IdleCore, IdleData
<1>21. ASSUME NEW p \in Process, Restart(p) PROVE Handled'
  BY <1>21 DEF Restart
<1>22. CASE UNCHANGED vars
  BY <1>22 DEF vars
<1> QED
  BY <1>1, <1>2, <1>3, <1>4, <1>5, <1>6, <1>7, <1>8, <1>9, <1>10, <1>11, <1>12,
     <1>13, <1>14, <1>15, <1>16, <1>17, <1>18, <1>19, <1>20, <1>21, <1>22
     DEF Next, GatewayNext, CoreNext, DataNext

\* With one gateway, no step loses a request whose client waits: a failure requeues it.
LEMMA InFlightNext == IInv /\ Delivery /\ OneGateway /\ [Next]_vars => WaitingRequestIsInFlight'
<1> SUFFICES ASSUME IInv, Delivery, OneGateway, [Next]_vars PROVE WaitingRequestIsInFlight'
  OBVIOUS
<1> USE DEF IInv, TypeOK, Delivery, OneGateway, Remembered, Handled, PendingWaits, WaitingRequestIsInFlight, Message, gatewayVars, coreVars, dataVars, systemVars
<1>1. ASSUME NEW g \in Gateway, NEW r \in Request, Submit(g, r) PROVE WaitingRequestIsInFlight'
  BY <1>1 DEF Submit
<1>2. ASSUME NEW g \in Gateway, NEW r \in Request, SubmitUnavailable(g, r) PROVE WaitingRequestIsInFlight'
  BY <1>2 DEF SubmitUnavailable
<1>3. ASSUME NEW g \in Gateway, NEW a \in toGateway, GatewayReply(g, a) PROVE WaitingRequestIsInFlight'
  <2>1. a.req \in Request /\ a.result \in {"ok", "refused", "coreTimeout"}
    BY DEF Answer
  <2> QED
    BY <1>3, <2>1 DEF GatewayReply
<1>4. ASSUME NEW g \in Gateway, NEW a \in toGateway, GatewayDropReply(g, a) PROVE WaitingRequestIsInFlight'
  BY <1>4 DEF GatewayDropReply
<1>5. ASSUME NEW g \in Gateway, NEW r \in Request, GatewayTimeout(g, r) PROVE WaitingRequestIsInFlight'
  BY <1>5 DEF GatewayTimeout
<1>6. ASSUME NEW c \in Core, NEW r \in toCore, CoreReceive(c, r) PROVE WaitingRequestIsInFlight'
  <2>1. r \in Request /\ core[c].pc = "idle"
    BY <1>6 DEF CoreReceive
  <2>2. \/ r \in coreProcessed[c] /\ UNCHANGED <<core, toGateway>>
        \/ Continues(c, r, "waiting") \/ Continues(c, r, "answered")
    BY <1>6, ReceiveContinues
  <2>3. /\ status[c] = "up" /\ toCore' = toCore \ {r}
        /\ UNCHANGED <<client, pending, coreProcessed, status>>
    BY <1>6 DEF CoreReceive
  <2> HIDE DEF IInv
  <2>4. CASE r \in coreProcessed[c] /\ UNCHANGED <<core, toGateway>>
    BY <2>1, <2>3, <2>4
  <2>5. CASE Continues(c, r, "waiting")
    BY <2>1, <2>3, <2>5 DEF Continues
  <2>6. CASE Continues(c, r, "answered")
    BY <2>1, <2>3, <2>6 DEF Continues
  <2> QED
    BY <2>2, <2>4, <2>5, <2>6
<1>7. ASSUME NEW c \in Core, NEW p \in fromData, CoreLookupReply(c, p) PROVE WaitingRequestIsInFlight'
  <2>1. core[c].pc = "waiting" /\ core[c].sent.req \in Request
    BY <1>7, LookupContinues
  <2>2. \/ Continues(c, core[c].sent.req, "waiting")
        \/ Continues(c, core[c].sent.req, "answered")
    BY <1>7, LookupContinues
  <2>3. UNCHANGED <<client, pending, toCore, coreProcessed, status>>
    BY <1>7 DEF CoreLookupReply
  <2> HIDE DEF IInv
  <2>4. CASE Continues(c, core[c].sent.req, "waiting")
    BY <2>1, <2>3, <2>4 DEF Continues
  <2>5. CASE Continues(c, core[c].sent.req, "answered")
    BY <2>1, <2>3, <2>5 DEF Continues
  <2> QED
    BY <2>2, <2>4, <2>5
<1>8. ASSUME NEW c \in Core, NEW p \in fromData, CoreForwardReply(c, p) PROVE WaitingRequestIsInFlight'
  <2>1. core[c].pc = "waiting" /\ core[c].sent.req \in Request
    BY <1>8, ForwardContinues
  <2>2. Continues(c, core[c].sent.req, "answered")
    BY <1>8, ForwardContinues
  <2>3. UNCHANGED <<client, pending, toCore, status>>
    BY <1>8 DEF CoreForwardReply
  <2> HIDE DEF IInv
  <2> QED
    BY <2>1, <2>2, <2>3 DEF Continues
<1>9. ASSUME NEW c \in Core, NEW p \in fromData, CoreDropReply(c, p) PROVE WaitingRequestIsInFlight'
  BY <1>9 DEF CoreDropReply
<1>10. ASSUME NEW c \in Core, CoreTimeout(c) PROVE WaitingRequestIsInFlight'
  <2>1. core[c].pc = "waiting" /\ core[c].sent.req \in Request
    BY <1>10, TimeoutContinues
  <2>2. Continues(c, core[c].sent.req, "answered")
    BY <1>10, TimeoutContinues
  <2>3. UNCHANGED <<client, pending, toCore, coreProcessed, status>>
    BY <1>10 DEF CoreTimeout
  <2> HIDE DEF IInv
  <2> QED
    BY <2>1, <2>2, <2>3 DEF Continues
<1>11. ASSUME NEW c \in Core, CoreAck(c) PROVE WaitingRequestIsInFlight'
  BY <1>11 DEF CoreAck, IdleCore
<1>12. ASSUME NEW d \in Data, NEW m \in toData, DataReceive(d, m) PROVE WaitingRequestIsInFlight'
  BY <1>12 DEF DataReceive
<1>13. ASSUME NEW d \in Data, NEW m \in toData, DataIgnoreDuplicate(d, m) PROVE WaitingRequestIsInFlight'
  BY <1>13 DEF DataIgnoreDuplicate
<1>14. ASSUME NEW d \in Data, DataExecute(d) PROVE WaitingRequestIsInFlight'
  BY <1>14 DEF DataExecute
<1>15. ASSUME NEW d \in Data, DataReject(d) PROVE WaitingRequestIsInFlight'
  BY <1>15 DEF DataReject
<1>16. ASSUME NEW d \in Data, DataReply(d) PROVE WaitingRequestIsInFlight'
  BY <1>16 DEF DataReply
<1>17. ASSUME NEW d \in Data, DataReplyFails(d) PROVE WaitingRequestIsInFlight'
  BY <1>17 DEF DataReplyFails, IdleData
<1>18. ASSUME NEW d \in Data, DataAck(d) PROVE WaitingRequestIsInFlight'
  BY <1>18 DEF DataAck, IdleData
<1>19. ASSUME NEW p \in Process, Crash(p) PROVE WaitingRequestIsInFlight'
  BY <1>19 DEF Crash, Requeue, IdleCore, IdleData
<1>20. ASSUME NEW p \in Process, Disconnect(p) PROVE WaitingRequestIsInFlight'
  BY <1>20 DEF Disconnect, Requeue, IdleCore, IdleData
<1>21. ASSUME NEW p \in Process, Restart(p) PROVE WaitingRequestIsInFlight'
  BY <1>21 DEF Restart
<1>22. CASE UNCHANGED vars
  BY <1>22 DEF vars
<1> QED
  BY <1>1, <1>2, <1>3, <1>4, <1>5, <1>6, <1>7, <1>8, <1>9, <1>10, <1>11, <1>12,
     <1>13, <1>14, <1>15, <1>16, <1>17, <1>18, <1>19, <1>20, <1>21, <1>22
     DEF Next, GatewayNext, CoreNext, DataNext

LEMMA DeliveryInit == Init => Delivery
BY DEF Init, Delivery, OnePlace, Remembered, Handled, WaitingRequestIsInFlight, Holds, IdleCore

LEMMA DeliveryCorrect == Spec => []Delivery
<1>1. IInv /\ Delivery /\ [Next]_vars => Delivery'
  <2> SUFFICES ASSUME IInv, Delivery, [Next]_vars PROVE Delivery'
    OBVIOUS
  <2>1. OneGateway => WaitingRequestIsInFlight'
    BY InFlightNext
  <2> QED
    BY <2>1, OnePlaceNext, RememberedNext, HandledNext DEF Delivery, OneGateway
<1> QED
  BY <1>1, DeliveryInit, IInvCorrect, PTL DEF Spec

\* The broker never redelivers a request to a core that would ignore it as a duplicate:
\* a core that is up and remembers a request has acknowledged it or still holds it.
THEOREM Redelivery == Spec => []RedeliveredRequestIsNew
<1>1. Delivery => RedeliveredRequestIsNew
  BY DEF Delivery, Remembered, RedeliveredRequestIsNew
<1> QED
  BY <1>1, DeliveryCorrect, PTL

\* With one gateway, and whatever fails, while a client waits its request is queued, in
\* the hands of a core, or answered in the queue of the gateway. (With two, run
\* async_scaled_replies shows the answer consumed by the wrong one.)
THEOREM OneGatewayLosesNothing ==
  ASSUME OneGateway
  PROVE  Spec => []WaitingRequestIsInFlight
<1>1. Delivery => WaitingRequestIsInFlight
  BY DEF Delivery
<1> QED
  BY <1>1, DeliveryCorrect, PTL

-----------------------------------------------------------------------------
(* Repeated executions. What can still make a request run are the request   *)
(* itself before it is forwarded, and each copy of the forwarded message.   *)

Unsent(r) ==
  \/ client[r] = "new"
  \/ r \in toCore
  \/ \E c \in Core : WaitsFor(c, r) /\ core[c].sent.step # "forward"

Forward(m, r) == m.step = "forward" /\ m.req = r
Queued(r) == {m \in toData : Forward(m, r)}
Received(r) == {d \in Data : data[d].pc = "received" /\ Forward(data[d].msg, r)}

Chances(r) == (IF Unsent(r) THEN 1 ELSE 0) + Cardinality(Queued(r)) + Cardinality(Received(r))

\* Each failure has paid for one more chance.
Paid ==
  \A r \in Request :
    /\ IsFiniteSet(Queued(r)) /\ IsFiniteSet(Received(r))
    /\ executed[r] + Chances(r) <= 1 + failures

\* The replicas of the data service that have run a request.
Runners(r) ==
  {d \in Data : \/ <<r>> \in dataProcessed[d]
                \/ data[d].pc \in {"executed", "replied"} /\ Forward(data[d].msg, r)}

\* A replica runs what it does not remember, and remembers what it has answered.
Noted ==
  /\ \A d \in Data : data[d].pc = "received" => MessageId(data[d].msg) \notin dataProcessed[d]
  /\ \A d \in Data : data[d].pc = "replied" => MessageId(data[d].msg) \in dataProcessed[d]

SteadyUp == \A d \in Data : d \notin Fallible => status[d] = "up"

\* Each replica has run a request once, where none fails.
Counted ==
  Fallible \cap Data = {} => \A r \in Request : executed[r] <= Cardinality(Runners(r))

Deduplicated == Noted /\ SteadyUp /\ Counted

\* Finite sets that grow or shrink by one element.
LEMMA AtMostOneMore ==
  ASSUME NEW S, IsFiniteSet(S), NEW x, NEW T, T \subseteq S \cup {x}
  PROVE  /\ IsFiniteSet(T)
         /\ Cardinality(S) \in Nat /\ Cardinality(T) \in Nat
         /\ Cardinality(T) <= Cardinality(S) + 1
  <1>0. Cardinality(S) \in Nat
    BY FS_CardinalityType
  <1>1. IsFiniteSet(S \cup {x}) /\ Cardinality(S \cup {x}) <= Cardinality(S) + 1
    BY <1>0, FS_AddElement
  <1>2. IsFiniteSet(T) /\ Cardinality(T) <= Cardinality(S \cup {x})
    BY <1>1, FS_Subset
  <1>3. Cardinality(S) \in Nat /\ Cardinality(T) \in Nat /\ Cardinality(S \cup {x}) \in Nat
    BY <1>1, <1>2, FS_CardinalityType
  <1> QED
    BY <1>1, <1>2, <1>3

LEMMA AtLeastOneLess ==
  ASSUME NEW S, IsFiniteSet(S), NEW x \in S, NEW T, T \subseteq S \ {x}
  PROVE  /\ IsFiniteSet(T)
         /\ Cardinality(S) \in Nat /\ Cardinality(T) \in Nat
         /\ Cardinality(T) + 1 <= Cardinality(S)
  <1>1. IsFiniteSet(S \ {x}) /\ Cardinality(S \ {x}) = Cardinality(S) - 1
    BY FS_RemoveElement
  <1>2. IsFiniteSet(T) /\ Cardinality(T) <= Cardinality(S \ {x})
    BY <1>1, FS_Subset
  <1>3. Cardinality(S) \in Nat /\ Cardinality(T) \in Nat
    BY <1>2, FS_CardinalityType
  <1> QED
    BY <1>1, <1>2, <1>3

LEMMA NoMore ==
  ASSUME NEW S, IsFiniteSet(S), NEW T, T \subseteq S
  PROVE  /\ IsFiniteSet(T)
         /\ Cardinality(S) \in Nat /\ Cardinality(T) \in Nat
         /\ Cardinality(T) <= Cardinality(S)
  BY FS_Subset, FS_CardinalityType

\* The chances of one request, as in Paid.
PaidFor(r) ==
  /\ IsFiniteSet(Queued(r)) /\ IsFiniteSet(Received(r))
  /\ executed[r] + Chances(r) <= 1 + failures

\* A step that opens no chance.
LEMMA KeepsPaid ==
  ASSUME NEW r, PaidFor(r), executed[r] \in Nat, failures \in Nat,
         executed'[r] = executed[r], failures' = failures,
         Queued(r)' \subseteq Queued(r), Received(r)' \subseteq Received(r),
         Unsent(r)' => Unsent(r)
  PROVE  PaidFor(r)'
  <1> DEFINE Q == Queued(r) Q2 == Queued(r)' R == Received(r) R2 == Received(r)'
  <1>1. IsFiniteSet(Q2) /\ Cardinality(Q) \in Nat /\ Cardinality(Q2) \in Nat /\ Cardinality(Q2) <= Cardinality(Q)
    BY NoMore DEF PaidFor
  <1>2. IsFiniteSet(R2) /\ Cardinality(R) \in Nat /\ Cardinality(R2) \in Nat /\ Cardinality(R2) <= Cardinality(R)
    BY NoMore DEF PaidFor
  <1> QED
    BY <1>1, <1>2 DEF PaidFor, Chances

\* The request becomes a message.
LEMMA SendKeepsPaid ==
  ASSUME NEW r, PaidFor(r), executed[r] \in Nat, failures \in Nat,
         executed'[r] = executed[r], failures' = failures,
         NEW m, Queued(r)' \subseteq Queued(r) \cup {m}, Received(r)' \subseteq Received(r),
         Unsent(r), ~Unsent(r)'
  PROVE  PaidFor(r)'
  <1> DEFINE Q == Queued(r) Q2 == Queued(r)' R == Received(r) R2 == Received(r)'
  <1>1. IsFiniteSet(Q2) /\ Cardinality(Q) \in Nat /\ Cardinality(Q2) \in Nat /\ Cardinality(Q2) <= Cardinality(Q) + 1
    BY AtMostOneMore DEF PaidFor
  <1>2. IsFiniteSet(R2) /\ Cardinality(R) \in Nat /\ Cardinality(R2) \in Nat /\ Cardinality(R2) <= Cardinality(R)
    BY NoMore DEF PaidFor
  <1> QED
    BY <1>1, <1>2 DEF PaidFor, Chances

\* A replica takes the message from the queue.
LEMMA ReceiveKeepsPaid ==
  ASSUME NEW r, PaidFor(r), executed[r] \in Nat, failures \in Nat,
         executed'[r] = executed[r], failures' = failures,
         NEW m \in Queued(r), Queued(r)' \subseteq Queued(r) \ {m},
         NEW d, Received(r)' \subseteq Received(r) \cup {d},
         Unsent(r)' => Unsent(r)
  PROVE  PaidFor(r)'
  <1> DEFINE Q == Queued(r) Q2 == Queued(r)' R == Received(r) R2 == Received(r)'
  <1>1. IsFiniteSet(Q2) /\ Cardinality(Q) \in Nat /\ Cardinality(Q2) \in Nat /\ Cardinality(Q2) + 1 <= Cardinality(Q)
    BY AtLeastOneLess DEF PaidFor
  <1>2. IsFiniteSet(R2) /\ Cardinality(R) \in Nat /\ Cardinality(R2) \in Nat /\ Cardinality(R2) <= Cardinality(R) + 1
    BY AtMostOneMore DEF PaidFor
  <1> QED
    BY <1>1, <1>2 DEF PaidFor, Chances

\* The replica runs it.
LEMMA ExecuteKeepsPaid ==
  ASSUME NEW r, PaidFor(r), executed[r] \in Nat, failures \in Nat,
         executed'[r] = executed[r] + 1, failures' = failures,
         Queued(r)' \subseteq Queued(r),
         NEW d \in Received(r), Received(r)' \subseteq Received(r) \ {d},
         Unsent(r)' => Unsent(r)
  PROVE  PaidFor(r)'
  <1> DEFINE Q == Queued(r) Q2 == Queued(r)' R == Received(r) R2 == Received(r)'
  <1>1. IsFiniteSet(Q2) /\ Cardinality(Q) \in Nat /\ Cardinality(Q2) \in Nat /\ Cardinality(Q2) <= Cardinality(Q)
    BY NoMore DEF PaidFor
  <1>2. IsFiniteSet(R2) /\ Cardinality(R) \in Nat /\ Cardinality(R2) \in Nat /\ Cardinality(R2) + 1 <= Cardinality(R)
    BY AtLeastOneLess DEF PaidFor
  <1> QED
    BY <1>1, <1>2 DEF PaidFor, Chances

\* A failure puts the request or a message back.
LEMMA FailureKeepsPaid ==
  ASSUME NEW r, PaidFor(r), executed[r] \in Nat, failures \in Nat,
         executed'[r] = executed[r], failures' = failures + 1,
         NEW m, Queued(r)' \subseteq Queued(r) \cup {m}, Received(r)' \subseteq Received(r),
         (Unsent(r)' => Unsent(r)) \/ Queued(r)' \subseteq Queued(r)
  PROVE  PaidFor(r)'
  <1> DEFINE Q == Queued(r) Q2 == Queued(r)' R == Received(r) R2 == Received(r)'
  <1>1. /\ IsFiniteSet(Q2) /\ Cardinality(Q) \in Nat /\ Cardinality(Q2) \in Nat
        /\ Cardinality(Q2) <= Cardinality(Q) + 1
        /\ Q2 \subseteq Q => Cardinality(Q2) <= Cardinality(Q)
    BY AtMostOneMore, NoMore DEF PaidFor
  <1>2. IsFiniteSet(R2) /\ Cardinality(R) \in Nat /\ Cardinality(R2) \in Nat /\ Cardinality(R2) <= Cardinality(R)
    BY NoMore DEF PaidFor
  <1> QED
    BY <1>1, <1>2 DEF PaidFor, Chances

\* The core sends a message for a request that it alone has in hand.
LEMMA CoreSendKeepsPaid ==
  ASSUME IInv, NEW q \in Request, PaidFor(q), NEW c \in Core, NEW m \in Message, SendToData(c, m),
         Unsent(m.req), client[m.req] # "new", \A k \in Core : k # c => ~Holds(k, m.req),
         toCore' = toCore \ {m.req}, UNCHANGED <<client, data, executed, failures>>
  PROVE  PaidFor(q)'
  <1>1. executed[q] \in Nat /\ failures \in Nat /\ executed'[q] = executed[q] /\ failures' = failures
    BY DEF IInv, TypeOK
  <1>2. toData' = toData \cup {m} /\ core'[c] = [pc |-> "waiting", sent |-> m]
        /\ \A k \in Core : k # c => core'[k] = core[k]
    BY DEF SendToData, IInv, TypeOK
  <1>3. Received(q)' \subseteq Received(q)
    BY DEF Received, Forward
  <1>4. CASE q # m.req
    <2>1. Queued(q)' \subseteq Queued(q)
      BY <1>2, <1>4 DEF Queued, Forward
    <2>2. Unsent(q)' => Unsent(q)
      BY <1>2, <1>4 DEF Unsent, WaitsFor
    <2> QED
      BY <1>1, <1>3, <2>1, <2>2, KeepsPaid
  <1>5. CASE q = m.req /\ m.step # "forward"
    <2>1. Queued(q)' \subseteq Queued(q)
      BY <1>2, <1>5 DEF Queued, Forward
    <2> QED
      BY <1>1, <1>3, <1>5, <2>1, KeepsPaid
  <1>6. CASE q = m.req /\ m.step = "forward"
    <2>1. Queued(q)' \subseteq Queued(q) \cup {m}
      BY <1>2 DEF Queued, Forward
    <2>2. ~Unsent(q)'
      BY <1>2, <1>6 DEF Unsent, WaitsFor, Holds
    <2> QED
      BY <1>1, <1>3, <1>6, <2>1, <2>2, SendKeepsPaid
  <1> QED
    BY <1>4, <1>5, <1>6

\* The core answers: the request will not be sent any more.
LEMMA CoreAnswerKeepsPaid ==
  ASSUME IInv, NEW q \in Request, PaidFor(q), NEW c \in Core, NEW m \in Message, NEW result,
         AnswerGateway(c, m, result),
         toCore' \subseteq toCore, UNCHANGED <<client, data, executed, failures>>
  PROVE  PaidFor(q)'
  <1>1. executed[q] \in Nat /\ failures \in Nat /\ executed'[q] = executed[q] /\ failures' = failures
    BY DEF IInv, TypeOK
  <1>2. toData' = toData /\ core'[c].pc = "answered" /\ \A k \in Core : k # c => core'[k] = core[k]
    BY DEF AnswerGateway, IInv, TypeOK
  <1>3. Received(q)' \subseteq Received(q) /\ Queued(q)' \subseteq Queued(q)
    BY <1>2 DEF Received, Queued, Forward
  <1>4. Unsent(q)' => Unsent(q)
    BY <1>2 DEF Unsent, WaitsFor
  <1> QED
    BY <1>1, <1>3, <1>4, KeepsPaid

\* A step keeps what was paid for.
LEMMA PaidNext == IInv /\ Delivery /\ Paid /\ [Next]_vars => Paid'
<1> SUFFICES ASSUME IInv, Delivery, Paid, [Next]_vars, NEW q \in Request PROVE PaidFor(q)'
  BY DEF Paid, PaidFor
<1> USE DEF gatewayVars, coreVars, dataVars, systemVars
<1>0. PaidFor(q) /\ executed[q] \in Nat /\ failures \in Nat
  BY DEF Paid, PaidFor, IInv, TypeOK
<1>1. ASSUME NEW g \in Gateway, NEW r \in Request, Submit(g, r) PROVE PaidFor(q)'
  <2>1. executed'[q] = executed[q] /\ failures' = failures
    BY <1>1 DEF Submit
  <2>2. Queued(q)' \subseteq Queued(q) /\ Received(q)' \subseteq Received(q)
    BY <1>1 DEF Submit, Queued, Received, Forward, IInv, TypeOK
  <2>3. Unsent(q)' => Unsent(q)
    BY <1>1 DEF Submit, Unsent, WaitsFor, IInv, TypeOK, PendingWaits, Accepted
  <2> QED
    BY <1>0, <2>1, <2>2, <2>3, KeepsPaid
<1>2. ASSUME NEW g \in Gateway, NEW r \in Request, SubmitUnavailable(g, r) PROVE PaidFor(q)'
  <2>1. executed'[q] = executed[q] /\ failures' = failures
    BY <1>2 DEF SubmitUnavailable
  <2>2. Queued(q)' \subseteq Queued(q) /\ Received(q)' \subseteq Received(q)
    BY <1>2 DEF SubmitUnavailable, Queued, Received, Forward, IInv, TypeOK
  <2>3. Unsent(q)' => Unsent(q)
    BY <1>2 DEF SubmitUnavailable, Unsent, WaitsFor, IInv, TypeOK, PendingWaits
  <2> QED
    BY <1>0, <2>1, <2>2, <2>3, KeepsPaid
<1>3. ASSUME NEW g \in Gateway, NEW a \in toGateway, GatewayReply(g, a) PROVE PaidFor(q)'
  <2>1. executed'[q] = executed[q] /\ failures' = failures
    BY <1>3 DEF GatewayReply
  <2>2. Queued(q)' \subseteq Queued(q) /\ Received(q)' \subseteq Received(q)
    BY <1>3 DEF GatewayReply, Queued, Received, Forward, IInv, TypeOK
  <2>3. Unsent(q)' => Unsent(q)
    BY <1>3 DEF GatewayReply, Unsent, WaitsFor, IInv, TypeOK, PendingWaits, Answer
  <2> QED
    BY <1>0, <2>1, <2>2, <2>3, KeepsPaid
<1>4. ASSUME NEW g \in Gateway, NEW a \in toGateway, GatewayDropReply(g, a) PROVE PaidFor(q)'
  <2>1. executed'[q] = executed[q] /\ failures' = failures
    BY <1>4 DEF GatewayDropReply
  <2>2. Queued(q)' \subseteq Queued(q) /\ Received(q)' \subseteq Received(q)
    BY <1>4 DEF GatewayDropReply, Queued, Received, Forward, IInv, TypeOK
  <2>3. Unsent(q)' => Unsent(q)
    BY <1>4 DEF GatewayDropReply, Unsent, WaitsFor, IInv, TypeOK, PendingWaits
  <2> QED
    BY <1>0, <2>1, <2>2, <2>3, KeepsPaid
<1>5. ASSUME NEW g \in Gateway, NEW r \in Request, GatewayTimeout(g, r) PROVE PaidFor(q)'
  <2>1. executed'[q] = executed[q] /\ failures' = failures
    BY <1>5 DEF GatewayTimeout
  <2>2. Queued(q)' \subseteq Queued(q) /\ Received(q)' \subseteq Received(q)
    BY <1>5 DEF GatewayTimeout, Queued, Received, Forward, IInv, TypeOK
  <2>3. Unsent(q)' => Unsent(q)
    BY <1>5 DEF GatewayTimeout, Unsent, WaitsFor, IInv, TypeOK, PendingWaits
  <2> QED
    BY <1>0, <2>1, <2>2, <2>3, KeepsPaid
<1>6. ASSUME NEW c \in Core, NEW r \in toCore, CoreReceive(c, r) PROVE PaidFor(q)'
  <2>1. /\ r \in Request /\ Unsent(r) /\ client[r] # "new" /\ \A k \in Core : ~Holds(k, r)
        /\ toCore' = toCore \ {r} /\ UNCHANGED <<client, data, executed, failures>>
    BY <1>6 DEF CoreReceive, IInv, TypeOK, Accepted, Delivery, OnePlace, Unsent
  <2>2. Fresh(r, "check") \in Message /\ Fresh(r, FirstStep(r)) \in Message /\ Fresh(r, FirstStep(r)).req = r
    BY <2>1, FreshIsMessage, FirstStepType DEF IInv, Fresh
  <2>3. CASE r \in coreProcessed[c]
    <3>1. UNCHANGED <<core, toData>>
      BY <1>6, <2>3 DEF CoreReceive
    <3>2. Queued(q)' \subseteq Queued(q) /\ Received(q)' \subseteq Received(q)
      BY <2>1, <3>1 DEF Queued, Received, Forward
    <3>3. Unsent(q)' => Unsent(q)
      BY <2>1, <3>1 DEF Unsent, WaitsFor
    <3> QED
      BY <1>0, <2>1, <3>2, <3>3, KeepsPaid
  <2>4. CASE r \notin coreProcessed[c] /\ ~Admissible(r)
    <3>1. AnswerGateway(c, Fresh(r, "check"), "refused")
      BY <1>6, <2>4 DEF CoreReceive
    <3> QED
      BY <1>0, <2>1, <2>2, <3>1, CoreAnswerKeepsPaid
  <2>5. CASE r \notin coreProcessed[c] /\ Admissible(r)
    <3>1. SendToData(c, Fresh(r, FirstStep(r)))
      BY <1>6, <2>5 DEF CoreReceive
    <3> QED
      BY <1>0, <2>1, <2>2, <3>1, CoreSendKeepsPaid
  <2> QED
    BY <2>3, <2>4, <2>5
<1>7. ASSUME NEW c \in Core, NEW p \in fromData, CoreLookupReply(c, p) PROVE PaidFor(q)'
  <2> DEFINE m == core[c].sent
  <2>1. core[c].pc = "waiting" /\ m \in Message /\ m.req \in Request /\ m.step # "forward"
    BY <1>7 DEF IInv, TypeOK, CoreLookupReply, Awaits, Message
  <2>2. Holds(c, m.req) /\ WaitsFor(c, m.req)
    BY <2>1 DEF Holds, WaitsFor
  <2>3. /\ Unsent(m.req) /\ client[m.req] # "new" /\ m.req \notin toCore
        /\ \A k \in Core : k # c => ~Holds(k, m.req)
    BY <2>1, <2>2 DEF IInv, Accepted, Delivery, OnePlace, Unsent
  <2>4. /\ toCore' = toCore /\ toCore' = toCore \ {m.req}
        /\ UNCHANGED <<client, data, executed, failures>>
    BY <1>7, <2>3 DEF CoreLookupReply
  <2>5. /\ Fresh(m.req, "dataset") \in Message /\ Fresh(m.req, "forward") \in Message
        /\ Fresh(m.req, "dataset").req = m.req /\ Fresh(m.req, "forward").req = m.req
    BY <2>1, FreshIsMessage DEF IInv, Fresh
  <2>6. \/ AnswerGateway(c, m, "refused")
        \/ SendToData(c, Fresh(m.req, "dataset"))
        \/ SendToData(c, Fresh(m.req, "forward"))
    BY <1>7 DEF CoreLookupReply
  <2> HIDE DEF m
  <2>7. CASE AnswerGateway(c, m, "refused")
    BY <1>0, <2>1, <2>4, <2>7, CoreAnswerKeepsPaid
  <2>8. CASE SendToData(c, Fresh(m.req, "dataset"))
    BY <1>0, <2>3, <2>4, <2>5, <2>8, CoreSendKeepsPaid
  <2>9. CASE SendToData(c, Fresh(m.req, "forward"))
    BY <1>0, <2>3, <2>4, <2>5, <2>9, CoreSendKeepsPaid
  <2> QED
    BY <2>6, <2>7, <2>8, <2>9
<1>8. ASSUME NEW c \in Core, NEW p \in fromData, CoreForwardReply(c, p) PROVE PaidFor(q)'
  <2>1. core[c].sent \in Message /\ AnswerGateway(c, core[c].sent, p.result)
    BY <1>8 DEF IInv, TypeOK, CoreForwardReply, Awaits
  <2>2. toCore' = toCore /\ UNCHANGED <<client, data, executed, failures>>
    BY <1>8 DEF CoreForwardReply
  <2> QED
    BY <1>0, <2>1, <2>2, CoreAnswerKeepsPaid
<1>9. ASSUME NEW c \in Core, NEW p \in fromData, CoreDropReply(c, p) PROVE PaidFor(q)'
  <2>1. executed'[q] = executed[q] /\ failures' = failures
    BY <1>9 DEF CoreDropReply
  <2>2. Queued(q)' \subseteq Queued(q) /\ Received(q)' \subseteq Received(q)
    BY <1>9 DEF CoreDropReply, Queued, Received, Forward, IInv, TypeOK
  <2>3. Unsent(q)' => Unsent(q)
    BY <1>9 DEF CoreDropReply, Unsent, WaitsFor, IInv, TypeOK, PendingWaits
  <2> QED
    BY <1>0, <2>1, <2>2, <2>3, KeepsPaid
<1>10. ASSUME NEW c \in Core, CoreTimeout(c) PROVE PaidFor(q)'
  <2>1. core[c].sent \in Message /\ AnswerGateway(c, core[c].sent, "coreTimeout")
    BY <1>10 DEF IInv, TypeOK, CoreTimeout
  <2>2. toCore' = toCore /\ UNCHANGED <<client, data, executed, failures>>
    BY <1>10 DEF CoreTimeout
  <2> QED
    BY <1>0, <2>1, <2>2, CoreAnswerKeepsPaid
<1>11. ASSUME NEW c \in Core, CoreAck(c) PROVE PaidFor(q)'
  <2>1. executed'[q] = executed[q] /\ failures' = failures
    BY <1>11 DEF CoreAck
  <2>2. Queued(q)' \subseteq Queued(q) /\ Received(q)' \subseteq Received(q)
    BY <1>11 DEF CoreAck, IdleCore, Queued, Received, Forward, IInv, TypeOK
  <2>3. Unsent(q)' => Unsent(q)
    BY <1>11 DEF CoreAck, IdleCore, Unsent, WaitsFor, IInv, TypeOK, PendingWaits
  <2> QED
    BY <1>0, <2>1, <2>2, <2>3, KeepsPaid
<1>12. ASSUME NEW d \in Data, NEW m \in toData, DataReceive(d, m) PROVE PaidFor(q)'
  <2>1. /\ executed' = executed /\ failures' = failures /\ toData' = toData \ {m}
        /\ data[d].pc = "idle" /\ data'[d] = [pc |-> "received", msg |-> m, result |-> "refused"]
        /\ \A k \in Data : k # d => data'[k] = data[k]
        /\ UNCHANGED <<client, toCore, core>>
    BY <1>12 DEF DataReceive, IInv, TypeOK
  <2>2. Unsent(q)' => Unsent(q)
    BY <2>1 DEF Unsent, WaitsFor
  <2>3. CASE m \in Queued(q)
    <3>1. Queued(q)' \subseteq Queued(q) \ {m} /\ Received(q)' \subseteq Received(q) \cup {d}
      BY <2>1 DEF Queued, Received, Forward
    <3> QED
      BY <1>0, <2>1, <2>2, <2>3, <3>1, ReceiveKeepsPaid
  <2>4. CASE m \notin Queued(q)
    <3>1. Queued(q)' \subseteq Queued(q) /\ Received(q)' \subseteq Received(q)
      BY <2>1, <2>4 DEF Queued, Received, Forward
    <3> QED
      BY <1>0, <2>1, <2>2, <3>1, KeepsPaid
  <2> QED
    BY <2>3, <2>4
<1>13. ASSUME NEW d \in Data, NEW m \in toData, DataIgnoreDuplicate(d, m) PROVE PaidFor(q)'
  <2>1. executed'[q] = executed[q] /\ failures' = failures
    BY <1>13 DEF DataIgnoreDuplicate
  <2>2. Queued(q)' \subseteq Queued(q) /\ Received(q)' \subseteq Received(q)
    BY <1>13 DEF DataIgnoreDuplicate, Queued, Received, Forward, IInv, TypeOK
  <2>3. Unsent(q)' => Unsent(q)
    BY <1>13 DEF DataIgnoreDuplicate, Unsent, WaitsFor, IInv, TypeOK, PendingWaits
  <2> QED
    BY <1>0, <2>1, <2>2, <2>3, KeepsPaid
<1>14. ASSUME NEW d \in Data, DataExecute(d) PROVE PaidFor(q)'
  <2> DEFINE m == data[d].msg
  <2>1. /\ failures' = failures /\ data[d].pc = "received" /\ data'[d].pc = "executed"
        /\ \A k \in Data : k # d => data'[k] = data[k]
        /\ m \in Message /\ m.req \in Request
        /\ UNCHANGED <<client, toCore, core, toData>>
    BY <1>14 DEF DataExecute, IInv, TypeOK, Message
  <2>2. Unsent(q)' => Unsent(q)
    BY <2>1 DEF Unsent, WaitsFor
  <2>3. Queued(q)' \subseteq Queued(q) /\ Received(q)' \subseteq Received(q) \ {d}
    BY <2>1 DEF Queued, Received, Forward
  <2>4. CASE Forward(m, q)
    <3>1. d \in Received(q)
      BY <2>1, <2>4 DEF Received
    <3>2. executed'[q] = executed[q] + 1
      BY <1>14, <2>4 DEF DataExecute, Forward, IInv, TypeOK
    <3> QED
      BY <1>0, <2>1, <2>2, <2>3, <3>1, <3>2, ExecuteKeepsPaid
  <2>5. CASE ~Forward(m, q)
    <3>1. executed'[q] = executed[q]
      BY <1>14, <2>1, <2>5 DEF DataExecute, Forward, IInv, TypeOK
    <3> QED
      BY <1>0, <2>1, <2>2, <2>3, <3>1, KeepsPaid
  <2> QED
    BY <2>4, <2>5
<1>15. ASSUME NEW d \in Data, DataReject(d) PROVE PaidFor(q)'
  <2>1. executed'[q] = executed[q] /\ failures' = failures
    BY <1>15 DEF DataReject
  <2>2. Queued(q)' \subseteq Queued(q) /\ Received(q)' \subseteq Received(q)
    BY <1>15 DEF DataReject, Queued, Received, Forward, IInv, TypeOK
  <2>3. Unsent(q)' => Unsent(q)
    BY <1>15 DEF DataReject, Unsent, WaitsFor, IInv, TypeOK, PendingWaits
  <2> QED
    BY <1>0, <2>1, <2>2, <2>3, KeepsPaid
<1>16. ASSUME NEW d \in Data, DataReply(d) PROVE PaidFor(q)'
  <2>1. executed'[q] = executed[q] /\ failures' = failures
    BY <1>16 DEF DataReply
  <2>2. Queued(q)' \subseteq Queued(q) /\ Received(q)' \subseteq Received(q)
    BY <1>16 DEF DataReply, Queued, Received, Forward, IInv, TypeOK
  <2>3. Unsent(q)' => Unsent(q)
    BY <1>16 DEF DataReply, Unsent, WaitsFor, IInv, TypeOK, PendingWaits
  <2> QED
    BY <1>0, <2>1, <2>2, <2>3, KeepsPaid
<1>17. ASSUME NEW d \in Data, DataReplyFails(d) PROVE PaidFor(q)'
  <2>1. executed'[q] = executed[q] /\ failures' = failures
    BY <1>17 DEF DataReplyFails
  <2>2. Queued(q)' \subseteq Queued(q) /\ Received(q)' \subseteq Received(q)
    BY <1>17 DEF DataReplyFails, IdleData, Queued, Received, Forward, IInv, TypeOK
  <2>3. Unsent(q)' => Unsent(q)
    BY <1>17 DEF DataReplyFails, IdleData, Unsent, WaitsFor, IInv, TypeOK, PendingWaits
  <2> QED
    BY <1>0, <2>1, <2>2, <2>3, KeepsPaid
<1>18. ASSUME NEW d \in Data, DataAck(d) PROVE PaidFor(q)'
  <2>1. executed'[q] = executed[q] /\ failures' = failures
    BY <1>18 DEF DataAck
  <2>2. Queued(q)' \subseteq Queued(q) /\ Received(q)' \subseteq Received(q)
    BY <1>18 DEF DataAck, IdleData, Queued, Received, Forward, IInv, TypeOK
  <2>3. Unsent(q)' => Unsent(q)
    BY <1>18 DEF DataAck, IdleData, Unsent, WaitsFor, IInv, TypeOK, PendingWaits
  <2> QED
    BY <1>0, <2>1, <2>2, <2>3, KeepsPaid
<1>19. ASSUME NEW p \in Process, Crash(p) PROVE PaidFor(q)'
  <2>1. /\ executed'[q] = executed[q] /\ failures' = failures + 1
        /\ \A d \in Data : data'[d].pc = "received" => data'[d] = data[d]
        /\ \A r \in Request : client'[r] = "new" => client[r] = "new"
        /\ \A k \in Core : core'[k].pc = "waiting" => core'[k] = core[k]
    BY <1>19 DEF Crash, IdleCore, IdleData, IInv, TypeOK
  <2>2. Received(q)' \subseteq Received(q)
    BY <2>1 DEF Received, Forward
  <2>3. CASE p \notin Data
    <3>1. toData' = toData
      BY <1>19, <2>3 DEF Crash, Requeue
    <3>2. Queued(q)' \subseteq Queued(q)
      BY <3>1 DEF Queued, Forward
    <3> QED
      BY <1>0, <2>1, <2>2, <3>2, FailureKeepsPaid
  <2>4. CASE p \in Data
    <3>1. toCore' = toCore /\ toData' \subseteq toData \cup {data[p].msg}
      BY <1>19, <2>4, ReplicasAssumption DEF Crash, Requeue
    <3>2. Queued(q)' \subseteq Queued(q) \cup {data[p].msg}
      BY <3>1 DEF Queued, Forward
    <3>3. Unsent(q)' => Unsent(q)
      BY <2>1, <3>1 DEF Unsent, WaitsFor
    <3> QED
      BY <1>0, <2>1, <2>2, <3>2, <3>3, FailureKeepsPaid
  <2> QED
    BY <2>3, <2>4
<1>20. ASSUME NEW p \in Process, Disconnect(p) PROVE PaidFor(q)'
  <2>1. /\ executed'[q] = executed[q] /\ failures' = failures + 1
        /\ \A d \in Data : data'[d].pc = "received" => data'[d] = data[d]
        /\ \A r \in Request : client'[r] = "new" => client[r] = "new"
        /\ \A k \in Core : core'[k].pc = "waiting" => core'[k] = core[k]
    BY <1>20 DEF Disconnect, IdleCore, IdleData, IInv, TypeOK
  <2>2. Received(q)' \subseteq Received(q)
    BY <2>1 DEF Received, Forward
  <2>3. CASE p \notin Data
    <3>1. toData' = toData
      BY <1>20, <2>3 DEF Disconnect, Requeue
    <3>2. Queued(q)' \subseteq Queued(q)
      BY <3>1 DEF Queued, Forward
    <3> QED
      BY <1>0, <2>1, <2>2, <3>2, FailureKeepsPaid
  <2>4. CASE p \in Data
    <3>1. toCore' = toCore /\ toData' \subseteq toData \cup {data[p].msg}
      BY <1>20, <2>4, ReplicasAssumption DEF Disconnect, Requeue
    <3>2. Queued(q)' \subseteq Queued(q) \cup {data[p].msg}
      BY <3>1 DEF Queued, Forward
    <3>3. Unsent(q)' => Unsent(q)
      BY <2>1, <3>1 DEF Unsent, WaitsFor
    <3> QED
      BY <1>0, <2>1, <2>2, <3>2, <3>3, FailureKeepsPaid
  <2> QED
    BY <2>3, <2>4
<1>21. ASSUME NEW p \in Process, Restart(p) PROVE PaidFor(q)'
  <2>1. executed'[q] = executed[q] /\ failures' = failures
    BY <1>21 DEF Restart
  <2>2. Queued(q)' \subseteq Queued(q) /\ Received(q)' \subseteq Received(q)
    BY <1>21 DEF Restart, Queued, Received, Forward, IInv, TypeOK
  <2>3. Unsent(q)' => Unsent(q)
    BY <1>21 DEF Restart, Unsent, WaitsFor, IInv, TypeOK, PendingWaits
  <2> QED
    BY <1>0, <2>1, <2>2, <2>3, KeepsPaid
<1>22. CASE UNCHANGED vars
  <2>1. executed'[q] = executed[q] /\ failures' = failures
    BY <1>22 DEF vars
  <2>2. Queued(q)' \subseteq Queued(q) /\ Received(q)' \subseteq Received(q)
    BY <1>22 DEF vars, Queued, Received, Forward
  <2>3. Unsent(q)' => Unsent(q)
    BY <1>22 DEF vars, Unsent, WaitsFor
  <2> QED
    BY <1>0, <2>1, <2>2, <2>3, KeepsPaid
<1> QED
  BY <1>1, <1>2, <1>3, <1>4, <1>5, <1>6, <1>7, <1>8, <1>9, <1>10, <1>11, <1>12,
     <1>13, <1>14, <1>15, <1>16, <1>17, <1>18, <1>19, <1>20, <1>21, <1>22
     DEF Next, GatewayNext, CoreNext, DataNext

LEMMA PaidInit == Init => Paid
<1> SUFFICES ASSUME Init, NEW r \in Request PROVE PaidFor(r)
  BY DEF Paid, PaidFor
<1>1. Queued(r) = {} /\ Received(r) = {}
  BY DEF Init, Queued, Received, IdleData
<1>2. Unsent(r) /\ executed[r] = 0 /\ failures = 0
  BY DEF Init, Unsent
<1> QED
  BY <1>1, <1>2, FS_EmptySet DEF PaidFor, Chances

\* Every execution of a request beyond its first one is paid for by a failure: a crash, a
\* lost broker connection or a failed reply is what makes the broker redeliver.
THEOREM FailuresPay == Spec => []FailuresPayForRepeats
<1>1. IInv /\ Paid => FailuresPayForRepeats
  <2> SUFFICES ASSUME IInv, Paid, NEW r \in Request PROVE executed[r] <= 1 + failures
    BY DEF FailuresPayForRepeats
  <2>1. executed[r] + Chances(r) <= 1 + failures /\ Chances(r) \in Nat
    BY FS_CardinalityType DEF Paid, Chances
  <2> QED
    BY <2>1 DEF IInv, TypeOK
<1>2. Spec => []Paid
  BY PaidInit, PaidNext, IInvCorrect, DeliveryCorrect, PTL DEF Spec
<1> QED
  BY <1>1, <1>2, IInvCorrect, PTL

\* A replica takes up only what it does not remember, and notes what it answers.
LEMMA NotedNext == IInv /\ Deduplicated /\ [Next]_vars => Noted'
<1> SUFFICES ASSUME IInv, Deduplicated, [Next]_vars PROVE Noted'
  OBVIOUS
<1> USE DEF IInv, TypeOK, Deduplicated, Noted, SteadyUp, gatewayVars, coreVars, dataVars, systemVars
<1>1. ASSUME NEW g \in Gateway, NEW r \in Request, Submit(g, r) PROVE Noted'
  BY <1>1 DEF Submit
<1>2. ASSUME NEW g \in Gateway, NEW r \in Request, SubmitUnavailable(g, r) PROVE Noted'
  BY <1>2 DEF SubmitUnavailable
<1>3. ASSUME NEW g \in Gateway, NEW a \in toGateway, GatewayReply(g, a) PROVE Noted'
  BY <1>3 DEF GatewayReply
<1>4. ASSUME NEW g \in Gateway, NEW a \in toGateway, GatewayDropReply(g, a) PROVE Noted'
  BY <1>4 DEF GatewayDropReply
<1>5. ASSUME NEW g \in Gateway, NEW r \in Request, GatewayTimeout(g, r) PROVE Noted'
  BY <1>5 DEF GatewayTimeout
<1>6. ASSUME NEW c \in Core, NEW r \in toCore, CoreReceive(c, r) PROVE Noted'
  BY <1>6 DEF CoreReceive, AnswerGateway, SendToData, Fresh
<1>7. ASSUME NEW c \in Core, NEW p \in fromData, CoreLookupReply(c, p) PROVE Noted'
  BY <1>7 DEF CoreLookupReply, AnswerGateway, SendToData, Fresh, Awaits
<1>8. ASSUME NEW c \in Core, NEW p \in fromData, CoreForwardReply(c, p) PROVE Noted'
  BY <1>8 DEF CoreForwardReply, AnswerGateway, Awaits
<1>9. ASSUME NEW c \in Core, NEW p \in fromData, CoreDropReply(c, p) PROVE Noted'
  BY <1>9 DEF CoreDropReply
<1>10. ASSUME NEW c \in Core, CoreTimeout(c) PROVE Noted'
  BY <1>10 DEF CoreTimeout, AnswerGateway
<1>11. ASSUME NEW c \in Core, CoreAck(c) PROVE Noted'
  BY <1>11 DEF CoreAck, IdleCore
<1>12. ASSUME NEW d \in Data, NEW m \in toData, DataReceive(d, m) PROVE Noted'
  BY <1>12 DEF DataReceive
<1>13. ASSUME NEW d \in Data, NEW m \in toData, DataIgnoreDuplicate(d, m) PROVE Noted'
  BY <1>13 DEF DataIgnoreDuplicate
<1>14. ASSUME NEW d \in Data, DataExecute(d) PROVE Noted'
  BY <1>14 DEF DataExecute
<1>15. ASSUME NEW d \in Data, DataReject(d) PROVE Noted'
  BY <1>15 DEF DataReject
<1>16. ASSUME NEW d \in Data, DataReply(d) PROVE Noted'
  BY <1>16 DEF DataReply
<1>17. ASSUME NEW d \in Data, DataReplyFails(d) PROVE Noted'
  BY <1>17 DEF DataReplyFails, IdleData
<1>18. ASSUME NEW d \in Data, DataAck(d) PROVE Noted'
  BY <1>18 DEF DataAck, IdleData
<1>19. ASSUME NEW p \in Process, Crash(p) PROVE Noted'
  BY <1>19 DEF Crash, Requeue, IdleCore, IdleData
<1>20. ASSUME NEW p \in Process, Disconnect(p) PROVE Noted'
  BY <1>20 DEF Disconnect, Requeue, IdleCore, IdleData
<1>21. ASSUME NEW p \in Process, Restart(p) PROVE Noted'
  BY <1>21 DEF Restart
<1>22. CASE UNCHANGED vars
  BY <1>22 DEF vars
<1> QED
  BY <1>1, <1>2, <1>3, <1>4, <1>5, <1>6, <1>7, <1>8, <1>9, <1>10, <1>11, <1>12,
     <1>13, <1>14, <1>15, <1>16, <1>17, <1>18, <1>19, <1>20, <1>21, <1>22
     DEF Next, GatewayNext, CoreNext, DataNext

\* A replica that does not fail stays up.
LEMMA SteadyUpNext == IInv /\ Deduplicated /\ [Next]_vars => SteadyUp'
<1> SUFFICES ASSUME IInv, Deduplicated, [Next]_vars PROVE SteadyUp'
  OBVIOUS
<1> USE DEF IInv, TypeOK, Deduplicated, SteadyUp, gatewayVars, coreVars, dataVars, systemVars
<1>1. ASSUME NEW g \in Gateway, NEW r \in Request, Submit(g, r) PROVE SteadyUp'
  BY <1>1 DEF Submit
<1>2. ASSUME NEW g \in Gateway, NEW r \in Request, SubmitUnavailable(g, r) PROVE SteadyUp'
  BY <1>2 DEF SubmitUnavailable
<1>3. ASSUME NEW g \in Gateway, NEW a \in toGateway, GatewayReply(g, a) PROVE SteadyUp'
  BY <1>3 DEF GatewayReply
<1>4. ASSUME NEW g \in Gateway, NEW a \in toGateway, GatewayDropReply(g, a) PROVE SteadyUp'
  BY <1>4 DEF GatewayDropReply
<1>5. ASSUME NEW g \in Gateway, NEW r \in Request, GatewayTimeout(g, r) PROVE SteadyUp'
  BY <1>5 DEF GatewayTimeout
<1>6. ASSUME NEW c \in Core, NEW r \in toCore, CoreReceive(c, r) PROVE SteadyUp'
  BY <1>6 DEF CoreReceive, AnswerGateway, SendToData, Fresh
<1>7. ASSUME NEW c \in Core, NEW p \in fromData, CoreLookupReply(c, p) PROVE SteadyUp'
  BY <1>7 DEF CoreLookupReply, AnswerGateway, SendToData, Fresh, Awaits
<1>8. ASSUME NEW c \in Core, NEW p \in fromData, CoreForwardReply(c, p) PROVE SteadyUp'
  BY <1>8 DEF CoreForwardReply, AnswerGateway, Awaits
<1>9. ASSUME NEW c \in Core, NEW p \in fromData, CoreDropReply(c, p) PROVE SteadyUp'
  BY <1>9 DEF CoreDropReply
<1>10. ASSUME NEW c \in Core, CoreTimeout(c) PROVE SteadyUp'
  BY <1>10 DEF CoreTimeout, AnswerGateway
<1>11. ASSUME NEW c \in Core, CoreAck(c) PROVE SteadyUp'
  BY <1>11 DEF CoreAck, IdleCore
<1>12. ASSUME NEW d \in Data, NEW m \in toData, DataReceive(d, m) PROVE SteadyUp'
  BY <1>12 DEF DataReceive
<1>13. ASSUME NEW d \in Data, NEW m \in toData, DataIgnoreDuplicate(d, m) PROVE SteadyUp'
  BY <1>13 DEF DataIgnoreDuplicate
<1>14. ASSUME NEW d \in Data, DataExecute(d) PROVE SteadyUp'
  BY <1>14 DEF DataExecute
<1>15. ASSUME NEW d \in Data, DataReject(d) PROVE SteadyUp'
  BY <1>15 DEF DataReject
<1>16. ASSUME NEW d \in Data, DataReply(d) PROVE SteadyUp'
  BY <1>16 DEF DataReply
<1>17. ASSUME NEW d \in Data, DataReplyFails(d) PROVE SteadyUp'
  BY <1>17 DEF DataReplyFails, IdleData
<1>18. ASSUME NEW d \in Data, DataAck(d) PROVE SteadyUp'
  BY <1>18 DEF DataAck, IdleData
<1>19. ASSUME NEW p \in Process, Crash(p) PROVE SteadyUp'
  BY <1>19 DEF Crash, Requeue, IdleCore, IdleData
<1>20. ASSUME NEW p \in Process, Disconnect(p) PROVE SteadyUp'
  BY <1>20 DEF Disconnect, Requeue, IdleCore, IdleData
<1>21. ASSUME NEW p \in Process, Restart(p) PROVE SteadyUp'
  BY <1>21 DEF Restart
<1>22. CASE UNCHANGED vars
  BY <1>22 DEF vars
<1> QED
  BY <1>1, <1>2, <1>3, <1>4, <1>5, <1>6, <1>7, <1>8, <1>9, <1>10, <1>11, <1>12,
     <1>13, <1>14, <1>15, <1>16, <1>17, <1>18, <1>19, <1>20, <1>21, <1>22
     DEF Next, GatewayNext, CoreNext, DataNext

\* A step after which the same replicas have run the request, or more.
LEMMA KeepsCounted ==
  ASSUME IInv, NEW q \in Request, executed[q] <= Cardinality(Runners(q)),
         executed'[q] = executed[q], Runners(q) \subseteq Runners(q)'
  PROVE  executed'[q] <= Cardinality(Runners(q)')
  <1>1. IsFiniteSet(Runners(q)')
    BY FS_Subset, ReplicasAssumption DEF Runners
  <1>2. Cardinality(Runners(q)) \in Nat /\ Cardinality(Runners(q)') \in Nat
        /\ Cardinality(Runners(q)) <= Cardinality(Runners(q)')
    BY <1>1, NoMore
  <1> QED
    BY <1>2 DEF IInv, TypeOK

\* A step in which a replica runs the request that it has not run before.
LEMMA RunsCounted ==
  ASSUME IInv, NEW q \in Request, executed[q] <= Cardinality(Runners(q)),
         executed'[q] = executed[q] + 1, NEW d \in Runners(q)', Runners(q) \subseteq Runners(q)' \ {d}
  PROVE  executed'[q] <= Cardinality(Runners(q)')
  <1>1. IsFiniteSet(Runners(q)')
    BY FS_Subset, ReplicasAssumption DEF Runners
  <1>2. Cardinality(Runners(q)) \in Nat /\ Cardinality(Runners(q)') \in Nat
        /\ Cardinality(Runners(q)) + 1 <= Cardinality(Runners(q)')
    BY <1>1, AtLeastOneLess
  <1> QED
    BY <1>2 DEF IInv, TypeOK

\* A step keeps executions counted.
LEMMA CountedNext == IInv /\ Deduplicated /\ [Next]_vars => Counted'
<1> SUFFICES ASSUME IInv, Deduplicated, [Next]_vars, Fallible \cap Data = {}, NEW q \in Request
             PROVE  executed'[q] <= Cardinality(Runners(q)')
  BY DEF Counted
<1> USE DEF gatewayVars, coreVars, dataVars, systemVars
<1>0. executed[q] <= Cardinality(Runners(q))
  BY DEF Deduplicated, Counted
<1>1. ASSUME NEW g \in Gateway, NEW r \in Request, Submit(g, r) PROVE executed'[q] <= Cardinality(Runners(q)')
  <2>1. executed'[q] = executed[q]
    BY <1>1 DEF Submit
  <2>2. Runners(q) \subseteq Runners(q)'
    BY <1>1 DEF Submit, Runners, Forward, IInv, TypeOK, Deduplicated, SteadyUp, Noted, MessageId, Process
  <2> QED
    BY <1>0, <2>1, <2>2, KeepsCounted
<1>2. ASSUME NEW g \in Gateway, NEW r \in Request, SubmitUnavailable(g, r) PROVE executed'[q] <= Cardinality(Runners(q)')
  <2>1. executed'[q] = executed[q]
    BY <1>2 DEF SubmitUnavailable
  <2>2. Runners(q) \subseteq Runners(q)'
    BY <1>2 DEF SubmitUnavailable, Runners, Forward, IInv, TypeOK, Deduplicated, SteadyUp, Noted, MessageId, Process
  <2> QED
    BY <1>0, <2>1, <2>2, KeepsCounted
<1>3. ASSUME NEW g \in Gateway, NEW a \in toGateway, GatewayReply(g, a) PROVE executed'[q] <= Cardinality(Runners(q)')
  <2>1. executed'[q] = executed[q]
    BY <1>3 DEF GatewayReply
  <2>2. Runners(q) \subseteq Runners(q)'
    BY <1>3 DEF GatewayReply, Runners, Forward, IInv, TypeOK, Deduplicated, SteadyUp, Noted, MessageId, Process
  <2> QED
    BY <1>0, <2>1, <2>2, KeepsCounted
<1>4. ASSUME NEW g \in Gateway, NEW a \in toGateway, GatewayDropReply(g, a) PROVE executed'[q] <= Cardinality(Runners(q)')
  <2>1. executed'[q] = executed[q]
    BY <1>4 DEF GatewayDropReply
  <2>2. Runners(q) \subseteq Runners(q)'
    BY <1>4 DEF GatewayDropReply, Runners, Forward, IInv, TypeOK, Deduplicated, SteadyUp, Noted, MessageId, Process
  <2> QED
    BY <1>0, <2>1, <2>2, KeepsCounted
<1>5. ASSUME NEW g \in Gateway, NEW r \in Request, GatewayTimeout(g, r) PROVE executed'[q] <= Cardinality(Runners(q)')
  <2>1. executed'[q] = executed[q]
    BY <1>5 DEF GatewayTimeout
  <2>2. Runners(q) \subseteq Runners(q)'
    BY <1>5 DEF GatewayTimeout, Runners, Forward, IInv, TypeOK, Deduplicated, SteadyUp, Noted, MessageId, Process
  <2> QED
    BY <1>0, <2>1, <2>2, KeepsCounted
<1>6. ASSUME NEW c \in Core, NEW r \in toCore, CoreReceive(c, r) PROVE executed'[q] <= Cardinality(Runners(q)')
  <2>1. executed'[q] = executed[q]
    BY <1>6 DEF CoreReceive
  <2>2. Runners(q) \subseteq Runners(q)'
    BY <1>6 DEF CoreReceive, AnswerGateway, SendToData, Fresh, Runners, Forward, IInv, TypeOK, Deduplicated, SteadyUp, Noted, MessageId, Process
  <2> QED
    BY <1>0, <2>1, <2>2, KeepsCounted
<1>7. ASSUME NEW c \in Core, NEW p \in fromData, CoreLookupReply(c, p) PROVE executed'[q] <= Cardinality(Runners(q)')
  <2>1. executed'[q] = executed[q]
    BY <1>7 DEF CoreLookupReply
  <2>2. Runners(q) \subseteq Runners(q)'
    BY <1>7 DEF CoreLookupReply, AnswerGateway, SendToData, Fresh, Awaits, Runners, Forward, IInv, TypeOK, Deduplicated, SteadyUp, Noted, MessageId, Process
  <2> QED
    BY <1>0, <2>1, <2>2, KeepsCounted
<1>8. ASSUME NEW c \in Core, NEW p \in fromData, CoreForwardReply(c, p) PROVE executed'[q] <= Cardinality(Runners(q)')
  <2>1. executed'[q] = executed[q]
    BY <1>8 DEF CoreForwardReply
  <2>2. Runners(q) \subseteq Runners(q)'
    BY <1>8 DEF CoreForwardReply, AnswerGateway, Awaits, Runners, Forward, IInv, TypeOK, Deduplicated, SteadyUp, Noted, MessageId, Process
  <2> QED
    BY <1>0, <2>1, <2>2, KeepsCounted
<1>9. ASSUME NEW c \in Core, NEW p \in fromData, CoreDropReply(c, p) PROVE executed'[q] <= Cardinality(Runners(q)')
  <2>1. executed'[q] = executed[q]
    BY <1>9 DEF CoreDropReply
  <2>2. Runners(q) \subseteq Runners(q)'
    BY <1>9 DEF CoreDropReply, Runners, Forward, IInv, TypeOK, Deduplicated, SteadyUp, Noted, MessageId, Process
  <2> QED
    BY <1>0, <2>1, <2>2, KeepsCounted
<1>10. ASSUME NEW c \in Core, CoreTimeout(c) PROVE executed'[q] <= Cardinality(Runners(q)')
  <2>1. executed'[q] = executed[q]
    BY <1>10 DEF CoreTimeout
  <2>2. Runners(q) \subseteq Runners(q)'
    BY <1>10 DEF CoreTimeout, AnswerGateway, Runners, Forward, IInv, TypeOK, Deduplicated, SteadyUp, Noted, MessageId, Process
  <2> QED
    BY <1>0, <2>1, <2>2, KeepsCounted
<1>11. ASSUME NEW c \in Core, CoreAck(c) PROVE executed'[q] <= Cardinality(Runners(q)')
  <2>1. executed'[q] = executed[q]
    BY <1>11 DEF CoreAck
  <2>2. Runners(q) \subseteq Runners(q)'
    BY <1>11 DEF CoreAck, IdleCore, Runners, Forward, IInv, TypeOK, Deduplicated, SteadyUp, Noted, MessageId, Process
  <2> QED
    BY <1>0, <2>1, <2>2, KeepsCounted
<1>12. ASSUME NEW d \in Data, NEW m \in toData, DataReceive(d, m) PROVE executed'[q] <= Cardinality(Runners(q)')
  <2>1. executed'[q] = executed[q]
    BY <1>12 DEF DataReceive
  <2>2. Runners(q) \subseteq Runners(q)'
    BY <1>12 DEF DataReceive, Runners, Forward, IInv, TypeOK, Deduplicated, SteadyUp, Noted, MessageId, Process
  <2> QED
    BY <1>0, <2>1, <2>2, KeepsCounted
<1>13. ASSUME NEW d \in Data, NEW m \in toData, DataIgnoreDuplicate(d, m) PROVE executed'[q] <= Cardinality(Runners(q)')
  <2>1. executed'[q] = executed[q]
    BY <1>13 DEF DataIgnoreDuplicate
  <2>2. Runners(q) \subseteq Runners(q)'
    BY <1>13 DEF DataIgnoreDuplicate, Runners, Forward, IInv, TypeOK, Deduplicated, SteadyUp, Noted, MessageId, Process
  <2> QED
    BY <1>0, <2>1, <2>2, KeepsCounted
<1>14. ASSUME NEW d \in Data, DataExecute(d) PROVE executed'[q] <= Cardinality(Runners(q)')
  <2> DEFINE m == data[d].msg
  <2>1. /\ data[d].pc = "received" /\ data'[d].pc = "executed" /\ data'[d].msg = m
        /\ \A k \in Data : k # d => data'[k] = data[k]
        /\ m \in Message /\ m.req \in Request /\ dataProcessed' = dataProcessed
    BY <1>14 DEF DataExecute, IInv, TypeOK, Message
  <2>2. Runners(q) \subseteq Runners(q)'
    BY <2>1 DEF Runners, Forward
  <2>3. CASE Forward(m, q)
    <3>1. d \in Runners(q)'
      BY <2>1, <2>3 DEF Runners
    <3>2. d \notin Runners(q)
      BY <2>1, <2>3 DEF Runners, Deduplicated, Noted, MessageId, Forward
    <3>3. executed'[q] = executed[q] + 1
      BY <1>14, <2>3 DEF DataExecute, Forward, IInv, TypeOK
    <3> QED
      BY <1>0, <2>2, <3>1, <3>2, <3>3, RunsCounted
  <2>4. CASE ~Forward(m, q)
    <3>1. executed'[q] = executed[q]
      BY <1>14, <2>1, <2>4 DEF DataExecute, Forward, IInv, TypeOK
    <3> QED
      BY <1>0, <2>2, <3>1, KeepsCounted
  <2> QED
    BY <2>3, <2>4
<1>15. ASSUME NEW d \in Data, DataReject(d) PROVE executed'[q] <= Cardinality(Runners(q)')
  <2>1. executed'[q] = executed[q]
    BY <1>15 DEF DataReject
  <2>2. Runners(q) \subseteq Runners(q)'
    BY <1>15 DEF DataReject, Runners, Forward, IInv, TypeOK, Deduplicated, SteadyUp, Noted, MessageId, Process
  <2> QED
    BY <1>0, <2>1, <2>2, KeepsCounted
<1>16. ASSUME NEW d \in Data, DataReply(d) PROVE executed'[q] <= Cardinality(Runners(q)')
  <2>1. executed'[q] = executed[q]
    BY <1>16 DEF DataReply
  <2>2. Runners(q) \subseteq Runners(q)'
    BY <1>16 DEF DataReply, Runners, Forward, IInv, TypeOK, Deduplicated, SteadyUp, Noted, MessageId, Process
  <2> QED
    BY <1>0, <2>1, <2>2, KeepsCounted
<1>17. ASSUME NEW d \in Data, DataReplyFails(d) PROVE executed'[q] <= Cardinality(Runners(q)')
  <2>1. executed'[q] = executed[q]
    BY <1>17 DEF DataReplyFails
  <2>2. Runners(q) \subseteq Runners(q)'
    BY <1>17 DEF DataReplyFails, IdleData, Runners, Forward, IInv, TypeOK, Deduplicated, SteadyUp, Noted, MessageId, Process
  <2> QED
    BY <1>0, <2>1, <2>2, KeepsCounted
<1>18. ASSUME NEW d \in Data, DataAck(d) PROVE executed'[q] <= Cardinality(Runners(q)')
  <2>1. executed'[q] = executed[q]
    BY <1>18 DEF DataAck
  <2>2. Runners(q) \subseteq Runners(q)'
    BY <1>18 DEF DataAck, IdleData, Runners, Forward, IInv, TypeOK, Deduplicated, SteadyUp, Noted, MessageId, Process
  <2> QED
    BY <1>0, <2>1, <2>2, KeepsCounted
<1>19. ASSUME NEW p \in Process, Crash(p) PROVE executed'[q] <= Cardinality(Runners(q)')
  <2>1. executed'[q] = executed[q]
    BY <1>19 DEF Crash
  <2>2. Runners(q) \subseteq Runners(q)'
    BY <1>19 DEF Crash, Requeue, IdleCore, IdleData, Runners, Forward, IInv, TypeOK, Deduplicated, SteadyUp, Noted, MessageId, Process
  <2> QED
    BY <1>0, <2>1, <2>2, KeepsCounted
<1>20. ASSUME NEW p \in Process, Disconnect(p) PROVE executed'[q] <= Cardinality(Runners(q)')
  <2>1. executed'[q] = executed[q]
    BY <1>20 DEF Disconnect
  <2>2. Runners(q) \subseteq Runners(q)'
    BY <1>20 DEF Disconnect, Requeue, IdleCore, IdleData, Runners, Forward, IInv, TypeOK, Deduplicated, SteadyUp, Noted, MessageId, Process
  <2> QED
    BY <1>0, <2>1, <2>2, KeepsCounted
<1>21. ASSUME NEW p \in Process, Restart(p) PROVE executed'[q] <= Cardinality(Runners(q)')
  <2>1. executed'[q] = executed[q]
    BY <1>21 DEF Restart
  <2>2. Runners(q) \subseteq Runners(q)'
    BY <1>21 DEF Restart, Runners, Forward, IInv, TypeOK, Deduplicated, SteadyUp, Noted, MessageId, Process
  <2> QED
    BY <1>0, <2>1, <2>2, KeepsCounted
<1>22. CASE UNCHANGED vars
  <2>1. executed'[q] = executed[q] /\ Runners(q) \subseteq Runners(q)'
    BY <1>22 DEF vars, Runners, Forward
  <2> QED
    BY <1>0, <2>1, KeepsCounted
<1> QED
  BY <1>1, <1>2, <1>3, <1>4, <1>5, <1>6, <1>7, <1>8, <1>9, <1>10, <1>11, <1>12,
     <1>13, <1>14, <1>15, <1>16, <1>17, <1>18, <1>19, <1>20, <1>21, <1>22
     DEF Next, GatewayNext, CoreNext, DataNext

LEMMA DeduplicatedInit == Init => Deduplicated
<1> SUFFICES ASSUME Init PROVE Deduplicated
  OBVIOUS
<1>1. Noted /\ SteadyUp
  BY DEF Init, Noted, SteadyUp, IdleData, Process
<1>2. ASSUME NEW r \in Request PROVE executed[r] <= Cardinality(Runners(r))
  <2>1. Runners(r) = {} /\ executed[r] = 0
    BY DEF Init, Runners, IdleData
  <2> QED
    BY <2>1, FS_EmptySet
<1> QED
  BY <1>1, <1>2 DEF Deduplicated, Counted

LEMMA DeduplicatedCorrect == Spec => []Deduplicated
<1>1. IInv /\ Deduplicated /\ [Next]_vars => Deduplicated'
  BY NotedNext, SteadyUpNext, CountedNext DEF Deduplicated
<1> QED
  BY <1>1, DeduplicatedInit, IInvCorrect, PTL DEF Spec

\* A data replica that does not fail runs a request once, however often failing cores
\* publish it: dataProcessed is checked before and written with every reply.
THEOREM SteadyReplicas == Spec => []SteadyReplicasExecuteOnce
<1>1. IInv /\ Deduplicated => SteadyReplicasExecuteOnce
  <2> SUFFICES ASSUME IInv, Deduplicated, Fallible \cap Data = {}, NEW r \in Request
               PROVE  executed[r] <= Cardinality(Data)
    BY DEF SteadyReplicasExecuteOnce
  <2>1. executed[r] <= Cardinality(Runners(r)) /\ executed[r] \in Nat
    BY DEF Deduplicated, Counted, IInv, TypeOK
  <2>2. /\ Cardinality(Runners(r)) \in Nat /\ Cardinality(Data) \in Nat
        /\ Cardinality(Runners(r)) <= Cardinality(Data)
    BY FS_Subset, FS_CardinalityType, ReplicasAssumption DEF Runners
  <2> QED
    BY <2>1, <2>2
<1> QED
  BY <1>1, IInvCorrect, DeduplicatedCorrect, PTL
=============================================================================
