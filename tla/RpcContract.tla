---------------------------- MODULE RpcContract ----------------------------
(***************************************************************************)
(* What the asynchronous API promises: a request that was accepted may take *)
(* effect, atomically, in the database, only if it is permitted and never   *)
(* before it was accepted; its client gets one final answer, and "ok" only   *)
(* after the effect. Queues, replicas and look-ups do not appear.            *)
(***************************************************************************)
EXTENDS Naturals

CONSTANTS
  Request,   \* the requests
  Outcome,   \* the answers a client may get
  Allowed,   \* the requests that may take effect
  Deletes,   \* the rows each request deletes when it takes effect
  Rows       \* the rows at the start

VARIABLES client, executed, rows

contractVars == <<client, executed, rows>>

Init ==
  /\ client = [r \in Request |-> "new"]
  /\ executed = [r \in Request |-> 0]
  /\ rows = Rows

Accept(r) ==
  /\ client[r] = "new"
  /\ client' = [client EXCEPT ![r] = "waiting"]
  /\ UNCHANGED <<executed, rows>>

Execute(r) ==
  /\ client[r] # "new"
  /\ r \in Allowed
  /\ executed' = [executed EXCEPT ![r] = @ + 1]
  /\ rows' = rows \ Deletes[r]
  /\ UNCHANGED client

\* Clients learn their outcome; a gateway that dies settles all of its own at once.
Settle ==
  /\ client' \in [Request -> {"new", "waiting"} \cup Outcome]
  /\ \A r \in Request : client'[r] # client[r] =>
       /\ client[r] \in {"new", "waiting"}
       /\ client'[r] \in Outcome
       /\ client'[r] = "ok" => executed[r] > 0
  /\ UNCHANGED <<executed, rows>>

Next == Settle \/ \E r \in Request : Accept(r) \/ Execute(r)

Spec == Init /\ [][Next]_contractVars
=============================================================================
