------------------------ MODULE SubscriptionContract ------------------------
(***************************************************************************)
(* What the subscription operations promise: each takes effect at once, or  *)
(* is refused at a moment at which it had nothing to do, or fails without   *)
(* an effect. Only the end of a user or of a dataset ends subscriptions     *)
(* otherwise. Look-ups, races for the constraint and failing calls do not   *)
(* appear.                                                                 *)
(***************************************************************************)
CONSTANTS
  User, Dataset,
  Op,          \* the operations on subscriptions
  Subscribes,  \* those that add one; the others end one
  Pair(_),     \* what each is about
  Subscribed   \* the subscriptions at the start

VARIABLES subscribed, outcome

contractVars == <<subscribed, outcome>>

Init ==
  /\ subscribed = Subscribed
  /\ outcome = [o \in Op |-> "open"]

Ends(o, result) == outcome[o] = "open" /\ outcome' = [outcome EXCEPT ![o] = result]

Subscribe(o) ==
  /\ o \in Subscribes /\ Pair(o) \notin subscribed
  /\ subscribed' = subscribed \cup {Pair(o)}
  /\ Ends(o, "done")

Unsubscribe(o) ==
  /\ o \notin Subscribes /\ Pair(o) \in subscribed
  /\ subscribed' = subscribed \ {Pair(o)}
  /\ Ends(o, "done")

Refuse(o) ==
  /\ (o \in Subscribes /\ Pair(o) \in subscribed) \/ (o \notin Subscribes /\ Pair(o) \notin subscribed)
  /\ Ends(o, "refused")
  /\ UNCHANGED subscribed

Fail(o) ==
  /\ Ends(o, "failed")
  /\ UNCHANGED subscribed

\* A user or a dataset is deleted.
Cascade ==
  /\ \/ \E u \in User : subscribed' = {s \in subscribed : s[1] # u}
     \/ \E d \in Dataset : subscribed' = {s \in subscribed : s[2] # d}
  /\ UNCHANGED outcome

Next == Cascade \/ \E o \in Op : Subscribe(o) \/ Unsubscribe(o) \/ Refuse(o) \/ Fail(o)

Spec == Init /\ [][Next]_contractVars
=============================================================================
