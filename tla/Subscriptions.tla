---------------------------- MODULE Subscriptions ----------------------------
(***************************************************************************)
(* Subscriptions: subscriptionService (internal/services/                   *)
(* subscription_service_impl.go) behind POST and DELETE of                  *)
(* /api/v2/subscriptions and of version 1. Both operations look first and   *)
(* write afterwards.                                                       *)
(***************************************************************************)
EXTENDS Requests

\* The user and the dataset a request is about. DELETE of version 2 has one number
\* for both; it asks nobody whose subscription it is.
PairOf(o) ==
  IF Api(o) = "v2" /\ Method(o) = "DELETE" THEN DecodeSubscriptionID(On(o)) ELSE On(o)

\* Subscribe
SubscribeLookup(o) ==
  /\ At(o, "lookup") /\ Is(o, "POST", "subscriptions")
  /\ Goto(o, IF IsSubscribed(PairOf(o)) THEN "conflict" ELSE "write")
  /\ Reads

SubscribeInsert(o) ==
  /\ At(o, "write") /\ Is(o, "POST", "subscriptions")
  /\ \E r \in {"ok", "exists", "error"} :
       /\ InsertSubscription(PairOf(o), r)
       /\ Done(o, r, [ok |-> IF Api(o) = "v2" THEN "show" ELSE "ok",
                      exists |-> "conflict", error |-> "error"])
  /\ UNCHANGED <<seen, loaded, todo>>

\* getSubscriptionRecord looks among the user's subscriptions.
SubscribeShow(o) ==
  /\ At(o, "show") /\ Is(o, "POST", "subscriptions")
  /\ Goto(o, IF PairOf(o)[2] \in SubscriptionsOf(PairOf(o)[1]) THEN "created" ELSE "notFound")
  /\ Reads

\* Unsubscribe
UnsubscribeLookup(o) ==
  /\ At(o, "lookup") /\ Is(o, "DELETE", "subscriptions")
  /\ Goto(o, IF IsSubscribed(PairOf(o)) THEN "write" ELSE "notFound")
  /\ Reads

UnsubscribeDelete(o) ==
  /\ At(o, "write") /\ Is(o, "DELETE", "subscriptions")
  /\ \E r \in {"ok", "none"} :
       /\ DeleteSubscription(PairOf(o), r)
       /\ Done(o, r, [ok |-> "ok", none |-> "notFound"])
  /\ UNCHANGED <<seen, loaded, todo>>

NextSubscriptions(o) ==
  \/ SubscribeLookup(o) \/ SubscribeInsert(o) \/ SubscribeShow(o)
  \/ UnsubscribeLookup(o) \/ UnsubscribeDelete(o)
=============================================================================
