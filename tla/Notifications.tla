---------------------------- MODULE Notifications ----------------------------
(***************************************************************************)
(* Notifications: notificationService (internal/services/                   *)
(* notification_service_impl.go) behind POST /api/v2/datasets/{id}/         *)
(* notifications and PATCH /api/v2/notifications/{id}, and the POST of      *)
(* version 1. There is no transaction around the fan-out.                  *)
(***************************************************************************)
EXTENDS Requests

\* NotifyDatasetSubscribers
ReadNotified(o) ==
  Is(o, "POST", "notifications") /\ ReadRow(o, DatasetOwnerOrAdmin(o, Row(o)), "collect")

\* NotifySubscribers. Nobody to notify is reported as a failed dependency.
Collect(o) ==
  /\ At(o, "collect")
  /\ todo' = [todo EXCEPT ![o] = SubscribersOf(On(o))]
  /\ Goto(o, IF SubscribersOf(On(o)) = {} THEN "dependency" ELSE "each")
  /\ Keeps /\ UNCHANGED <<db, seen, loaded, histories>>

NotificationFor(o, u, kind) == [by |-> o, user |-> u, dataset |-> On(o), kind |-> kind]

AfterFanOut(o) == IF Api(o) = "v2" THEN "own" ELSE "ok"

\* Mutation: the loop ends one subscriber early.
NextAfterButOne(o, u) == IF Cardinality(todo[o]) <= 2 THEN AfterFanOut(o) ELSE "each"

NextAfter(o, u) == IF todo[o] = {u} THEN AfterFanOut(o) ELSE "each"

\* The first insert that fails ends it; the notifications before it stay.
Notify(o) ==
  /\ At(o, "each") /\ Is(o, "POST", "notifications")
  /\ \E u \in todo[o], r \in {"ok", "error"} :
       /\ InsertNotification(NotificationFor(o, u, "fanOut"), r)
       /\ todo' = IF r = "ok" THEN [todo EXCEPT ![o] = @ \ {u}] ELSE todo
       /\ Done(o, r, [ok |-> NextAfter(o, u), error |-> "error"])
  /\ UNCHANGED <<seen, loaded>>

\* NotifyUser: the actor has one, subscriber or not.
NotifyActor(o) ==
  /\ At(o, "own")
  /\ \E r \in {"ok", "error"} :
       /\ InsertNotification(NotificationFor(o, By(o), "own"), r)
       /\ Done(o, r, [ok |-> "created", error |-> "error"])
  /\ UNCHANGED <<seen, loaded, todo>>

-----------------------------------------------------------------------------
(* The read flag.                                                          *)

HasNotification(o) == On(o) \in db.notifications

\* UpdateNotification checks whose it is,
ReadFlagged(o) ==
  /\ At(o, "read") /\ Is(o, "PATCH", "notification")
  /\ Goto(o, IF ~HasNotification(o) THEN "notFound"
             ELSE IF On(o).user = By(o) \/ IsAdmin(o) THEN "reload" ELSE "forbidden")
  /\ Reads

\* SetReadStatus has nothing to do if the flag is as asked,
ReloadFlagged(o) ==
  /\ At(o, "reload") /\ Is(o, "PATCH", "notification")
  /\ Goto(o, IF ~HasNotification(o) THEN "notFound"
             ELSE IF (On(o) \in db.read) = Body(o).read THEN "show" ELSE "write")
  /\ Reads

WriteFlag(o) ==
  /\ At(o, "write") /\ Is(o, "PATCH", "notification")
  /\ \E r \in {"ok", "none"} :
       /\ MarkNotification(On(o), Body(o).read, r)
       /\ Done(o, r, [ok |-> "show", none |-> "notFound"])
  /\ UNCHANGED <<seen, loaded, todo>>

\* and the handler answers with GetNotificationByID.
ShowFlagged(o) ==
  /\ At(o, "show") /\ Is(o, "PATCH", "notification")
  /\ Goto(o, IF HasNotification(o) THEN "ok" ELSE "notFound")
  /\ Reads

NextNotifications(o) ==
  \/ ReadNotified(o) \/ Collect(o) \/ Notify(o) \/ NotifyActor(o)
  \/ ReadFlagged(o) \/ ReloadFlagged(o) \/ WriteFlag(o) \/ ShowFlagged(o)
=============================================================================
