------------------------------ MODULE Requests ------------------------------
(***************************************************************************)
(* HTTP requests to the synchronous API, version 2 (internal/delivery/http/ *)
(* v2) and version 1 (internal/delivery/http/handlers), on their way        *)
(* through handler, service and repository. Each call to the database is a  *)
(* step; other requests come in between. Version 1 knows no actor.         *)
(*                                                                         *)
(* What the handlers of a resource do is in the modules that extend this    *)
(* one: Users, Categories, Datasets, Reviews, Subscriptions, Notifications. *)
(***************************************************************************)
EXTENDS Database

CONSTANTS
  Op,         \* the requests
  Request,    \* for each: api, method, resource, by (the actor), on (the row), body
  Traffic,    \* the sets of requests that may come together
  IdWidth,    \* 2^32: dataset ids below it fit into a subscription id
  MaxFaults,  \* bound on failing calls
  Nobody      \* the actor of a request without a token

VARIABLES
  traffic,  \* the requests that come
  pc,       \* the step each request is at, or its answer
  admins,   \* requests whose actor was an administrator when it was authenticated
  seen,     \* the row the handler has read, for a request that changes it
  loaded,   \* the row the service has read before it writes
  todo,     \* what a loop has left: users to notify or datasets to go through
  shown,    \* the datasets whose data is in the answer
  faults,   \* failing calls so far
  wrote,    \* history: the requests whose write was committed
  stale,    \* history: columns of its row that others changed since a request read it
  public,   \* history: the datasets that were public at some time since it began
  loyal     \* history: the subscribers of its dataset who have been so since it began

histories == <<wrote, stale, public, loyal>>
vars == <<db, traffic, pc, admins, seen, loaded, todo, shown, faults, histories>>

Api(o) == Request[o].api
Method(o) == Request[o].method
Resource(o) == Request[o].resource
By(o) == Request[o].by
On(o) == Request[o].on
Body(o) == Request[o].body

Route(o) == <<Api(o), Method(o), Resource(o)>>
Is(o, method, resource) == Method(o) = method /\ Resource(o) = resource

Answer == {"ok", "created", "unauthorized", "forbidden", "notFound", "conflict",
           "dependency", "error"}

Running(o) == pc[o] \notin {"ready"} \cup Answer

Goto(o, step) == pc' = [pc EXCEPT ![o] = step]
At(o, step) == pc[o] = step

\* The frame conditions of any step of a handler, and of one that only reads.
Keeps == UNCHANGED <<traffic, admins, shown, faults>>
Reads == Keeps /\ UNCHANGED <<db, seen, loaded, todo, histories>>

\* Encode/DecodeSubscriptionID; IdsFit keeps the two halves apart.
EncodeSubscriptionID(u, d) == u * IdWidth + d
DecodeSubscriptionID(id) == <<id \div IdWidth, id % IdWidth>>

IdsFit == User \cup Dataset \subseteq 1..(IdWidth - 1)

-----------------------------------------------------------------------------
(* Authentication and the checks before the first call of a handler.       *)

\* Routes under "protected" in RegisterRoutes; the others take an optional token
\* or none. Version 1 has no such routes.
Protected(o) == Api(o) = "v2" /\ Method(o) # "GET" /\ ~Is(o, "POST", "users")

\* requireAdmin
NeedsAdmin(o) ==
  /\ Api(o) = "v2"
  /\ \/ Resource(o) = "categories"
     \/ Resource(o) = "users" /\ Method(o) # "POST"

\* CreateSubscription: only administrators subscribe others.
SubscribesOther(o) ==
  Api(o) = "v2" /\ Is(o, "POST", "subscriptions") /\ On(o)[1] # By(o)

\* isAdmin, for the actor as it was when its token was checked
IsAdmin(o) == o \in admins

\* resolveDatasetVisibility: which datasets a list is asked from, and whether it is
\* refused. An optional parameter is a set of at most one value.
Anonymous(o) == By(o) = Nobody
WantsPrivate(o) == Body(o).public = {FALSE}

OwnerFilter(o) ==
  IF Anonymous(o) THEN {}
  ELSE IF WantsPrivate(o) /\ Body(o).owner = {} /\ ~IsAdmin(o) THEN {By(o)} ELSE Body(o).owner

PublicFilter(o) == IF Anonymous(o) /\ WantsPrivate(o) THEN {} ELSE Body(o).public

ListsOther(o, admin) ==
  Is(o, "GET", "datasets") /\ ~Anonymous(o) /\ ~admin /\ ~(Body(o).owner \subseteq {By(o)})

Refused(o, admin) == ((NeedsAdmin(o) \/ SubscribesOther(o)) /\ ~admin) \/ ListsOther(o, admin)

\* The first call each handler makes after authentication.
First(o) ==
  IF Is(o, "POST", "users") \/ Resource(o) = "subscriptions" THEN "lookup"
  ELSE IF Is(o, "POST", "notifications") THEN IF Api(o) = "v1" THEN "collect" ELSE "read"
  ELSE CASE Method(o) = "PUT" -> "reload"
         [] Method(o) = "PATCH" -> "read"
         [] Method(o) = "POST" -> "write"
         [] Method(o) = "DELETE" ->
              IF Api(o) = "v2" /\ Resource(o) \in {"datasets", "reviews"} THEN "read" ELSE "write"
         [] OTHER -> IF Resource(o) \in {"datasets", "reviews"} THEN "list" ELSE "read"

\* BearerAuth reads the actor, and the handler refuses who is not entitled.
\* A token that names no user any more is refused even where none is needed.
Receive(o) ==
  /\ At(o, "ready")
  /\ LET authenticated == By(o) # Nobody
         known == authenticated /\ HasUser(By(o))
         admin == known /\ db.users[By(o)].role = "admin" IN
     /\ admins' = IF admin THEN admins \cup {o} ELSE admins
     /\ Goto(o, IF (authenticated \/ Protected(o)) /\ ~known THEN "unauthorized"
                ELSE IF Refused(o, admin) THEN "forbidden"
                ELSE First(o))
  /\ public' = [public EXCEPT ![o] = PublicDatasets]
  /\ loyal' = [loyal EXCEPT ![o] = IF Is(o, "POST", "notifications") THEN SubscribersOf(On(o)) ELSE {}]
  /\ UNCHANGED <<db, traffic, seen, loaded, todo, shown, faults, wrote, stale>>

\* Mutation: anybody passes.
DatasetReadableByAll(o, row) == TRUE

\* ensureDatasetReadable
DatasetReadable(o, row) == row.public \/ (By(o) # Nobody /\ (row.owner = By(o) \/ IsAdmin(o)))

\* ensureDatasetOwnerOrAdmin
DatasetOwnerOrAdmin(o, row) == row.owner = By(o) \/ IsAdmin(o)

-----------------------------------------------------------------------------
(* Reading and writing a row.                                              *)

\* The columns a request is asked to write, and the row with them.
Asked(o) == DOMAIN Body(o)
Filled(o, row) == [f \in DOMAIN row |-> IF f \in Asked(o) THEN Body(o)[f] ELSE row[f]]

\* Row lookup
TableOf(o) ==
  CASE Resource(o) = "users" -> db.users
    [] Resource(o) = "categories" -> db.categories
    [] Resource(o) = "reviews" -> db.reviews
    [] OTHER -> db.datasets

Row(o) == TableOf(o)[On(o)]
HasRow(o) == Row(o) # NoRow

\* A handler reads the row it is about, and refuses unless the check holds.
ReadRow(o, check, refusal) ==
  /\ At(o, "read")
  /\ seen' = IF HasRow(o) /\ Method(o) = "PATCH" THEN [seen EXCEPT ![o] = Row(o)] ELSE seen
  /\ Goto(o, IF ~HasRow(o) THEN "notFound" ELSE IF check THEN refusal ELSE "forbidden")
  /\ Keeps /\ UNCHANGED <<db, loaded, todo, histories>>

\* A service reads it again; what comes of a missing row differs.
ReloadRow(o, next, missing) ==
  /\ At(o, "reload")
  /\ loaded' = IF HasRow(o) THEN [loaded EXCEPT ![o] = Row(o)] ELSE loaded
  /\ Goto(o, IF HasRow(o) THEN next ELSE missing)
  /\ Keeps /\ UNCHANGED <<db, seen, todo, histories>>

\* The answer to a write shows the row, if it is still there.
ShowRow(o) ==
  /\ At(o, "show")
  /\ Goto(o, IF ~HasRow(o) THEN "notFound" ELSE IF Method(o) = "POST" THEN "created" ELSE "ok")
  /\ Reads

\* A handler has what it will show of some datasets.
Shows(o, ds, step) ==
  /\ shown' = [shown EXCEPT ![o] = ds]
  /\ Goto(o, step)
  /\ UNCHANGED <<db, traffic, admins, seen, loaded, todo, faults, histories>>

\* The columns of its row that change under a request which has read it.
Changed(o) ==
  IF HasRow(o) /\ Row(o)' # NoRow THEN {f \in DOMAIN Row(o) : Row(o)'[f] # Row(o)[f]} ELSE {}

\* A statement was executed with result r: the histories follow the tables.
Follow(o, r) ==
  /\ wrote' = IF r = "ok" THEN wrote \cup {o} ELSE wrote
  /\ stale' = [p \in traffic |-> IF p # o /\ Running(p) /\ (seen[p] # NoRow \/ loaded[p] # NoRow)
                            THEN stale[p] \cup Changed(p) ELSE stale[p]]
  /\ public' = [p \in traffic |-> IF Running(p) THEN public[p] \cup PublicDatasets' ELSE public[p]]
  /\ loyal' = [p \in traffic |-> IF Running(p) /\ loyal[p] # {}
                            THEN loyal[p] \cap SubscribersOf(On(p))' ELSE loyal[p]]

\* ... and where it leads.
Done(o, r, steps) == Goto(o, steps[r]) /\ Follow(o, r) /\ Keeps

-----------------------------------------------------------------------------
(* Failing calls.                                                          *)

\* What a failing call comes to: an internal error, except that a token that cannot
\* be checked is refused, that two services take every failure of their look-up for
\* a missing row, that the list of reviews leaves out what it cannot read, and that a
\* service outside has a status of its own.
Failure(o) ==
  CASE pc[o] = "ready" -> "unauthorized"
    [] pc[o] = "reload" /\ Resource(o) \in {"categories", "datasets"} -> "notFound"
    [] pc[o] = "each" /\ Is(o, "GET", "reviews") -> "each"
    [] pc[o] = "provider" -> "dependency"
    [] OTHER -> "error"

CallFails(o) ==
  /\ Running(o) \/ (At(o, "ready") /\ By(o) # Nobody)
  /\ faults < MaxFaults
  /\ faults' = faults + 1
  /\ Goto(o, Failure(o))
  /\ IF Failure(o) = "each" THEN \E d \in todo[o] : todo' = [todo EXCEPT ![o] = @ \ {d}]
                            ELSE UNCHANGED todo
  /\ UNCHANGED <<db, traffic, admins, seen, loaded, shown, histories>>

InitRequests ==
  /\ traffic \in Traffic
  /\ pc = [o \in traffic |-> "ready"]
  /\ admins = {}
  /\ seen = [o \in traffic |-> NoRow] /\ loaded = [o \in traffic |-> NoRow]
  /\ todo = [o \in traffic |-> {}] /\ shown = [o \in traffic |-> {}]
  /\ faults = 0
  /\ wrote = {}
  /\ stale = [o \in traffic |-> {}] /\ public = [o \in traffic |-> {}] /\ loyal = [o \in traffic |-> {}]
=============================================================================
