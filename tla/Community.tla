------------------------------ MODULE Community ------------------------------
(***************************************************************************)
(* The synchronous API as a whole: requests about users, categories,        *)
(* datasets, reviews, subscriptions and notifications interleave on one     *)
(* database. No transaction spans two calls of a request.                  *)
(***************************************************************************)
EXTENDS Users, Categories, Datasets, Reviews, Subscriptions, Notifications

CONSTANT Seed  \* the tables at the start

AnyRow == UserRow \cup CategoryRow \cup DatasetRow \cup ReviewRow

\* A body that may be written over any row of a table.
Completes(o, rows) == \A row \in rows : Filled(o, row) \in rows

\* The requests are what the decoders let through, on ids that the database has drawn or
\* will draw. Requests of version 1 and registrations have no actor. A user is
\* replaced (PUT) with the country, the block and the role named: what else is left
\* out stays, but these would be emptied.
WellFormed(o) ==
  /\ Api(o) \in {"v1", "v2"}
  /\ By(o) \in User \cup {Nobody}
  /\ Api(o) = "v1" => By(o) = Nobody
  /\ Method(o) = "PUT" => Api(o) = "v1"
  /\ Method(o) = "PATCH" => Api(o) = "v2"
  /\ Resource(o) \in {"users", "categories", "datasets", "dataset", "digest", "reviews",
                      "subscriptions", "notifications", "notification"}
  /\ Resource(o) = "users" =>
       /\ Method(o) \in {"POST", "PATCH", "PUT", "DELETE"} /\ On(o) \in User
       /\ Method(o) = "POST" => Body(o) \in UserRow /\ By(o) = Nobody
       /\ Method(o) \in {"PATCH", "PUT"} => Completes(o, UserRow)
       /\ Method(o) = "PUT" => {"country", "blocked", "role"} \subseteq Asked(o)
  /\ Resource(o) = "categories" =>
       /\ Method(o) \in {"POST", "PATCH", "PUT", "DELETE"} /\ On(o) \in Category
       /\ Method(o) \in {"POST", "PUT"} => Body(o) \in CategoryRow
       /\ Method(o) = "PATCH" => Completes(o, CategoryRow)
  /\ Resource(o) = "datasets" =>
       /\ Api(o) = "v2" /\ Method(o) \in {"PATCH", "DELETE", "GET"}
       /\ Method(o) # "GET" => On(o) \in Dataset
       /\ Method(o) = "PATCH" =>
            Completes(o, DatasetRow) /\ Asked(o) \subseteq {"name", "category", "public"}
       /\ Method(o) = "GET" => Body(o).owner \subseteq User
  /\ Resource(o) \in {"dataset", "digest"} =>
       Api(o) = "v2" /\ Method(o) = "GET" /\ On(o) \in Dataset
  /\ Resource(o) = "reviews" =>
       /\ Method(o) \in {"POST", "PATCH", "PUT", "DELETE", "GET"}
       /\ Method(o) = "GET" =>
            By(o) = Nobody /\ Body(o).dataset \subseteq Dataset /\ Body(o).user \subseteq User
       /\ Method(o) # "GET" => On(o) \in Review
       /\ Method(o) = "POST" => Body(o) \in ReviewRow
       /\ Method(o) = "POST" /\ Api(o) = "v2" => Body(o).user = By(o)
       /\ Method(o) \in {"PATCH", "PUT"} =>
            Completes(o, ReviewRow) /\ Asked(o) \subseteq {"rating", "text"}
  /\ Resource(o) = "subscriptions" =>
       /\ Method(o) \in {"POST", "DELETE"}
       /\ IF Api(o) = "v2" /\ Method(o) = "DELETE"
          THEN \E u \in User, d \in Dataset : On(o) = EncodeSubscriptionID(u, d)
          ELSE On(o) \in User \X Dataset
  /\ Resource(o) = "notifications" => Method(o) = "POST" /\ On(o) \in Dataset
  /\ Resource(o) = "notification" =>
       Api(o) = "v2" /\ Method(o) = "PATCH" /\ On(o) \in Notification /\ Body(o).read \in BOOLEAN

\* Ids are drawn once.
Creates(o, resource, rows) == Is(o, "POST", resource) => rows[On(o)] = NoRow
FreshIds ==
  /\ \A o \in Op : /\ Creates(o, "users", Seed.users)
                   /\ Creates(o, "categories", Seed.categories)
                   /\ Creates(o, "reviews", Seed.reviews)
  /\ \A o, p \in Op :
       /\ o # p /\ Resource(o) = Resource(p) /\ Method(o) = "POST" /\ Method(p) = "POST"
       /\ Resource(o) \in {"users", "categories", "reviews"}
       => On(o) # On(p)

\* What the requests and the ids are: ids are positive, and below the width of half a
\* subscription id.
ASSUME RequestsAssumption ==
  /\ Op \subseteq Poster /\ Traffic \subseteq SUBSET Op
  /\ \A o \in Op : WellFormed(o)
  /\ FreshIds

ASSUME IdsAssumption == IdWidth \in Nat /\ IdsFit /\ Nobody \notin User

\* What the tables hold at the start.
ASSUME SeedAssumption ==
  /\ Seed \in Database /\ References(Seed) /\ UniqueKeys(Seed)
  /\ NoRow \notin AnyRow

ASSUME FaultsAssumption == MaxFaults \in Nat

Init == db = Seed /\ InitRequests

\* One step of one request.
Serve(o) ==
  \/ Receive(o) \/ CallFails(o)
  \/ NextUsers(o) \/ NextCategories(o) \/ NextDatasets(o)
  \/ NextReviews(o) \/ NextSubscriptions(o) \/ NextNotifications(o)

Next == \E o \in traffic : Serve(o)

Spec == Init /\ [][Next]_vars

-----------------------------------------------------------------------------
(* Properties.                                                             *)

Step == {"ready", "lookup", "read", "reload", "email", "write", "show", "collect", "each",
         "own", "list", "ratings", "digest", "provider"} \cup Answer

Column == {"email", "password", "country", "blocked", "role", "name", "description",
           "owner", "category", "public", "user", "dataset", "rating", "text"}

\* Type correctness, and what the migrations promise of the tables: every reference
\* leads to a row, and no e-mail and no name of a category occurs twice.
TypeOK ==
  /\ TablesOK
  /\ traffic \in Traffic
  /\ pc \in [traffic -> Step]
  /\ admins \subseteq traffic /\ wrote \subseteq traffic
  /\ seen \in [traffic -> AnyRow \cup {NoRow}] /\ loaded \in [traffic -> AnyRow \cup {NoRow}]
  /\ todo \in [traffic -> SUBSET (User \cup Dataset)]
  /\ shown \in [traffic -> SUBSET Dataset] /\ public \in [traffic -> SUBSET Dataset]
  /\ stale \in [traffic -> SUBSET Column]
  /\ loyal \in [traffic -> SUBSET User]
  /\ faults \in 0..MaxFaults

\* How the operations on subscriptions end.
SubscriptionOp == {o \in Op : Resource(o) = "subscriptions"}
Adding == {o \in SubscriptionOp : Method(o) = "POST"}

Outcome(o) ==
  IF o \in wrote THEN "done"
  ELSE IF o \notin traffic \/ pc[o] \notin Answer THEN "open"
  ELSE IF pc[o] = (IF o \in Adding THEN "conflict" ELSE "notFound") THEN "refused"
  ELSE "failed"

Contract == INSTANCE SubscriptionContract WITH
  Op <- SubscriptionOp,
  Subscribes <- Adding, Pair <- PairOf,
  Subscribed <- Seed.subscriptions,
  subscribed <- db.subscriptions, outcome <- [o \in SubscriptionOp |-> Outcome(o)]

\* Subscriptions keep the contract: however the look-up and the write of two requests
\* interleave and whatever is deleted meanwhile, an operation takes effect once, at one
\* moment, and it is told that there is nothing to do only if that was so.
SubscriptionsKeepContract == Contract!Spec

Notifying(o) == Is(o, "POST", "notifications")
Notified(o, u) == NotificationFor(o, u, "fanOut") \in db.notifications

\* A fan-out that ends well has reached everybody who was subscribed all along, though
\* subscriptions come and go and users are deleted while it runs.
FanOutReachesSubscribers ==
  \A o \in traffic : Notifying(o) /\ pc[o] \in {"own", "ok", "created"} =>
    \A u \in loyal[o] : HasUser(u) /\ HasDataset(On(o)) => Notified(o, u)

\* Without failing calls a fan-out breaks off only because the dataset, the actor or
\* somebody still to be notified has been deleted; a retry after a half-done fan-out
\* is not a reason.
FanOutBreaksForACause ==
  \A o \in traffic : Notifying(o) /\ pc[o] = "error" /\ faults = 0 =>
    \/ ~HasDataset(On(o))
    \/ By(o) # Nobody /\ ~HasUser(By(o))
    \/ \E u \in todo[o] : ~HasUser(u)

\* PATCH writes the columns it was asked to write. It fills the others from a row it
\* read earlier, so it undoes what others wrote in between, but nothing else.
OverwrittenOnlyByOverlap ==
  [][\A o \in wrote' \ wrote : Method(o) = "PATCH" /\ Resource(o) # "notification" =>
       Changed(o) \subseteq Asked(o) \cup stale[o]]_vars

\* Two registrations with one e-mail: the look-up may let both pass, but the loser is
\* told of a conflict by the constraint, never of an internal error.
DuplicateRegistrationIsConflict ==
  \A o \in traffic : Is(o, "POST", "users") /\ pc[o] = "error" => faults > 0

\* A change of a user is refused as a conflict only if somebody else has the e-mail
\* that was asked for, or if the user's own was changed under the request and the one
\* it read is no longer free to go back to.
ConflictIsReal ==
  [][\A o \in traffic : Resource(o) = "users" /\ Method(o) \in {"PATCH", "PUT"} /\ pc[o] # "conflict"
        /\ pc'[o] = "conflict" =>
       \E u \in FindByEmail(NewEmail(o, loaded[o])) : u # On(o) \/ "email" \in stale[o]]_vars

\* What a list, a view or a digest has shown of a dataset is what its reader might see
\* at some time since the request came: the dataset was public then, or it is the
\* reader's own, or the reader is an administrator. Reviews that are asked for by their
\* dataset or their author are left out: these are open to everybody.
ShownWasReadable ==
  \A o \in traffic : \A d \in shown[o] : HasDataset(d) =>
    \/ Is(o, "GET", "reviews") /\ Filtered(o)
    \/ d \in public[o]
    \/ IsAdmin(o)
    \/ By(o) # Nobody /\ db.datasets[d].owner = By(o)
=============================================================================
