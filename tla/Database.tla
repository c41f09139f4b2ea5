------------------------------ MODULE Database ------------------------------
(***************************************************************************)
(* The tables of migrations/1_init.up.sql behind the synchronous API, and   *)
(* the repositories' statements on them (internal/dataaccess/repositories/  *)
(* postqbuild). A statement is one transaction. Its last parameter is what  *)
(* the repository makes of it: "ok", "none" (no row was affected), "exists" *)
(* (a unique constraint the repository knows), "notEmpty" (a foreign key it *)
(* knows) or "error" (every other refusal of the database).                *)
(*                                                                         *)
(* Statements that break off are not here: they change nothing. The tables  *)
(* of versions, metadata and access requests are in DatasetUpload and       *)
(* AccessRequests.                                                         *)
(***************************************************************************)
EXTENDS Naturals, FiniteSets

CONSTANTS
  User, Category, Dataset, Review,  \* the ids there are and those inserts will draw
  Email, Text,                      \* values of columns; Text stands for every free one
  Poster,                           \* who can create notifications: the requests
  NoRow

VARIABLE db  \* the tables, one field each

UserRow == [email : Email, password : Text, country : Text, blocked : BOOLEAN,
            role : {"user", "admin"}]
CategoryRow == [name : Text, description : Text]
DatasetRow == [owner : User, category : Category, name : Text, public : BOOLEAN]
ReviewRow == [user : User, dataset : Dataset, rating : 1..5, text : Text]

\* A request creates at most one notification of each kind per user: one for every
\* subscriber, and one for its actor.
Notification == [by : Poster, user : User, dataset : Dataset, kind : {"fanOut", "own"}]

Database ==
  [users : [User -> UserRow \cup {NoRow}],
   categories : [Category -> CategoryRow \cup {NoRow}],
   datasets : [Dataset -> DatasetRow \cup {NoRow}],
   reviews : [Review -> ReviewRow \cup {NoRow}],
   subscriptions : SUBSET (User \X Dataset),
   notifications : SUBSET Notification,
   read : SUBSET Notification]  \* notifications.is_read

HasUser(u) == db.users[u] # NoRow
HasCategory(c) == db.categories[c] # NoRow
HasDataset(d) == db.datasets[d] # NoRow
HasReview(v) == db.reviews[v] # NoRow

\* The foreign keys.
References(t) ==
  /\ \A d \in Dataset : t.datasets[d] # NoRow =>
       t.users[t.datasets[d].owner] # NoRow /\ t.categories[t.datasets[d].category] # NoRow
  /\ \A v \in Review : t.reviews[v] # NoRow =>
       t.users[t.reviews[v].user] # NoRow /\ t.datasets[t.reviews[v].dataset] # NoRow
  /\ \A s \in t.subscriptions : t.users[s[1]] # NoRow /\ t.datasets[s[2]] # NoRow
  /\ \A n \in t.notifications : t.users[n.user] # NoRow /\ t.datasets[n.dataset] # NoRow

\* uq_users_email and uq_categories_name.
UniqueKeys(t) ==
  /\ \A u, w \in User : t.users[u] # NoRow /\ t.users[w] # NoRow /\ u # w
       => t.users[u].email # t.users[w].email
  /\ \A b, c \in Category : t.categories[b] # NoRow /\ t.categories[c] # NoRow /\ b # c
       => t.categories[b].name # t.categories[c].name

TablesOK == db \in Database /\ References(db) /\ UniqueKeys(db)

-----------------------------------------------------------------------------
(* UserRepo.                                                               *)

\* The user with an e-mail, other than one.
EmailTaken(email, but) ==
  \E u \in User \ {but} : HasUser(u) /\ db.users[u].email = email

\* FindByEmail
FindByEmail(email) == {u \in User : HasUser(u) /\ db.users[u].email = email}

\* Mutation: Create does not know the unique constraint.
InsertUserUnaware(u, row, r) ==
  \/ /\ r = "ok" /\ ~EmailTaken(row.email, u)
     /\ db' = [db EXCEPT !.users[u] = row]
  \/ r = "error" /\ EmailTaken(row.email, u) /\ UNCHANGED db

\* Create
InsertUser(u, row, r) ==
  \/ /\ r = "ok" /\ ~EmailTaken(row.email, u)
     /\ db' = [db EXCEPT !.users[u] = row]
  \/ r = "exists" /\ EmailTaken(row.email, u) /\ UNCHANGED db

\* Update; here a taken e-mail is an error like any other.
UpdateUserRow(u, row, r) ==
  \/ /\ r = "ok" /\ HasUser(u) /\ ~EmailTaken(row.email, u)
     /\ db' = [db EXCEPT !.users[u] = row]
  \/ r = "error" /\ HasUser(u) /\ EmailTaken(row.email, u) /\ UNCHANGED db
  \/ r = "none" /\ ~HasUser(u) /\ UNCHANGED db

\* Delete: refused while the user owns a dataset, and else taking along the
\* user's reviews, subscriptions and notifications.
DeleteUserRow(u, r) ==
  LET owns == \E d \in Dataset : HasDataset(d) /\ db.datasets[d].owner = u IN
  \/ /\ r = "ok" /\ HasUser(u) /\ ~owns
     /\ db' = [db EXCEPT
          !.users[u] = NoRow,
          !.reviews = [v \in Review |-> IF HasReview(v) /\ @[v].user = u THEN NoRow ELSE @[v]],
          !.subscriptions = {s \in @ : s[1] # u},
          !.notifications = {n \in @ : n.user # u},
          !.read = {n \in @ : n.user # u}]
  \/ r = "error" /\ HasUser(u) /\ owns /\ UNCHANGED db
  \/ r = "none" /\ ~HasUser(u) /\ UNCHANGED db

-----------------------------------------------------------------------------
(* CategoryRepo.                                                           *)

NameTaken(name, but) ==
  \E c \in Category \ {but} : HasCategory(c) /\ db.categories[c].name = name

\* Create
InsertCategory(c, row, r) ==
  \/ /\ r = "ok" /\ ~NameTaken(row.name, c)
     /\ db' = [db EXCEPT !.categories[c] = row]
  \/ r = "exists" /\ NameTaken(row.name, c) /\ UNCHANGED db

\* Update
UpdateCategoryRow(c, row, r) ==
  \/ /\ r = "ok" /\ HasCategory(c) /\ ~NameTaken(row.name, c)
     /\ db' = [db EXCEPT !.categories[c] = row]
  \/ r = "exists" /\ HasCategory(c) /\ NameTaken(row.name, c) /\ UNCHANGED db
  \/ r = "none" /\ ~HasCategory(c) /\ UNCHANGED db

\* Delete: refused while a dataset is in the category.
DeleteCategoryRow(c, r) ==
  LET used == \E d \in Dataset : HasDataset(d) /\ db.datasets[d].category = c IN
  \/ r = "ok" /\ HasCategory(c) /\ ~used /\ db' = [db EXCEPT !.categories[c] = NoRow]
  \/ r = "notEmpty" /\ HasCategory(c) /\ used /\ UNCHANGED db
  \/ r = "none" /\ ~HasCategory(c) /\ UNCHANGED db

-----------------------------------------------------------------------------
(* DatasetRepo.                                                            *)

AllDatasets == {d \in Dataset : HasDataset(d)}                           \* FindAll
PublicDatasets == {d \in AllDatasets : db.datasets[d].public}            \* FindPublic
DatasetsOf(u) == {d \in AllDatasets : db.datasets[d].owner = u}          \* FindByUserID

\* Update writes name, description, category and is_public, never the owner.
UpdateDatasetRow(d, row, r) ==
  \/ /\ r = "ok" /\ HasDataset(d) /\ HasCategory(row.category)
     /\ db' = [db EXCEPT !.datasets[d] = [row EXCEPT !.owner = db.datasets[d].owner]]
  \/ r = "error" /\ HasDataset(d) /\ ~HasCategory(row.category) /\ UNCHANGED db
  \/ r = "none" /\ ~HasDataset(d) /\ UNCHANGED db

\* Mutation: the foreign key of the subscriptions does not cascade.
DeleteDatasetKeepsSubscriptions(d, r) ==
  \/ /\ r = "ok" /\ HasDataset(d)
     /\ db' = [db EXCEPT
          !.datasets[d] = NoRow,
          !.reviews = [v \in Review |-> IF HasReview(v) /\ @[v].dataset = d THEN NoRow ELSE @[v]],
          !.notifications = {n \in @ : n.dataset # d},
          !.read = {n \in @ : n.dataset # d}]
  \/ r = "none" /\ ~HasDataset(d) /\ UNCHANGED db

\* Delete takes reviews, subscriptions and notifications along.
DeleteDatasetRow(d, r) ==
  \/ /\ r = "ok" /\ HasDataset(d)
     /\ db' = [db EXCEPT
          !.datasets[d] = NoRow,
          !.reviews = [v \in Review |-> IF HasReview(v) /\ @[v].dataset = d THEN NoRow ELSE @[v]],
          !.subscriptions = {s \in @ : s[2] # d},
          !.notifications = {n \in @ : n.dataset # d},
          !.read = {n \in @ : n.dataset # d}]
  \/ r = "none" /\ ~HasDataset(d) /\ UNCHANGED db

-----------------------------------------------------------------------------
(* ReviewRepo.                                                             *)

\* FindByDatasetID
ReviewsOf(d) == {v \in Review : HasReview(v) /\ db.reviews[v].dataset = d}

\* FindByUserID
ReviewsBy(u) == {v \in Review : HasReview(v) /\ db.reviews[v].user = u}

\* Create: nothing keeps a user from a second review of a dataset.
InsertReview(v, row, r) ==
  LET refers == HasUser(row.user) /\ HasDataset(row.dataset) IN
  \/ r = "ok" /\ refers /\ db' = [db EXCEPT !.reviews[v] = row]
  \/ r = "error" /\ ~refers /\ UNCHANGED db

\* Update writes rating and text.
UpdateReviewRow(v, row, r) ==
  \/ /\ r = "ok" /\ HasReview(v)
     /\ db' = [db EXCEPT !.reviews[v] = [@ EXCEPT !.rating = row.rating, !.text = row.text]]
  \/ r = "none" /\ ~HasReview(v) /\ UNCHANGED db

\* Delete
DeleteReviewRow(v, r) ==
  \/ r = "ok" /\ HasReview(v) /\ db' = [db EXCEPT !.reviews[v] = NoRow]
  \/ r = "none" /\ ~HasReview(v) /\ UNCHANGED db

-----------------------------------------------------------------------------
(* SubscriptionRepo.                                                       *)

IsSubscribed(s) == s \in db.subscriptions
SubscribersOf(d) == {u \in User : <<u, d>> \in db.subscriptions}     \* GetSubscribers
SubscriptionsOf(u) == {d \in Dataset : <<u, d>> \in db.subscriptions}  \* GetByUser

\* Create
InsertSubscription(s, r) ==
  LET refers == HasUser(s[1]) /\ HasDataset(s[2]) IN
  \/ /\ r = "ok" /\ ~IsSubscribed(s) /\ refers
     /\ db' = [db EXCEPT !.subscriptions = @ \cup {s}]
  \/ r = "exists" /\ IsSubscribed(s) /\ UNCHANGED db
  \/ r = "error" /\ ~IsSubscribed(s) /\ ~refers /\ UNCHANGED db

\* Mutation: Unsubscribe does not look at the number of rows it deleted.
DeleteSubscriptionBlindly(s, r) ==
  r = "ok" /\ db' = [db EXCEPT !.subscriptions = @ \ {s}]

\* Unsubscribe
DeleteSubscription(s, r) ==
  \/ r = "ok" /\ IsSubscribed(s) /\ db' = [db EXCEPT !.subscriptions = @ \ {s}]
  \/ r = "none" /\ ~IsSubscribed(s) /\ UNCHANGED db

-----------------------------------------------------------------------------
(* NotificationRepo.                                                       *)

\* Mutation: a user is notified of a dataset once.
InsertNotificationOnce(n, r) ==
  LET refers == HasUser(n.user) /\ HasDataset(n.dataset)
      another == \E m \in db.notifications : m.user = n.user /\ m.dataset = n.dataset IN
  \/ r = "ok" /\ refers /\ ~another /\ db' = [db EXCEPT !.notifications = @ \cup {n}]
  \/ r = "error" /\ (~refers \/ another) /\ UNCHANGED db

\* Create
InsertNotification(n, r) ==
  LET refers == HasUser(n.user) /\ HasDataset(n.dataset) IN
  \/ r = "ok" /\ refers /\ db' = [db EXCEPT !.notifications = @ \cup {n}]
  \/ r = "error" /\ ~refers /\ UNCHANGED db

\* Update writes the read flag (and the message, which nobody changes).
MarkNotification(n, isRead, r) ==
  \/ /\ r = "ok" /\ n \in db.notifications
     /\ db' = [db EXCEPT !.read = IF isRead THEN @ \cup {n} ELSE @ \ {n}]
  \/ r = "none" /\ n \notin db.notifications /\ UNCHANGED db
=============================================================================
