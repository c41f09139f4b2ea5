---------------------------- MODULE CommunityProofs ----------------------------
(***************************************************************************)
(* Proofs about Community, for any users, rows, requests and mixes of them. *)
(* First the tables: every statement of the repositories keeps them         *)
(* well-formed (types, foreign keys and unique keys). Then the requests: the *)
(* inductive invariant adds to TypeOK what each request has read by the     *)
(* time it needs it.                                                       *)
(***************************************************************************)
EXTENDS Community, TLAPS

-----------------------------------------------------------------------------
(* The tables.                                                             *)

\* NoRow is none of the rows.
NoRowIsNoRow == NoRow \notin UserRow \cup CategoryRow \cup DatasetRow \cup ReviewRow

\* The fields of the tables, and the tables from their fields.
LEMMA Fields ==
  ASSUME NEW t \in Database
  PROVE  /\ t.users \in [User -> UserRow \cup {NoRow}]
         /\ t.categories \in [Category -> CategoryRow \cup {NoRow}]
         /\ t.datasets \in [Dataset -> DatasetRow \cup {NoRow}]
         /\ t.reviews \in [Review -> ReviewRow \cup {NoRow}]
         /\ t.subscriptions \subseteq User \X Dataset
         /\ t.notifications \subseteq Notification
         /\ t.read \subseteq Notification
  BY DEF Database

\* UserRepo.Create keeps the tables well-formed.
LEMMA InsertUserKeeps ==
  ASSUME TablesOK, NoRowIsNoRow, NEW u \in User, NEW row \in UserRow, NEW r, InsertUser(u, row, r)
  PROVE  TablesOK'
  <1>1. CASE UNCHANGED db
    BY <1>1 DEF TablesOK, References, UniqueKeys, Database
  <1>2. CASE /\ ~EmailTaken(row.email, u)
             /\ db' = [db EXCEPT !.users[u] = row]
    <2>1. db \in Database BY DEF TablesOK
    <2>2. /\ db'.users = [db.users EXCEPT ![u] = row]
          /\ db'.categories = db.categories
          /\ db'.datasets = db.datasets
          /\ db'.reviews = db.reviews
          /\ db'.subscriptions = db.subscriptions
          /\ db'.notifications = db.notifications
      BY <1>2, <2>1 DEF Database
    <2>3. db' \in Database
      BY <1>2, <2>1, Fields
      DEF Database, NoRowIsNoRow, DatasetRow, ReviewRow, HasDataset, HasReview
    <2>4. row # NoRow /\ \A w \in User : db'.users[w] = IF w = u THEN row ELSE db.users[w]
      BY <2>1, <2>2, Fields DEF NoRowIsNoRow
    <2>5. References(db')
      BY <1>2, <2>1, <2>2, <2>4, Fields
      DEF TablesOK, References, DatasetRow, ReviewRow, Notification, NoRowIsNoRow,
          HasUser, HasCategory, HasDataset, HasReview
    <2>6. UniqueKeys(db')
      BY <1>2, <2>2, <2>4 DEF TablesOK, UniqueKeys, NoRowIsNoRow, HasUser, HasCategory, EmailTaken
    <2>. QED BY <2>3, <2>5, <2>6 DEF TablesOK
  <1>. QED BY <1>1, <1>2 DEF InsertUser

\* UserRepo.Update keeps them well-formed.
LEMMA UpdateUserKeeps ==
  ASSUME TablesOK, NoRowIsNoRow, NEW u \in User, NEW row \in UserRow, NEW r, UpdateUserRow(u, row, r)
  PROVE  TablesOK'
  <1>1. CASE UNCHANGED db
    BY <1>1 DEF TablesOK, References, UniqueKeys, Database
  <1>2. CASE /\ HasUser(u)
             /\ ~EmailTaken(row.email, u)
             /\ db' = [db EXCEPT !.users[u] = row]
    <2>1. db \in Database BY DEF TablesOK
    <2>2. /\ db'.users = [db.users EXCEPT ![u] = row]
          /\ db'.categories = db.categories
          /\ db'.datasets = db.datasets
          /\ db'.reviews = db.reviews
          /\ db'.subscriptions = db.subscriptions
          /\ db'.notifications = db.notifications
      BY <1>2, <2>1 DEF Database
    <2>3. db' \in Database
      BY <1>2, <2>1, Fields
      DEF Database, NoRowIsNoRow, DatasetRow, ReviewRow, HasDataset, HasReview
    <2>4. row # NoRow /\ \A w \in User : db'.users[w] = IF w = u THEN row ELSE db.users[w]
      BY <2>1, <2>2, Fields DEF NoRowIsNoRow
    <2>5. References(db')
      BY <1>2, <2>1, <2>2, <2>4, Fields
      DEF TablesOK, References, DatasetRow, ReviewRow, Notification, NoRowIsNoRow,
          HasUser, HasCategory, HasDataset, HasReview
    <2>6. UniqueKeys(db')
      BY <1>2, <2>2, <2>4 DEF TablesOK, UniqueKeys, NoRowIsNoRow, HasUser, HasCategory, EmailTaken
    <2>. QED BY <2>3, <2>5, <2>6 DEF TablesOK
  <1>. QED BY <1>1, <1>2 DEF UpdateUserRow

\* UserRepo.Delete keeps them well-formed: what refers to a user goes or holds the user.
LEMMA DeleteUserKeeps ==
  ASSUME TablesOK, NoRowIsNoRow, NEW u \in User, NEW r, DeleteUserRow(u, r)
  PROVE  TablesOK'
  <1>1. CASE UNCHANGED db
    BY <1>1 DEF TablesOK, References, UniqueKeys, Database
  <1>2. CASE /\ ~\E d \in Dataset : HasDataset(d) /\ db.datasets[d].owner = u
             /\ db' = [db EXCEPT
                  !.users[u] = NoRow,
                  !.reviews = [v \in Review |-> IF HasReview(v) /\ @[v].user = u THEN NoRow ELSE @[v]],
                  !.subscriptions = {s \in @ : s[1] # u},
                  !.notifications = {n \in @ : n.user # u},
                  !.read = {n \in @ : n.user # u}]
    <2>1. db \in Database BY DEF TablesOK
    <2>2. /\ db'.users = [db.users EXCEPT ![u] = NoRow]
          /\ db'.reviews = [v \in Review |-> IF HasReview(v) /\ db.reviews[v].user = u THEN NoRow ELSE db.reviews[v]]
          /\ db'.subscriptions = {s \in db.subscriptions : s[1] # u}
          /\ db'.notifications = {n \in db.notifications : n.user # u}
          /\ db'.categories = db.categories
          /\ db'.datasets = db.datasets
      BY <1>2, <2>1 DEF Database
    <2>3. db' \in Database
      BY <1>2, <2>1, Fields
      DEF Database, NoRowIsNoRow, DatasetRow, ReviewRow, HasDataset, HasReview
    <2>4. \A w \in User : db'.users[w] = IF w = u THEN NoRow ELSE db.users[w]
      BY <2>1, <2>2, Fields DEF NoRowIsNoRow
    <2>5. References(db')
      BY <1>2, <2>1, <2>2, <2>4, Fields
      DEF TablesOK, References, DatasetRow, ReviewRow, Notification, NoRowIsNoRow,
          HasUser, HasCategory, HasDataset, HasReview
    <2>6. UniqueKeys(db')
      BY <1>2, <2>2, <2>4 DEF TablesOK, UniqueKeys, NoRowIsNoRow, HasUser, HasCategory
    <2>. QED BY <2>3, <2>5, <2>6 DEF TablesOK
  <1>. QED BY <1>1, <1>2 DEF DeleteUserRow

\* CategoryRepo.Create keeps them well-formed.
LEMMA InsertCategoryKeeps ==
  ASSUME TablesOK, NoRowIsNoRow, NEW c \in Category, NEW row \in CategoryRow, NEW r, InsertCategory(c, row, r)
  PROVE  TablesOK'
  <1>1. CASE UNCHANGED db
    BY <1>1 DEF TablesOK, References, UniqueKeys, Database
  <1>2. CASE /\ ~NameTaken(row.name, c)
             /\ db' = [db EXCEPT !.categories[c] = row]
    <2>1. db \in Database BY DEF TablesOK
    <2>2. /\ db'.categories = [db.categories EXCEPT ![c] = row]
          /\ db'.users = db.users
          /\ db'.datasets = db.datasets
          /\ db'.reviews = db.reviews
          /\ db'.subscriptions = db.subscriptions
          /\ db'.notifications = db.notifications
      BY <1>2, <2>1 DEF Database
    <2>3. db' \in Database
      BY <1>2, <2>1, Fields
      DEF Database, NoRowIsNoRow, DatasetRow, ReviewRow, HasDataset, HasReview
    <2>4. row # NoRow /\ \A b \in Category : db'.categories[b] = IF b = c THEN row ELSE db.categories[b]
      BY <2>1, <2>2, Fields DEF NoRowIsNoRow
    <2>5. References(db')
      BY <1>2, <2>1, <2>2, <2>4, Fields
      DEF TablesOK, References, DatasetRow, ReviewRow, Notification, NoRowIsNoRow,
          HasUser, HasCategory, HasDataset, HasReview
    <2>6. UniqueKeys(db')
      BY <1>2, <2>2, <2>4 DEF TablesOK, UniqueKeys, NoRowIsNoRow, HasUser, HasCategory, NameTaken
    <2>. QED BY <2>3, <2>5, <2>6 DEF TablesOK
  <1>. QED BY <1>1, <1>2 DEF InsertCategory

\* CategoryRepo.Update keeps them well-formed.
LEMMA UpdateCategoryKeeps ==
  ASSUME TablesOK, NoRowIsNoRow, NEW c \in Category, NEW row \in CategoryRow, NEW r, UpdateCategoryRow(c, row, r)
  PROVE  TablesOK'
  <1>1. CASE UNCHANGED db
    BY <1>1 DEF TablesOK, References, UniqueKeys, Database
  <1>2. CASE /\ ~NameTaken(row.name, c)
             /\ db' = [db EXCEPT !.categories[c] = row]
    <2>1. db \in Database BY DEF TablesOK
    <2>2. /\ db'.categories = [db.categories EXCEPT ![c] = row]
          /\ db'.users = db.users
          /\ db'.datasets = db.datasets
          /\ db'.reviews = db.reviews
          /\ db'.subscriptions = db.subscriptions
          /\ db'.notifications = db.notifications
      BY <1>2, <2>1 DEF Database
    <2>3. db' \in Database
      BY <1>2, <2>1, Fields
      DEF Database, NoRowIsNoRow, DatasetRow, ReviewRow, HasDataset, HasReview
    <2>4. row # NoRow /\ \A b \in Category : db'.categories[b] = IF b = c THEN row ELSE db.categories[b]
      BY <2>1, <2>2, Fields DEF NoRowIsNoRow
    <2>5. References(db')
      BY <1>2, <2>1, <2>2, <2>4, Fields
      DEF TablesOK, References, DatasetRow, ReviewRow, Notification, NoRowIsNoRow,
          HasUser, HasCategory, HasDataset, HasReview
    <2>6. UniqueKeys(db')
      BY <1>2, <2>2, <2>4 DEF TablesOK, UniqueKeys, NoRowIsNoRow, HasUser, HasCategory, NameTaken
    <2>. QED BY <2>3, <2>5, <2>6 DEF TablesOK
  <1>. QED BY <1>1, <1>2 DEF UpdateCategoryRow

\* CategoryRepo.Delete keeps them well-formed: no dataset is in the category.
LEMMA DeleteCategoryKeeps ==
  ASSUME TablesOK, NoRowIsNoRow, NEW c \in Category, NEW r, DeleteCategoryRow(c, r)
  PROVE  TablesOK'
  <1>1. CASE UNCHANGED db
    BY <1>1 DEF TablesOK, References, UniqueKeys, Database
  <1>2. CASE /\ ~\E d \in Dataset : HasDataset(d) /\ db.datasets[d].category = c
             /\ db' = [db EXCEPT !.categories[c] = NoRow]
    <2>1. db \in Database BY DEF TablesOK
    <2>2. /\ db'.categories = [db.categories EXCEPT ![c] = NoRow]
          /\ db'.users = db.users
          /\ db'.datasets = db.datasets
          /\ db'.reviews = db.reviews
          /\ db'.subscriptions = db.subscriptions
          /\ db'.notifications = db.notifications
      BY <1>2, <2>1 DEF Database
    <2>3. db' \in Database
      BY <1>2, <2>1, Fields
      DEF Database, NoRowIsNoRow, DatasetRow, ReviewRow, HasDataset, HasReview
    <2>4. \A b \in Category : db'.categories[b] = IF b = c THEN NoRow ELSE db.categories[b]
      BY <2>1, <2>2, Fields DEF NoRowIsNoRow
    <2>5. References(db')
      BY <1>2, <2>1, <2>2, <2>4, Fields
      DEF TablesOK, References, DatasetRow, ReviewRow, Notification, NoRowIsNoRow,
          HasUser, HasCategory, HasDataset, HasReview
    <2>6. UniqueKeys(db')
      BY <1>2, <2>2, <2>4 DEF TablesOK, UniqueKeys, NoRowIsNoRow, HasUser, HasCategory
    <2>. QED BY <2>3, <2>5, <2>6 DEF TablesOK
  <1>. QED BY <1>1, <1>2 DEF DeleteCategoryRow

\* DatasetRepo.Update keeps them well-formed.
LEMMA UpdateDatasetKeeps ==
  ASSUME TablesOK, NoRowIsNoRow, NEW d \in Dataset, NEW row \in DatasetRow, NEW r, UpdateDatasetRow(d, row, r)
  PROVE  TablesOK'
  <1>1. CASE UNCHANGED db
    BY <1>1 DEF TablesOK, References, UniqueKeys, Database
  <1>2. CASE /\ HasDataset(d)
             /\ HasCategory(row.category)
             /\ db' = [db EXCEPT !.datasets[d] = [row EXCEPT !.owner = db.datasets[d].owner]]
    <2>1. db \in Database BY DEF TablesOK
    <2>2. /\ db'.datasets = [db.datasets EXCEPT ![d] = [row EXCEPT !.owner = db.datasets[d].owner]]
          /\ db'.users = db.users
          /\ db'.categories = db.categories
          /\ db'.reviews = db.reviews
          /\ db'.subscriptions = db.subscriptions
          /\ db'.notifications = db.notifications
      BY <1>2, <2>1 DEF Database
    <2>3. db' \in Database
      BY <1>2, <2>1, Fields
      DEF Database, NoRowIsNoRow, DatasetRow, ReviewRow, HasDataset, HasReview
    <2>4. /\ db.datasets[d] \in DatasetRow
          /\ [row EXCEPT !.owner = db.datasets[d].owner] \in DatasetRow
          /\ [row EXCEPT !.owner = db.datasets[d].owner].owner = db.datasets[d].owner
          /\ [row EXCEPT !.owner = db.datasets[d].owner].category = row.category
          /\ \A e \in Dataset : db'.datasets[e] =
               IF e = d THEN [row EXCEPT !.owner = db.datasets[d].owner] ELSE db.datasets[e]
      <3>1. db.datasets[d] \in DatasetRow BY <1>2, <2>1, Fields DEF HasDataset
      <3>. QED BY <2>1, <2>2, <3>1, Fields DEF DatasetRow
    <2>5. References(db')
      BY <1>2, <2>1, <2>2, <2>4, Fields
      DEF TablesOK, References, DatasetRow, ReviewRow, Notification, NoRowIsNoRow,
          HasUser, HasCategory, HasDataset, HasReview
    <2>6. UniqueKeys(db')
      BY <1>2, <2>2, <2>4 DEF TablesOK, UniqueKeys, NoRowIsNoRow, HasUser, HasCategory
    <2>. QED BY <2>3, <2>5, <2>6 DEF TablesOK
  <1>. QED BY <1>1, <1>2 DEF UpdateDatasetRow

\* DatasetRepo.Delete keeps them well-formed: what refers to a dataset goes with it.
LEMMA DeleteDatasetKeeps ==
  ASSUME TablesOK, NoRowIsNoRow, NEW d \in Dataset, NEW r, DeleteDatasetRow(d, r)
  PROVE  TablesOK'
  <1>1. CASE UNCHANGED db
    BY <1>1 DEF TablesOK, References, UniqueKeys, Database
  <1>2. CASE /\ HasDataset(d)
             /\ db' = [db EXCEPT
                  !.datasets[d] = NoRow,
                  !.reviews = [v \in Review |-> IF HasReview(v) /\ @[v].dataset = d THEN NoRow ELSE @[v]],
                  !.subscriptions = {s \in @ : s[2] # d},
                  !.notifications = {n \in @ : n.dataset # d},
                  !.read = {n \in @ : n.dataset # d}]
    <2>1. db \in Database BY DEF TablesOK
    <2>2. /\ db'.datasets = [db.datasets EXCEPT ![d] = NoRow]
          /\ db'.reviews = [v \in Review |-> IF HasReview(v) /\ db.reviews[v].dataset = d THEN NoRow ELSE db.reviews[v]]
          /\ db'.subscriptions = {s \in db.subscriptions : s[2] # d}
          /\ db'.notifications = {n \in db.notifications : n.dataset # d}
          /\ db'.users = db.users
          /\ db'.categories = db.categories
      BY <1>2, <2>1 DEF Database
    <2>3. db' \in Database
      BY <1>2, <2>1, Fields
      DEF Database, NoRowIsNoRow, DatasetRow, ReviewRow, HasDataset, HasReview
    <2>4. \A e \in Dataset : db'.datasets[e] = IF e = d THEN NoRow ELSE db.datasets[e]
      BY <2>1, <2>2, Fields DEF NoRowIsNoRow
    <2>5. References(db')
      BY <1>2, <2>1, <2>2, <2>4, Fields
      DEF TablesOK, References, DatasetRow, ReviewRow, Notification, NoRowIsNoRow,
          HasUser, HasCategory, HasDataset, HasReview
    <2>6. UniqueKeys(db')
      BY <1>2, <2>2, <2>4 DEF TablesOK, UniqueKeys, NoRowIsNoRow, HasUser, HasCategory
    <2>. QED BY <2>3, <2>5, <2>6 DEF TablesOK
  <1>. QED BY <1>1, <1>2 DEF DeleteDatasetRow

\* ReviewRepo.Create keeps them well-formed.
LEMMA InsertReviewKeeps ==
  ASSUME TablesOK, NoRowIsNoRow, NEW v \in Review, NEW row \in ReviewRow, NEW r, InsertReview(v, row, r)
  PROVE  TablesOK'
  <1>1. CASE UNCHANGED db
    BY <1>1 DEF TablesOK, References, UniqueKeys, Database
  <1>2. CASE /\ HasUser(row.user)
             /\ HasDataset(row.dataset)
             /\ db' = [db EXCEPT !.reviews[v] = row]
    <2>1. db \in Database BY DEF TablesOK
    <2>2. /\ db'.reviews = [db.reviews EXCEPT ![v] = row]
          /\ db'.users = db.users
          /\ db'.categories = db.categories
          /\ db'.datasets = db.datasets
          /\ db'.subscriptions = db.subscriptions
          /\ db'.notifications = db.notifications
      BY <1>2, <2>1 DEF Database
    <2>3. db' \in Database
      BY <1>2, <2>1, Fields
      DEF Database, NoRowIsNoRow, DatasetRow, ReviewRow, HasDataset, HasReview
    <2>4. \A w \in Review : db'.reviews[w] = IF w = v THEN row ELSE db.reviews[w]
      BY <2>1, <2>2, Fields DEF NoRowIsNoRow
    <2>5. References(db')
      BY <1>2, <2>1, <2>2, <2>4, Fields
      DEF TablesOK, References, DatasetRow, ReviewRow, Notification, NoRowIsNoRow,
          HasUser, HasCategory, HasDataset, HasReview
    <2>6. UniqueKeys(db')
      BY <1>2, <2>2, <2>4 DEF TablesOK, UniqueKeys, NoRowIsNoRow, HasUser, HasCategory
    <2>. QED BY <2>3, <2>5, <2>6 DEF TablesOK
  <1>. QED BY <1>1, <1>2 DEF InsertReview

\* ReviewRepo.Update keeps them well-formed.
LEMMA UpdateReviewKeeps ==
  ASSUME TablesOK, NoRowIsNoRow, NEW v \in Review, NEW row \in ReviewRow, NEW r, UpdateReviewRow(v, row, r)
  PROVE  TablesOK'
  <1>1. CASE UNCHANGED db
    BY <1>1 DEF TablesOK, References, UniqueKeys, Database
  <1>2. CASE /\ HasReview(v)
             /\ db' = [db EXCEPT !.reviews[v] = [@ EXCEPT !.rating = row.rating, !.text = row.text]]
    <2>1. db \in Database BY DEF TablesOK
    <2>2. /\ db'.reviews = [db.reviews EXCEPT ![v] = [db.reviews[v] EXCEPT !.rating = row.rating, !.text = row.text]]
          /\ db'.users = db.users
          /\ db'.categories = db.categories
          /\ db'.datasets = db.datasets
          /\ db'.subscriptions = db.subscriptions
          /\ db'.notifications = db.notifications
      BY <1>2, <2>1 DEF Database
    <2>3. db' \in Database
      BY <1>2, <2>1, Fields
      DEF Database, NoRowIsNoRow, DatasetRow, ReviewRow, HasDataset, HasReview
    <2>4. \E new \in ReviewRow :
            /\ new.user = db.reviews[v].user /\ new.dataset = db.reviews[v].dataset
            /\ \A w \in Review : db'.reviews[w] = IF w = v THEN new ELSE db.reviews[w]
      <3>1. db.reviews[v] \in ReviewRow BY <1>2, <2>1, Fields DEF HasReview
      <3>2. [db.reviews[v] EXCEPT !.rating = row.rating, !.text = row.text] \in ReviewRow
        BY <3>1 DEF ReviewRow
      <3>. QED BY <2>1, <2>2, <3>1, <3>2, Fields DEF ReviewRow
    <2>5. References(db')
      BY <1>2, <2>1, <2>2, <2>4, Fields
      DEF TablesOK, References, DatasetRow, ReviewRow, Notification, NoRowIsNoRow,
          HasUser, HasCategory, HasDataset, HasReview
    <2>6. UniqueKeys(db')
      BY <1>2, <2>2, <2>4 DEF TablesOK, UniqueKeys, NoRowIsNoRow, HasUser, HasCategory
    <2>. QED BY <2>3, <2>5, <2>6 DEF TablesOK
  <1>. QED BY <1>1, <1>2 DEF UpdateReviewRow

\* ReviewRepo.Delete keeps them well-formed.
LEMMA DeleteReviewKeeps ==
  ASSUME TablesOK, NoRowIsNoRow, NEW v \in Review, NEW r, DeleteReviewRow(v, r)
  PROVE  TablesOK'
  <1>1. CASE UNCHANGED db
    BY <1>1 DEF TablesOK, References, UniqueKeys, Database
  <1>2. CASE /\ HasReview(v)
             /\ db' = [db EXCEPT !.reviews[v] = NoRow]
    <2>1. db \in Database BY DEF TablesOK
    <2>2. /\ db'.reviews = [db.reviews EXCEPT ![v] = NoRow]
          /\ db'.users = db.users
          /\ db'.categories = db.categories
          /\ db'.datasets = db.datasets
          /\ db'.subscriptions = db.subscriptions
          /\ db'.notifications = db.notifications
      BY <1>2, <2>1 DEF Database
    <2>3. db' \in Database
      BY <1>2, <2>1, Fields
      DEF Database, NoRowIsNoRow, DatasetRow, ReviewRow, HasDataset, HasReview
    <2>4. \A w \in Review : db'.reviews[w] = IF w = v THEN NoRow ELSE db.reviews[w]
      BY <2>1, <2>2, Fields DEF NoRowIsNoRow
    <2>5. References(db')
      BY <1>2, <2>1, <2>2, <2>4, Fields
      DEF TablesOK, References, DatasetRow, ReviewRow, Notification, NoRowIsNoRow,
          HasUser, HasCategory, HasDataset, HasReview
    <2>6. UniqueKeys(db')
      BY <1>2, <2>2, <2>4 DEF TablesOK, UniqueKeys, NoRowIsNoRow, HasUser, HasCategory
    <2>. QED BY <2>3, <2>5, <2>6 DEF TablesOK
  <1>. QED BY <1>1, <1>2 DEF DeleteReviewRow

\* SubscriptionRepo.Create keeps them well-formed.
LEMMA InsertSubscriptionKeeps ==
  ASSUME TablesOK, NoRowIsNoRow, NEW s \in User \X Dataset, NEW r, InsertSubscription(s, r)
  PROVE  TablesOK'
  <1>1. CASE UNCHANGED db
    BY <1>1 DEF TablesOK, References, UniqueKeys, Database
  <1>2. CASE /\ HasUser(s[1])
             /\ HasDataset(s[2])
             /\ db' = [db EXCEPT !.subscriptions = @ \cup {s}]
    <2>1. db \in Database BY DEF TablesOK
    <2>2. /\ db'.subscriptions = db.subscriptions \cup {s}
          /\ db'.users = db.users
          /\ db'.categories = db.categories
          /\ db'.datasets = db.datasets
          /\ db'.reviews = db.reviews
          /\ db'.notifications = db.notifications
      BY <1>2, <2>1 DEF Database
    <2>3. db' \in Database
      BY <1>2, <2>1, Fields
      DEF Database, NoRowIsNoRow, DatasetRow, ReviewRow, HasDataset, HasReview
    <2>5. References(db')
      BY <1>2, <2>1, <2>2, Fields
      DEF TablesOK, References, DatasetRow, ReviewRow, Notification, NoRowIsNoRow,
          HasUser, HasCategory, HasDataset, HasReview
    <2>6. UniqueKeys(db')
      BY <1>2, <2>2 DEF TablesOK, UniqueKeys, NoRowIsNoRow, HasUser, HasCategory
    <2>. QED BY <2>3, <2>5, <2>6 DEF TablesOK
  <1>. QED BY <1>1, <1>2 DEF InsertSubscription

\* SubscriptionRepo.Unsubscribe keeps them well-formed.
LEMMA DeleteSubscriptionKeeps ==
  ASSUME TablesOK, NoRowIsNoRow, NEW s \in User \X Dataset, NEW r, DeleteSubscription(s, r)
  PROVE  TablesOK'
  <1>1. CASE UNCHANGED db
    BY <1>1 DEF TablesOK, References, UniqueKeys, Database
  <1>2. CASE /\ IsSubscribed(s)
             /\ db' = [db EXCEPT !.subscriptions = @ \ {s}]
    <2>1. db \in Database BY DEF TablesOK
    <2>2. /\ db'.subscriptions = db.subscriptions \ {s}
          /\ db'.users = db.users
          /\ db'.categories = db.categories
          /\ db'.datasets = db.datasets
          /\ db'.reviews = db.reviews
          /\ db'.notifications = db.notifications
      BY <1>2, <2>1 DEF Database
    <2>3. db' \in Database
      BY <1>2, <2>1, Fields
      DEF Database, NoRowIsNoRow, DatasetRow, ReviewRow, HasDataset, HasReview
    <2>5. References(db')
      BY <1>2, <2>1, <2>2, Fields
      DEF TablesOK, References, DatasetRow, ReviewRow, Notification, NoRowIsNoRow,
          HasUser, HasCategory, HasDataset, HasReview
    <2>6. UniqueKeys(db')
      BY <1>2, <2>2 DEF TablesOK, UniqueKeys, NoRowIsNoRow, HasUser, HasCategory
    <2>. QED BY <2>3, <2>5, <2>6 DEF TablesOK
  <1>. QED BY <1>1, <1>2 DEF DeleteSubscription

\* NotificationRepo.Create keeps them well-formed.
LEMMA InsertNotificationKeeps ==
  ASSUME TablesOK, NoRowIsNoRow, NEW n \in Notification, NEW r, InsertNotification(n, r)
  PROVE  TablesOK'
  <1>1. CASE UNCHANGED db
    BY <1>1 DEF TablesOK, References, UniqueKeys, Database
  <1>2. CASE /\ HasUser(n.user)
             /\ HasDataset(n.dataset)
             /\ db' = [db EXCEPT !.notifications = @ \cup {n}]
    <2>1. db \in Database BY DEF TablesOK
    <2>2. /\ db'.notifications = db.notifications \cup {n}
          /\ db'.users = db.users
          /\ db'.categories = db.categories
          /\ db'.datasets = db.datasets
          /\ db'.reviews = db.reviews
          /\ db'.subscriptions = db.subscriptions
      BY <1>2, <2>1 DEF Database
    <2>3. db' \in Database
      BY <1>2, <2>1, Fields
      DEF Database, NoRowIsNoRow, DatasetRow, ReviewRow, HasDataset, HasReview
    <2>5. References(db')
      BY <1>2, <2>1, <2>2, Fields
      DEF TablesOK, References, DatasetRow, ReviewRow, Notification, NoRowIsNoRow,
          HasUser, HasCategory, HasDataset, HasReview
    <2>6. UniqueKeys(db')
      BY <1>2, <2>2 DEF TablesOK, UniqueKeys, NoRowIsNoRow, HasUser, HasCategory
    <2>. QED BY <2>3, <2>5, <2>6 DEF TablesOK
  <1>. QED BY <1>1, <1>2 DEF InsertNotification

\* NotificationRepo.Update keeps them well-formed.
LEMMA MarkNotificationKeeps ==
  ASSUME TablesOK, NoRowIsNoRow, NEW n \in Notification, NEW isRead, NEW r, MarkNotification(n, isRead, r)
  PROVE  TablesOK'
  <1>1. CASE UNCHANGED db
    BY <1>1 DEF TablesOK, References, UniqueKeys, Database
  <1>2. CASE /\ n \in db.notifications
             /\ db' = [db EXCEPT !.read = IF isRead THEN @ \cup {n} ELSE @ \ {n}]
    <2>1. db \in Database BY DEF TablesOK
    <2>2. /\ db'.users = db.users
          /\ db'.categories = db.categories
          /\ db'.datasets = db.datasets
          /\ db'.reviews = db.reviews
          /\ db'.subscriptions = db.subscriptions
          /\ db'.notifications = db.notifications
      BY <1>2, <2>1 DEF Database
    <2>3. db' \in Database
      BY <1>2, <2>1, Fields
      DEF Database, NoRowIsNoRow, DatasetRow, ReviewRow, HasDataset, HasReview
    <2>5. References(db')
      BY <1>2, <2>1, <2>2, Fields
      DEF TablesOK, References, DatasetRow, ReviewRow, Notification, NoRowIsNoRow,
          HasUser, HasCategory, HasDataset, HasReview
    <2>6. UniqueKeys(db')
      BY <1>2, <2>2 DEF TablesOK, UniqueKeys, NoRowIsNoRow, HasUser, HasCategory
    <2>. QED BY <2>3, <2>5, <2>6 DEF TablesOK
  <1>. QED BY <1>1, <1>2 DEF MarkNotification

-----------------------------------------------------------------------------
(* The requests.                                                           *)

\* The requests that write a whole row, and the rows of their table.
OnRows(o) == Resource(o) \in {"users", "categories", "datasets", "reviews"}
Changes(o) == Method(o) \in {"PATCH", "PUT"} /\ OnRows(o)

RowsOf(o) ==
  CASE Resource(o) = "users" -> UserRow
    [] Resource(o) = "categories" -> CategoryRow
    [] Resource(o) = "reviews" -> ReviewRow
    [] OTHER -> DatasetRow

\* Only some requests come to some steps.
Place(o, step) ==
  /\ step \in {"reload", "email"} => Method(o) \in {"PATCH", "PUT"}
  /\ step = "digest" => Resource(o) = "digest"
  /\ step \in {"collect", "own"} => Is(o, "POST", "notifications")
  /\ step = "own" => Api(o) = "v2"

\* What holds of a request at a step.
Ready(o, step) ==
  /\ Place(o, step)
  /\ Changes(o) /\ Method(o) = "PATCH" /\ step \in {"reload", "email", "write"} =>
       seen[o] \in RowsOf(o)
  /\ Changes(o) /\ step \in {"email", "write"} => loaded[o] \in RowsOf(o)
  /\ Is(o, "POST", "notifications") /\ Api(o) = "v2" /\ step \notin {"ready"} \cup Answer =>
       By(o) \in User

\* Requests that change nothing read no row, and a fan-out has users left to notify.
Reading(o) ==
  /\ seen[o] # NoRow \/ loaded[o] # NoRow => Changes(o)
  /\ Is(o, "POST", "notifications") => todo[o] \subseteq User
  /\ Is(o, "GET", "reviews") => todo[o] \subseteq Dataset

IInv == TypeOK /\ \A o \in traffic : Ready(o, pc[o]) /\ Reading(o)

-----------------------------------------------------------------------------
(* Requests and rows.                                                      *)

\* What the requests are, for those that come.
LEMMA Shapes ==
  ASSUME TypeOK, NEW o \in traffic
  PROVE  o \in Op /\ WellFormed(o)
  BY RequestsAssumption DEF TypeOK

\* The assumption on the tables keeps NoRow apart.
LEMMA NoRowApart == NoRowIsNoRow
  BY SeedAssumption DEF NoRowIsNoRow, AnyRow

\* The row of a request that changes one is of its table.
LEMMA RowTyped ==
  ASSUME TablesOK, NEW o, WellFormed(o), Changes(o)
  PROVE  Row(o) \in RowsOf(o) \cup {NoRow}
  <1>1. db \in Database BY DEF TablesOK
  <1>2. CASE Resource(o) = "users"
    BY <1>1, <1>2, Fields DEF WellFormed, Row, TableOf, RowsOf, Changes
  <1>3. CASE Resource(o) = "categories"
    BY <1>1, <1>3, Fields DEF WellFormed, Row, TableOf, RowsOf, Changes
  <1>4. CASE Resource(o) = "reviews"
    BY <1>1, <1>4, Fields DEF WellFormed, Row, TableOf, RowsOf, Changes
  <1>5. CASE Resource(o) = "datasets"
    BY <1>1, <1>5, Fields DEF WellFormed, Row, TableOf, RowsOf, Changes
  <1>. QED BY <1>2, <1>3, <1>4, <1>5 DEF Changes, OnRows

\* A row of the table of a request is a row, and has known columns.
LEMMA RowsAreRows ==
  ASSUME NEW o, NEW row \in RowsOf(o)
  PROVE  row \in AnyRow /\ row # NoRow /\ DOMAIN row \subseteq Column
  <1>1. row \in AnyRow BY DEF RowsOf, AnyRow
  <1>2. row # NoRow BY <1>1, SeedAssumption
  <1>3. DOMAIN row \subseteq Column
    BY DEF RowsOf, UserRow, CategoryRow, DatasetRow, ReviewRow, Column
  <1>. QED BY <1>1, <1>2, <1>3

\* The columns that change are known ones.
LEMMA ChangedTyped ==
  ASSUME TablesOK, NEW o, WellFormed(o), Changes(o)
  PROVE  Changed(o) \subseteq Column
  <1>1. CASE HasRow(o)
    <2>1. Row(o) \in RowsOf(o) BY <1>1, RowTyped DEF HasRow
    <2>2. DOMAIN Row(o) \subseteq Column BY <2>1, RowsAreRows
    <2>. QED BY <2>2 DEF Changed
  <1>2. CASE ~HasRow(o) BY <1>2 DEF Changed
  <1>. QED BY <1>1, <1>2

-----------------------------------------------------------------------------
(* Two kinds of steps.                                                     *)

\* A step that only reads and goes on.
LEMMA ReadStep ==
  ASSUME IInv, NEW o \in traffic, NEW s \in Step, Goto(o, s), Reads, Ready(o, s)
  PROVE  IInv'
  <1>1. /\ pc' = [pc EXCEPT ![o] = s]
        /\ UNCHANGED <<db, traffic, admins, seen, loaded, todo, shown, faults, wrote, stale, public, loyal>>
    BY DEF Goto, Reads, Keeps, histories
  <1>2. pc \in [traffic -> Step] BY DEF IInv, TypeOK
  <1>3. TypeOK'
    BY <1>1, <1>2 DEF IInv, TypeOK, TablesOK, References, UniqueKeys
  <1>4. \A p \in traffic : Ready(p, pc[p])' /\ Reading(p)'
    <2>. SUFFICES ASSUME NEW p \in traffic PROVE Ready(p, pc[p])' /\ Reading(p)' OBVIOUS
    <2>1. pc'[p] = IF p = o THEN s ELSE pc[p] BY <1>1, <1>2
    <2>. QED BY <1>1, <2>1 DEF IInv, Ready, Reading
  <1>. QED BY <1>1, <1>3, <1>4 DEF IInv

\* What a statement does to the histories is well-typed.
LEMMA FollowTyped ==
  ASSUME IInv, TablesOK', UNCHANGED traffic, NEW o \in traffic, NEW r, Follow(o, r)
  PROVE  /\ wrote' \subseteq traffic
         /\ stale' \in [traffic -> SUBSET Column]
         /\ public' \in [traffic -> SUBSET Dataset]
         /\ loyal' \in [traffic -> SUBSET User]
  <1>1. wrote' \subseteq traffic BY DEF Follow, IInv, TypeOK
  <1>2. stale' \in [traffic -> SUBSET Column]
    <2>1. ASSUME NEW p \in traffic, seen[p] # NoRow \/ loaded[p] # NoRow
          PROVE  Changed(p) \subseteq Column
      BY <2>1, Shapes, ChangedTyped DEF IInv, TypeOK, Reading
    <2>2. stale \in [traffic -> SUBSET Column] BY DEF IInv, TypeOK
    <2>. QED BY <2>1, <2>2 DEF Follow
  <1>3. public' \in [traffic -> SUBSET Dataset]
    BY DEF Follow, IInv, TypeOK, PublicDatasets, AllDatasets
  <1>4. loyal' \in [traffic -> SUBSET User]
    BY DEF Follow, IInv, TypeOK, SubscribersOf
  <1>. QED BY <1>1, <1>2, <1>3, <1>4

\* A step that executes a statement and goes on.
LEMMA WriteStep ==
  ASSUME IInv, TablesOK', NEW o \in traffic, NEW r, NEW s \in Step, Goto(o, s),
         Follow(o, r), Keeps, UNCHANGED <<seen, loaded>>,
         todo' \in [traffic -> SUBSET (User \cup Dataset)],
         \A p \in traffic : todo'[p] \subseteq todo[p],
         Ready(o, s)
  PROVE  IInv'
  <1>1. /\ pc' = [pc EXCEPT ![o] = s]
        /\ UNCHANGED <<traffic, admins, seen, loaded, shown, faults>>
    BY DEF Goto, Keeps
  <1>2. pc \in [traffic -> Step] BY DEF IInv, TypeOK
  <1>3. TypeOK'
    BY <1>1, <1>2, FollowTyped DEF IInv, TypeOK
  <1>4. \A p \in traffic : Ready(p, pc[p])' /\ Reading(p)'
    <2>. SUFFICES ASSUME NEW p \in traffic PROVE Ready(p, pc[p])' /\ Reading(p)' OBVIOUS
    <2>1. pc'[p] = IF p = o THEN s ELSE pc[p] BY <1>1, <1>2
    <2>. QED BY <1>1, <2>1 DEF IInv, Ready, Reading
  <1>. QED BY <1>1, <1>3, <1>4 DEF IInv

-----------------------------------------------------------------------------
(* Arguments of the statements.                                            *)

\* The number that stands for a subscription leads back to its user and its dataset,
\* because ids are positive and smaller than half of it.
THEOREM DecodeEncode ==
  \A u \in User, d \in Dataset : DecodeSubscriptionID(EncodeSubscriptionID(u, d)) = <<u, d>>
  <1>. SUFFICES ASSUME NEW u \in User, NEW d \in Dataset
                PROVE  DecodeSubscriptionID(EncodeSubscriptionID(u, d)) = <<u, d>>
    OBVIOUS
  <1>1. IdWidth \in Nat /\ u \in 1..(IdWidth - 1) /\ d \in 1..(IdWidth - 1)
    BY IdsAssumption DEF IdsFit
  <1>2. (u * IdWidth + d) \div IdWidth = u BY <1>1
  <1>3. (u * IdWidth + d) % IdWidth = d BY <1>1
  <1>. QED BY <1>2, <1>3 DEF DecodeSubscriptionID, EncodeSubscriptionID

\* A request on a subscription is about a user and a dataset.
LEMMA PairTyped ==
  ASSUME NEW o, WellFormed(o), Resource(o) = "subscriptions"
  PROVE  PairOf(o) \in User \X Dataset
  BY DecodeEncode DEF WellFormed, PairOf

\* What PATCH and PUT write is a row of the table.
LEMMA UpdatesTyped ==
  ASSUME IInv, NEW o \in traffic, Changes(o), At(o, "write")
  PROVE  /\ Resource(o) = "users" => UserUpdated(o) \in UserRow
         /\ Resource(o) = "categories" => CategoryUpdated(o) \in CategoryRow
         /\ Resource(o) = "datasets" => DatasetUpdated(o) \in DatasetRow
         /\ Resource(o) = "reviews" => ReviewUpdated(o) \in ReviewRow
  <1>1. WellFormed(o) BY Shapes DEF IInv
  <1>2. /\ loaded[o] \in RowsOf(o)
        /\ Method(o) = "PATCH" => seen[o] \in RowsOf(o)
    BY DEF IInv, Ready, At
  <1>3. (Api(o) = "v2" <=> Method(o) = "PATCH") /\ (Api(o) = "v1" <=> Method(o) = "PUT")
    BY <1>1 DEF WellFormed, Changes
  <1>4. ASSUME Resource(o) = "users" PROVE UserUpdated(o) \in UserRow
    <2>1. /\ loaded[o] \in UserRow
          /\ Method(o) = "PATCH" => seen[o] \in UserRow
          /\ Completes(o, UserRow)
          /\ Method(o) = "PUT" => "blocked" \in Asked(o)
      BY <1>1, <1>2, <1>4 DEF RowsOf, WellFormed, Changes
    <2>2. Filled(o, loaded[o]) \in UserRow /\ (Method(o) = "PATCH" => Filled(o, seen[o]) \in UserRow)
      BY <2>1 DEF Completes
    <2>3. "password" \in Asked(o) => Body(o).password \in Text
      BY <2>1, <2>2 DEF Filled, UserRow
    <2>4. "blocked" \in Asked(o) => Body(o).blocked \in BOOLEAN
      BY <2>1, <2>2 DEF Filled, UserRow
    <2>5. UserCommand(o) \in UserRow
      <3>1. ASSUME NEW row \in UserRow, NEW b \in BOOLEAN PROVE [row EXCEPT !.blocked = b] \in UserRow
        BY DEF UserRow
      <3>2. Method(o) = "PUT" => ("blocked" \in Asked(o) /\ Body(o).blocked) \in BOOLEAN
        OBVIOUS
      <3>. QED BY <1>3, <2>2, <3>1, <3>2 DEF UserCommand, Changes
    <2>. QED BY <2>1, <2>3, <2>5 DEF UserUpdated, UserRow
  <1>5. ASSUME Resource(o) = "categories" PROVE CategoryUpdated(o) \in CategoryRow
    BY <1>1, <1>2, <1>3, <1>5 DEF RowsOf, WellFormed, Changes, CategoryUpdated, Completes
  <1>6. ASSUME Resource(o) = "datasets" PROVE DatasetUpdated(o) \in DatasetRow
    BY <1>1, <1>2, <1>3, <1>6 DEF RowsOf, WellFormed, Changes, DatasetUpdated, Completes
  <1>7. ASSUME Resource(o) = "reviews" PROVE ReviewUpdated(o) \in ReviewRow
    BY <1>1, <1>2, <1>3, <1>7 DEF RowsOf, WellFormed, Changes, ReviewUpdated, Completes
  <1>. QED BY <1>4, <1>5, <1>6, <1>7

-----------------------------------------------------------------------------
(* Reading actions, one lemma for each kind.                               *)

\* Nothing is asked of a request that has its answer, or shows what it wrote.
LEMMA AnswerReady ==
  ASSUME NEW o, NEW s, s \in Answer \/ (s = "show" /\ Resource(o) # "notifications")
  PROVE  s \in Step /\ Ready(o, s)
  BY DEF Step, Answer, Ready, Place, Is

\* A row is shown.
LEMMA ShowRowStep ==
  ASSUME IInv, NEW o \in traffic, ShowRow(o)
  PROVE  IInv'
  <1>1. PICK s \in Answer : Goto(o, s) /\ Reads BY DEF ShowRow, Answer
  <1>. QED BY <1>1, AnswerReady, ReadStep

\* A handler reads its row.
LEMMA ReadRowStep ==
  ASSUME IInv, NEW o \in traffic, NEW check, NEW refusal, ReadRow(o, check, refusal),
         refusal \in {"reload", "write", "collect", "digest"},
         Place(o, refusal), OnRows(o) \/ Method(o) # "PATCH",
         Method(o) = "PATCH" => refusal = "reload",
         refusal = "write" => Method(o) = "DELETE"
  PROVE  IInv'
  <1>1. TypeOK /\ WellFormed(o) BY Shapes DEF IInv
  <1>2. PICK s \in {"notFound", "forbidden", refusal} :
          /\ Goto(o, s) /\ Keeps /\ UNCHANGED <<db, loaded, todo, histories>>
          /\ s = refusal => HasRow(o)
    BY DEF ReadRow
  <1>3. s \in Step BY DEF Step, Answer
  <1>4. CASE HasRow(o) /\ Method(o) = "PATCH"
    <2>1. Changes(o) /\ Row(o) \in RowsOf(o)
      BY <1>1, <1>4, RowTyped DEF Changes, TypeOK, HasRow
    <2>2. Row(o) \in AnyRow /\ Row(o) # NoRow BY <2>1, RowsAreRows
    <2>3. /\ seen' = [seen EXCEPT ![o] = Row(o)] /\ pc' = [pc EXCEPT ![o] = s]
          /\ UNCHANGED <<db, traffic, admins, loaded, todo, shown, faults, wrote, stale, public, loyal>>
      BY <1>2, <1>4 DEF ReadRow, Goto, Keeps, histories
    <2>4. pc \in [traffic -> Step] /\ seen \in [traffic -> AnyRow \cup {NoRow}]
      BY <1>1 DEF TypeOK
    <2>5. TypeOK'
      BY <1>1, <1>3, <2>2, <2>3, <2>4 DEF TypeOK, TablesOK, References, UniqueKeys
    <2>6. ASSUME NEW p \in traffic PROVE Ready(p, pc[p])' /\ Reading(p)'
      <3>1. CASE p = o
        <4>1. pc'[o] = s /\ seen'[o] = Row(o) BY <2>3, <2>4
        <4>2. Place(o, s) BY DEF Place
        <4>3. s \notin {"email", "write"} /\ ~Is(o, "POST", "notifications") /\ Method(o) # "GET"
          BY <1>4 DEF Is
        <4>. QED BY <2>1, <2>3, <3>1, <4>1, <4>2, <4>3 DEF Ready, Reading, Place, Is
      <3>2. CASE p # o
        BY <2>3, <2>4, <3>2 DEF IInv, Ready, Reading
      <3>. QED BY <3>1, <3>2
    <2>. QED BY <2>3, <2>5, <2>6 DEF IInv
  <1>5. CASE ~(HasRow(o) /\ Method(o) = "PATCH")
    <2>1. Reads BY <1>2, <1>5 DEF ReadRow, Reads
    <2>2. Method(o) = "PATCH" => s \in Answer BY <1>2, <1>5 DEF Answer
    <2>3. Is(o, "POST", "notifications") /\ Api(o) = "v2" => By(o) \in User
      BY DEF IInv, Ready, ReadRow, At, Answer
    <2>4. Ready(o, s)
      BY <1>1, <2>2, <2>3 DEF Ready, Place, Changes, WellFormed, Answer, Is
    <2>. QED BY <1>2, <1>3, <2>1, <2>4, ReadStep
  <1>. QED BY <1>4, <1>5

\* A service reads its row.
LEMMA ReloadRowStep ==
  ASSUME IInv, NEW o \in traffic, NEW next, NEW missing, ReloadRow(o, next, missing),
         next \in {"email", "write"}, missing \in Answer, OnRows(o)
  PROVE  IInv'
  <1>1. TypeOK /\ WellFormed(o) BY Shapes DEF IInv
  <1>2. /\ Changes(o)
        /\ Method(o) = "PATCH" => seen[o] \in RowsOf(o)
    BY DEF IInv, Ready, Place, ReloadRow, At, Changes
  <1>3. Method(o) \notin {"POST", "GET"} BY <1>2 DEF Changes
  <1>4. CASE HasRow(o)
    <2>1. Row(o) \in RowsOf(o) BY <1>1, <1>2, <1>4, RowTyped DEF TypeOK, HasRow
    <2>2. Row(o) \in AnyRow /\ Row(o) # NoRow BY <2>1, RowsAreRows
    <2>3. /\ loaded' = [loaded EXCEPT ![o] = Row(o)] /\ pc' = [pc EXCEPT ![o] = next]
          /\ UNCHANGED <<db, traffic, admins, seen, todo, shown, faults, wrote, stale, public, loyal>>
      BY <1>4 DEF ReloadRow, Goto, Keeps, histories
    <2>4. pc \in [traffic -> Step] /\ loaded \in [traffic -> AnyRow \cup {NoRow}] /\ next \in Step
      BY <1>1 DEF TypeOK, Step
    <2>5. TypeOK'
      BY <1>1, <2>2, <2>3, <2>4 DEF TypeOK, TablesOK, References, UniqueKeys
    <2>6. ASSUME NEW p \in traffic PROVE Ready(p, pc[p])' /\ Reading(p)'
      <3>1. CASE p = o
        <4>1. pc'[o] = next /\ loaded'[o] = Row(o) BY <2>3, <2>4
        <4>2. Place(o, next) BY <1>2 DEF Place, Changes
        <4>. QED BY <1>2, <1>3, <2>1, <2>3, <3>1, <4>1, <4>2 DEF Ready, Reading, Is
      <3>2. CASE p # o
        BY <2>3, <2>4, <3>2 DEF IInv, Ready, Reading
      <3>. QED BY <3>1, <3>2
    <2>. QED BY <2>3, <2>5, <2>6 DEF IInv
  <1>5. CASE ~HasRow(o)
    BY <1>5, AnswerReady, ReadStep DEF ReloadRow, Reads
  <1>. QED BY <1>4, <1>5

\* Something is shown.
LEMMA ShowsStep ==
  ASSUME IInv, NEW o \in traffic, NEW ds \in SUBSET Dataset, NEW s \in Step, Shows(o, ds, s),
         Ready(o, s)
  PROVE  IInv'
  <1>1. /\ shown' = [shown EXCEPT ![o] = ds] /\ pc' = [pc EXCEPT ![o] = s]
        /\ UNCHANGED <<db, traffic, admins, seen, loaded, todo, faults, wrote, stale, public, loyal>>
    BY DEF Shows, Goto, histories
  <1>2. pc \in [traffic -> Step] BY DEF IInv, TypeOK
  <1>3. TypeOK' BY <1>1, <1>2 DEF IInv, TypeOK, TablesOK, References, UniqueKeys
  <1>4. \A p \in traffic : Ready(p, pc[p])' /\ Reading(p)'
    BY <1>1, <1>2 DEF IInv, Ready, Reading
  <1>. QED BY <1>1, <1>3, <1>4 DEF IInv

\* A loop begins, or goes on.
LEMMA TodoStep ==
  ASSUME IInv, NEW o \in traffic, NEW s \in Step, Goto(o, s), Keeps,
         UNCHANGED <<db, seen, loaded, histories>>,
         todo' \in [traffic -> SUBSET (User \cup Dataset)],
         \A p \in traffic : p # o => todo'[p] = todo[p],
         Is(o, "POST", "notifications") => todo'[o] \subseteq User,
         Is(o, "GET", "reviews") => todo'[o] \subseteq Dataset,
         Ready(o, s)
  PROVE  IInv'
  <1>1. /\ pc' = [pc EXCEPT ![o] = s]
        /\ UNCHANGED <<db, traffic, admins, seen, loaded, shown, faults, wrote, stale, public, loyal>>
    BY DEF Goto, Keeps, histories
  <1>2. pc \in [traffic -> Step] BY DEF IInv, TypeOK
  <1>3. TypeOK' BY <1>1, <1>2 DEF IInv, TypeOK, TablesOK, References, UniqueKeys
  <1>4. \A p \in traffic : Ready(p, pc[p])' /\ Reading(p)'
    BY <1>1, <1>2 DEF IInv, Ready, Reading
  <1>. QED BY <1>1, <1>3, <1>4 DEF IInv

\* A statement is executed, and the request has its answer or shows what it wrote.
LEMMA DoneStep ==
  ASSUME IInv, TablesOK', NEW o \in traffic, NEW r, NEW steps, Done(o, r, steps),
         UNCHANGED <<seen, loaded, todo>>,
         steps[r] \in Answer \/ (steps[r] = "show" /\ Resource(o) # "notifications")
  PROVE  IInv'
  <1>1. steps[r] \in Step /\ Ready(o, steps[r]) BY AnswerReady
  <1>2. todo' \in [traffic -> SUBSET (User \cup Dataset)] /\ todo' = todo
    BY DEF IInv, TypeOK
  <1>3. Goto(o, steps[r]) /\ Follow(o, r) /\ Keeps BY DEF Done
  <1>. QED BY <1>1, <1>2, <1>3, WriteStep

-----------------------------------------------------------------------------
(* The actions.                                                            *)

\* Authentication: a fan-out of version 2 has an actor.
LEMMA ReceiveStep ==
  ASSUME IInv, NEW o \in traffic, Receive(o)
  PROVE  IInv'
  <1>1. TypeOK /\ WellFormed(o) BY Shapes DEF IInv
  <1>2. First(o) \in {"lookup", "reload", "read", "collect", "write", "list"}
    BY DEF First
  <1>3. PICK s \in {"unauthorized", "forbidden", First(o)} :
          Goto(o, s) /\ (s = First(o) => ~Protected(o) \/ By(o) \in User)
    <2>1. By(o) \in User \cup {Nobody} BY <1>1 DEF WellFormed
    <2>2. CASE Protected(o) /\ By(o) \notin User
      BY <1>2, <2>1, <2>2 DEF Receive
    <2>3. CASE ~Protected(o) \/ By(o) \in User
      <3>1. \E s \in {"unauthorized", "forbidden", First(o)} : Goto(o, s) BY Zenon DEF Receive
      <3>. QED BY <2>3, <3>1
    <2>. QED BY <2>2, <2>3
  <1>4. s \in Step BY <1>2 DEF Step, Answer
  <1>5. PublicDatasets \subseteq Dataset /\ SubscribersOf(On(o)) \subseteq User
    BY DEF PublicDatasets, AllDatasets, SubscribersOf
  <1>6. /\ pc' = [pc EXCEPT ![o] = s]
        /\ admins' \subseteq traffic
        /\ public' \in [traffic -> SUBSET Dataset] /\ loyal' \in [traffic -> SUBSET User]
        /\ UNCHANGED <<db, traffic, seen, loaded, todo, shown, faults, wrote, stale>>
    BY <1>1, <1>3, <1>5 DEF Receive, Goto, TypeOK
  <1>7. pc \in [traffic -> Step] BY <1>1 DEF TypeOK
  <1>8. TypeOK' BY <1>1, <1>4, <1>6, <1>7 DEF TypeOK, TablesOK, References, UniqueKeys
  <1>9. Ready(o, s)
    <2>1. CASE s \in Answer BY <2>1, AnswerReady
    <2>2. CASE s = First(o)
      <3>1. First(o) = "reload" => Method(o) = "PUT" BY DEF First, Is
      <3>2. First(o) = "collect" => Is(o, "POST", "notifications") BY DEF First, Is
      <3>3. First(o) = "write" => Method(o) \notin {"PATCH", "PUT"} BY DEF First, Is
      <3>4. Is(o, "POST", "notifications") /\ Api(o) = "v2" => Protected(o) BY DEF Protected, Is
      <3>. QED BY <1>3, <1>2, <2>2, <3>1, <3>2, <3>3, <3>4 DEF Ready, Place, Changes
    <2>. QED BY <2>1, <2>2 DEF Answer
  <1>10. \A p \in traffic : Ready(p, pc[p])' /\ Reading(p)'
    BY <1>6, <1>7, <1>9 DEF IInv, Ready, Reading
  <1>. QED BY <1>6, <1>8, <1>10 DEF IInv

\* Failing calls.
LEMMA CallFailsStep ==
  ASSUME IInv, NEW o \in traffic, CallFails(o)
  PROVE  IInv'
  <1>1. TypeOK BY DEF IInv
  <1>2. Failure(o) \in Answer \/ (Failure(o) = "each" /\ pc[o] = "each")
    BY DEF Failure, Answer
  <1>3. Failure(o) \in Step /\ Ready(o, Failure(o))
    BY <1>2, AnswerReady DEF Step, IInv
  <1>4. /\ pc' = [pc EXCEPT ![o] = Failure(o)]
        /\ faults' \in 0..MaxFaults
        /\ UNCHANGED <<db, traffic, admins, seen, loaded, shown, wrote, stale, public, loyal>>
    BY <1>1, FaultsAssumption DEF CallFails, Goto, histories, TypeOK
  <1>5. /\ todo' \in [traffic -> SUBSET (User \cup Dataset)]
        /\ \A p \in traffic : todo'[p] \subseteq todo[p]
    <2>1. todo \in [traffic -> SUBSET (User \cup Dataset)] BY <1>1 DEF TypeOK
    <2>2. CASE UNCHANGED todo BY <2>1, <2>2
    <2>3. CASE \E d \in todo[o] : todo' = [todo EXCEPT ![o] = @ \ {d}] BY <2>1, <2>3
    <2>. QED BY <2>2, <2>3 DEF CallFails
  <1>6. pc \in [traffic -> Step] BY <1>1 DEF TypeOK
  <1>7. TypeOK' BY <1>1, <1>3, <1>4, <1>5, <1>6 DEF TypeOK, TablesOK, References, UniqueKeys
  <1>8. \A p \in traffic : Ready(p, pc[p])' /\ Reading(p)'
    BY <1>3, <1>4, <1>5, <1>6 DEF IInv, Ready, Reading
  <1>. QED BY <1>4, <1>7, <1>8 DEF IInv

\* The operations on users.
LEMMA UsersStep ==
  ASSUME IInv, NEW o \in traffic, NextUsers(o)
  PROVE  IInv'
  <1>1. TablesOK /\ WellFormed(o) /\ NoRowIsNoRow BY Shapes, NoRowApart DEF IInv, TypeOK
  <1>2. CASE RegisterLookup(o)
    <2>1. PICK s \in {"write", "conflict"} : Goto(o, s) /\ Reads BY <1>2 DEF RegisterLookup
    <2>2. s \in Step /\ Ready(o, s)
      BY <1>2 DEF Step, Answer, Ready, Place, Changes, RegisterLookup, Is
    <2>. QED BY <2>1, <2>2, ReadStep
  <1>3. CASE RegisterWrite(o)
    <2>1. PICK r \in {"ok", "exists", "error"} :
            /\ InsertUser(On(o), Body(o), r)
            /\ Done(o, r, [ok |-> "show", exists |-> "conflict", error |-> "error"])
      BY <1>3 DEF RegisterWrite
    <2>2. TablesOK' BY <1>1, <1>3, <2>1, InsertUserKeeps DEF WellFormed, RegisterWrite, Is
    <2>. QED BY <1>3, <2>1, <2>2, DoneStep DEF RegisterWrite, Is, Answer
  <1>4. CASE ShowUser(o) BY <1>4, ShowRowStep DEF ShowUser
  <1>5. CASE ReadUser(o) BY <1>5, ReadRowStep DEF ReadUser, Is, Place, OnRows
  <1>6. CASE ReloadUser(o)
    <2>1. PICK next \in {"email", "write"} : ReloadRow(o, next, "error") BY <1>6 DEF ReloadUser
    <2>. QED BY <1>6, <2>1, ReloadRowStep DEF ReloadUser, OnRows, Answer
  <1>7. CASE CheckEmail(o)
    <2>1. PICK s \in {"write", "conflict"} : Goto(o, s) /\ Reads BY <1>7 DEF CheckEmail
    <2>2. s \in Step /\ Ready(o, s)
      BY <1>7 DEF Step, Answer, Ready, Place, CheckEmail, At, IInv, Is
    <2>. QED BY <2>1, <2>2, ReadStep
  <1>8. CASE WriteUser(o)
    <2>1. PICK r \in {"ok", "none", "error"} :
            /\ UpdateUserRow(On(o), UserUpdated(o), r)
            /\ Done(o, r, [ok |-> IF Api(o) = "v2" THEN "show" ELSE "ok",
                           none |-> "notFound", error |-> "error"])
      BY <1>8 DEF WriteUser
    <2>2. UserUpdated(o) \in UserRow BY <1>8, UpdatesTyped DEF WriteUser, Changes, OnRows
    <2>3. TablesOK' BY <1>1, <1>8, <2>1, <2>2, UpdateUserKeeps DEF WellFormed, WriteUser
    <2>. QED BY <1>8, <2>1, <2>3, DoneStep DEF WriteUser, Answer
  <1>9. CASE DeleteUser(o)
    <2>1. PICK r \in {"ok", "none", "error"} :
            /\ DeleteUserRow(On(o), r)
            /\ Done(o, r, [ok |-> "ok", none |-> "notFound", error |-> "error"])
      BY <1>9 DEF DeleteUser
    <2>2. TablesOK' BY <1>1, <1>9, <2>1, DeleteUserKeeps DEF WellFormed, DeleteUser, Is
    <2>. QED BY <1>9, <2>1, <2>2, DoneStep DEF DeleteUser, Answer
  <1>. QED BY <1>2, <1>3, <1>4, <1>5, <1>6, <1>7, <1>8, <1>9 DEF NextUsers

\* The operations on categories.
LEMMA CategoriesStep ==
  ASSUME IInv, NEW o \in traffic, NextCategories(o)
  PROVE  IInv'
  <1>1. TablesOK /\ WellFormed(o) /\ NoRowIsNoRow BY Shapes, NoRowApart DEF IInv, TypeOK
  <1>2. CASE CreateCategory(o)
    <2>1. PICK r \in {"ok", "exists"} :
            InsertCategory(On(o), Body(o), r) /\ Done(o, r, [ok |-> "show", exists |-> "conflict"])
      BY <1>2 DEF CreateCategory
    <2>2. TablesOK' BY <1>1, <1>2, <2>1, InsertCategoryKeeps DEF WellFormed, CreateCategory, Is
    <2>. QED BY <1>2, <2>1, <2>2, DoneStep DEF CreateCategory, Is, Answer
  <1>3. CASE ShowCategory(o) BY <1>3, ShowRowStep DEF ShowCategory
  <1>4. CASE ReadCategory(o) BY <1>4, ReadRowStep DEF ReadCategory, Is, Place, OnRows
  <1>5. CASE ReloadCategory(o) BY <1>5, ReloadRowStep DEF ReloadCategory, OnRows, Answer
  <1>6. CASE WriteCategory(o)
    <2>1. PICK r \in {"ok", "exists", "none"} :
            /\ UpdateCategoryRow(On(o), CategoryUpdated(o), r)
            /\ Done(o, r, [ok |-> IF Api(o) = "v2" THEN "show" ELSE "ok",
                           exists |-> "conflict", none |-> "notFound"])
      BY <1>6 DEF WriteCategory
    <2>2. CategoryUpdated(o) \in CategoryRow
      BY <1>6, UpdatesTyped DEF WriteCategory, Changes, OnRows
    <2>3. TablesOK' BY <1>1, <1>6, <2>1, <2>2, UpdateCategoryKeeps DEF WellFormed, WriteCategory
    <2>. QED BY <1>6, <2>1, <2>3, DoneStep DEF WriteCategory, Answer
  <1>7. CASE DeleteCategory(o)
    <2>1. PICK r \in {"ok", "notEmpty", "none"} :
            /\ DeleteCategoryRow(On(o), r)
            /\ Done(o, r, [ok |-> "ok", notEmpty |-> "error", none |-> "notFound"])
      BY <1>7 DEF DeleteCategory
    <2>2. TablesOK' BY <1>1, <1>7, <2>1, DeleteCategoryKeeps DEF WellFormed, DeleteCategory, Is
    <2>. QED BY <1>7, <2>1, <2>2, DoneStep DEF DeleteCategory, Answer
  <1>. QED BY <1>2, <1>3, <1>4, <1>5, <1>6, <1>7 DEF NextCategories

\* The operations on datasets.
LEMMA DatasetsStep ==
  ASSUME IInv, NEW o \in traffic, NextDatasets(o)
  PROVE  IInv'
  <1>1. TablesOK /\ WellFormed(o) /\ NoRowIsNoRow BY Shapes, NoRowApart DEF IInv, TypeOK
  <1>2. CASE ReadOwnDataset(o)
    BY <1>2, ReadRowStep DEF ReadOwnDataset, Is, Place, OnRows
  <1>3. CASE ReloadDataset(o) BY <1>3, ReloadRowStep DEF ReloadDataset, OnRows, Answer
  <1>4. CASE WriteDataset(o)
    <2>1. PICK r \in {"ok", "none", "error"} :
            /\ UpdateDatasetRow(On(o), DatasetUpdated(o), r)
            /\ Done(o, r, [ok |-> "show", none |-> "error", error |-> "error"])
      BY <1>4 DEF WriteDataset
    <2>2. DatasetUpdated(o) \in DatasetRow
      BY <1>4, UpdatesTyped DEF WriteDataset, Changes, OnRows, Is
    <2>3. TablesOK' BY <1>1, <1>4, <2>1, <2>2, UpdateDatasetKeeps DEF WellFormed, WriteDataset, Is
    <2>. QED BY <1>4, <2>1, <2>3, DoneStep DEF WriteDataset, Answer, Is
  <1>5. CASE ShowDataset(o) BY <1>5, ShowRowStep DEF ShowDataset
  <1>6. CASE DeleteDataset(o)
    <2>1. PICK r \in {"ok", "none"} :
            DeleteDatasetRow(On(o), r) /\ Done(o, r, [ok |-> "ok", none |-> "notFound"])
      BY <1>6 DEF DeleteDataset
    <2>2. TablesOK' BY <1>1, <1>6, <2>1, DeleteDatasetKeeps DEF WellFormed, DeleteDataset, Is
    <2>. QED BY <1>6, <2>1, <2>2, DoneStep DEF DeleteDataset, Answer
  <1>7. CASE ListDatasets(o)
    <2>1. PICK s \in {"ok", "ratings"} : Shows(o, Viewed(o), s) BY <1>7 DEF ListDatasets
    <2>2. Viewed(o) \subseteq Dataset
      BY DEF Viewed, Queried, DatasetsOf, PublicDatasets, AllDatasets
    <2>3. s \in Step /\ Ready(o, s)
      BY <1>7 DEF Step, Answer, Ready, Place, ListDatasets, Is
    <2>. QED BY <2>1, <2>2, <2>3, ShowsStep
  <1>8. CASE GetDataset(o)
    <2>1. CASE Shows(o, {On(o)}, "ratings")
      <3>1. "ratings" \in Step /\ Ready(o, "ratings") /\ On(o) \in Dataset
        BY <1>1, <1>8 DEF Step, Answer, Ready, Place, GetDataset, Is, WellFormed
      <3>. QED BY <2>1, <3>1, ShowsStep
    <2>2. CASE ~Shows(o, {On(o)}, "ratings")
      <3>1. PICK s \in {"notFound", "forbidden"} : Goto(o, s) /\ Reads BY <1>8, <2>2 DEF GetDataset
      <3>. QED BY <3>1, AnswerReady, ReadStep DEF Answer
    <2>. QED BY <2>1, <2>2
  <1>9. CASE Rate(o) BY <1>9, AnswerReady, ReadStep DEF Rate, Answer
  <1>10. CASE CheckDigest(o)
    BY <1>10, ReadRowStep DEF CheckDigest, Is, Place, OnRows
  <1>11. CASE Digest(o)
    <2>1. Resource(o) = "digest" /\ On(o) \in Dataset
      BY <1>1, <1>11 DEF Digest, At, IInv, Ready, Place, WellFormed
    <2>2. CASE HasRow(o)
      <3>1. "provider" \in Step /\ Ready(o, "provider")
        BY <2>1 DEF Step, Answer, Ready, Place, Is
      <3>. QED BY <1>11, <2>1, <2>2, <3>1, ShowsStep DEF Digest
    <2>3. CASE ~HasRow(o) BY <1>11, <2>3, AnswerReady, ReadStep DEF Digest, Answer
    <2>. QED BY <2>2, <2>3
  <1>12. CASE Provided(o) BY <1>12, AnswerReady, ReadStep DEF Provided, Answer
  <1>. QED BY <1>2, <1>3, <1>4, <1>5, <1>6, <1>7, <1>8, <1>9, <1>10, <1>11, <1>12 DEF NextDatasets

\* The operations on reviews, and their list.
LEMMA ReviewsStep ==
  ASSUME IInv, NEW o \in traffic, NextReviews(o)
  PROVE  IInv'
  <1>1. TablesOK /\ WellFormed(o) /\ NoRowIsNoRow /\ todo \in [traffic -> SUBSET (User \cup Dataset)]
    BY Shapes, NoRowApart DEF IInv, TypeOK
  <1>2. CASE CreateReview(o)
    <2>1. PICK r \in {"ok", "error"} :
            InsertReview(On(o), Body(o), r) /\ Done(o, r, [ok |-> "show", error |-> "error"])
      BY <1>2 DEF CreateReview
    <2>2. TablesOK' BY <1>1, <1>2, <2>1, InsertReviewKeeps DEF WellFormed, CreateReview, Is
    <2>. QED BY <1>2, <2>1, <2>2, DoneStep DEF CreateReview, Is, Answer
  <1>3. CASE ShowReview(o) BY <1>3, ShowRowStep DEF ShowReview
  <1>4. CASE ReadReview(o) BY <1>4, ReadRowStep DEF ReadReview, Is, Place, OnRows
  <1>5. CASE ReloadReview(o) BY <1>5, ReloadRowStep DEF ReloadReview, OnRows, Answer
  <1>6. CASE WriteReview(o)
    <2>1. PICK r \in {"ok", "none"} :
            /\ UpdateReviewRow(On(o), ReviewUpdated(o), r)
            /\ Done(o, r, [ok |-> IF Api(o) = "v2" THEN "show" ELSE "ok", none |-> "notFound"])
      BY <1>6 DEF WriteReview
    <2>2. ReviewUpdated(o) \in ReviewRow BY <1>6, UpdatesTyped DEF WriteReview, Changes, OnRows
    <2>3. TablesOK' BY <1>1, <1>6, <2>1, <2>2, UpdateReviewKeeps DEF WellFormed, WriteReview
    <2>. QED BY <1>6, <2>1, <2>3, DoneStep DEF WriteReview, Answer
  <1>7. CASE DeleteReview(o)
    <2>1. PICK r \in {"ok", "none"} :
            DeleteReviewRow(On(o), r) /\ Done(o, r, [ok |-> "ok", none |-> "notFound"])
      BY <1>7 DEF DeleteReview
    <2>2. TablesOK' BY <1>1, <1>7, <2>1, DeleteReviewKeeps DEF WellFormed, DeleteReview, Is
    <2>. QED BY <1>7, <2>1, <2>2, DoneStep DEF DeleteReview, Answer
  <1>8. CASE ListFiltered(o)
    <2>1. ReviewsAsked(o) \subseteq {v \in Review : HasReview(v)}
      BY DEF ReviewsAsked, ReviewsOf, ReviewsBy
    <2>2. \A v \in Review : HasReview(v) => db.reviews[v].dataset \in Dataset
      BY <1>1, Fields DEF TablesOK, HasReview, ReviewRow
    <2>3. {db.reviews[v].dataset : v \in ReviewsAsked(o)} \subseteq Dataset BY <2>1, <2>2
    <2>4. "ok" \in Step /\ Ready(o, "ok") BY AnswerReady DEF Answer
    <2>. QED BY <1>8, <2>3, <2>4, ShowsStep DEF ListFiltered
  <1>9. CASE ListReviewed(o)
    <2>1. PublicDatasets \subseteq Dataset BY DEF PublicDatasets, AllDatasets
    <2>2. todo' \in [traffic -> SUBSET (User \cup Dataset)] /\ todo'[o] = PublicDatasets
          /\ \A p \in traffic : p # o => todo'[p] = todo[p]
      BY <1>1, <1>9, <2>1 DEF ListReviewed
    <2>3. "each" \in Step /\ Ready(o, "each") /\ ~Is(o, "POST", "notifications")
      BY <1>9 DEF Step, Answer, Ready, Place, ListReviewed, Is
    <2>. QED BY <1>9, <2>1, <2>2, <2>3, TodoStep DEF ListReviewed
  <1>10. CASE ListReviews(o)
    <2>1. Is(o, "GET", "reviews") /\ ~Is(o, "POST", "notifications")
      BY <1>10 DEF ListReviews, Is
    <2>2. PICK d \in todo[o] :
            /\ todo' = [todo EXCEPT ![o] = @ \ {d}]
            /\ shown' = IF ReviewsOf(d) = {} THEN shown ELSE [shown EXCEPT ![o] = @ \cup {d}]
      BY <1>10 DEF ListReviews
    <2>3. d \in Dataset BY <2>1 DEF IInv, Reading
    <2>4. /\ todo' \in [traffic -> SUBSET (User \cup Dataset)]
          /\ \A p \in traffic : todo'[p] \subseteq todo[p]
      BY <1>1, <2>2
    <2>5. shown' \in [traffic -> SUBSET Dataset]
      BY <2>2, <2>3 DEF IInv, TypeOK
    <2>6. UNCHANGED <<db, traffic, pc, admins, seen, loaded, faults, wrote, stale, public, loyal>>
      BY <1>10 DEF ListReviews, histories
    <2>7. TypeOK' BY <2>4, <2>5, <2>6 DEF IInv, TypeOK, TablesOK, References, UniqueKeys
    <2>8. \A p \in traffic : Ready(p, pc[p])' /\ Reading(p)'
      BY <2>4, <2>6 DEF IInv, Ready, Reading
    <2>. QED BY <2>6, <2>7, <2>8 DEF IInv
  <1>11. CASE ReviewsListed(o) BY <1>11, AnswerReady, ReadStep DEF ReviewsListed, Answer
  <1>. QED BY <1>2, <1>3, <1>4, <1>5, <1>6, <1>7, <1>8, <1>9, <1>10, <1>11 DEF NextReviews

\* The operations on subscriptions.
LEMMA SubscriptionsStep ==
  ASSUME IInv, NEW o \in traffic, NextSubscriptions(o)
  PROVE  IInv'
  <1>1. TablesOK /\ WellFormed(o) /\ NoRowIsNoRow BY Shapes, NoRowApart DEF IInv, TypeOK
  <1>2. Resource(o) = "subscriptions"
    BY DEF NextSubscriptions, SubscribeLookup, SubscribeInsert, SubscribeShow,
           UnsubscribeLookup, UnsubscribeDelete, Is
  <1>3. PairOf(o) \in User \X Dataset BY <1>1, <1>2, PairTyped
  <1>4. \A s \in {"write"} \cup Answer : s \in Step /\ Ready(o, s)
    BY <1>2, AnswerReady DEF Step, Answer, Ready, Place, Changes, OnRows, Is
  <1>5. CASE SubscribeLookup(o) \/ SubscribeShow(o) \/ UnsubscribeLookup(o)
    <2>1. PICK s \in {"write"} \cup Answer : Goto(o, s) /\ Reads
      BY <1>5 DEF SubscribeLookup, SubscribeShow, UnsubscribeLookup, Answer
    <2>. QED BY <1>4, <2>1, ReadStep
  <1>6. CASE SubscribeInsert(o)
    <2>1. PICK r \in {"ok", "exists", "error"} :
            /\ InsertSubscription(PairOf(o), r)
            /\ Done(o, r, [ok |-> IF Api(o) = "v2" THEN "show" ELSE "ok",
                           exists |-> "conflict", error |-> "error"])
      BY <1>6 DEF SubscribeInsert
    <2>2. TablesOK' BY <1>1, <1>3, <2>1, InsertSubscriptionKeeps
    <2>. QED BY <1>2, <1>6, <2>1, <2>2, DoneStep DEF SubscribeInsert, Answer
  <1>7. CASE UnsubscribeDelete(o)
    <2>1. PICK r \in {"ok", "none"} :
            DeleteSubscription(PairOf(o), r) /\ Done(o, r, [ok |-> "ok", none |-> "notFound"])
      BY <1>7 DEF UnsubscribeDelete
    <2>2. TablesOK' BY <1>1, <1>3, <2>1, DeleteSubscriptionKeeps
    <2>. QED BY <1>7, <2>1, <2>2, DoneStep DEF UnsubscribeDelete, Answer
  <1>. QED BY <1>5, <1>6, <1>7 DEF NextSubscriptions

\* A request is a poster, so what it creates is a notification.
LEMMA NotificationTyped ==
  ASSUME NEW o \in Op, On(o) \in Dataset, NEW u \in User, NEW kind \in {"fanOut", "own"}
  PROVE  NotificationFor(o, u, kind) \in Notification
  BY RequestsAssumption DEF NotificationFor, Notification

\* The fan-out, the actor's own notification and the read flag.
LEMMA NotificationsStep ==
  ASSUME IInv, NEW o \in traffic, NextNotifications(o)
  PROVE  IInv'
  <1>1. TablesOK /\ WellFormed(o) /\ o \in Op /\ todo \in [traffic -> SUBSET (User \cup Dataset)]
    BY Shapes DEF IInv, TypeOK
  <1>2. CASE ReadNotified(o)
    BY <1>2, ReadRowStep DEF ReadNotified, Is, Place
  <1>3. CASE Collect(o)
    <2>1. Is(o, "POST", "notifications") /\ (Api(o) = "v2" => By(o) \in User)
      BY <1>3 DEF Collect, At, IInv, Ready, Place, Answer
    <2>2. SubscribersOf(On(o)) \subseteq User BY DEF SubscribersOf
    <2>3. todo' \in [traffic -> SUBSET (User \cup Dataset)] /\ todo'[o] = SubscribersOf(On(o))
          /\ \A p \in traffic : p # o => todo'[p] = todo[p]
      BY <1>1, <1>3, <2>2 DEF Collect
    <2>4. PICK s \in {"dependency", "each"} : Goto(o, s) BY <1>3 DEF Collect
    <2>5. s \in Step /\ Ready(o, s)
      BY <2>1 DEF Step, Answer, Ready, Place, Changes, Is
    <2>6. ~Is(o, "GET", "reviews") BY <2>1 DEF Is
    <2>. QED BY <1>3, <2>2, <2>3, <2>4, <2>5, <2>6, TodoStep DEF Collect
  <1>4. CASE Notify(o)
    <2>1. PICK u \in todo[o], r \in {"ok", "error"} :
            /\ InsertNotification(NotificationFor(o, u, "fanOut"), r)
            /\ todo' = IF r = "ok" THEN [todo EXCEPT ![o] = @ \ {u}] ELSE todo
            /\ Done(o, r, [ok |-> NextAfter(o, u), error |-> "error"])
      BY <1>4 DEF Notify
    <2>2. Is(o, "POST", "notifications") /\ (Api(o) = "v2" => By(o) \in User)
      BY <1>4 DEF Notify, At, IInv, Ready, Answer
    <2>3. u \in User /\ On(o) \in Dataset
      BY <1>1, <2>2 DEF IInv, Reading, WellFormed, Is
    <2>4. TablesOK'
      BY <1>1, <2>1, <2>3, NoRowApart, NotificationTyped, InsertNotificationKeeps
    <2>5. /\ todo' \in [traffic -> SUBSET (User \cup Dataset)]
          /\ \A p \in traffic : todo'[p] \subseteq todo[p]
      BY <1>1, <2>1
    <2>6. PICK s \in {"each", "own", "ok", "error"} :
            Goto(o, s) /\ Follow(o, r) /\ Keeps /\ (s = "own" => Api(o) = "v2")
      BY <2>1 DEF Done, NextAfter, AfterFanOut
    <2>7. s \in Step /\ Ready(o, s)
      BY <2>2, <2>6 DEF Step, Answer, Ready, Place, Changes, Is
    <2>. QED BY <1>4, <2>4, <2>5, <2>6, <2>7, WriteStep DEF Notify
  <1>5. CASE NotifyActor(o)
    <2>1. PICK r \in {"ok", "error"} :
            /\ InsertNotification(NotificationFor(o, By(o), "own"), r)
            /\ Done(o, r, [ok |-> "created", error |-> "error"])
      BY <1>5 DEF NotifyActor
    <2>2. Is(o, "POST", "notifications") /\ By(o) \in User
      BY <1>5 DEF NotifyActor, At, IInv, Ready, Place, Answer
    <2>3. On(o) \in Dataset BY <1>1, <2>2 DEF WellFormed, Is
    <2>4. TablesOK'
      BY <1>1, <2>1, <2>2, <2>3, NoRowApart, NotificationTyped, InsertNotificationKeeps
    <2>. QED BY <1>5, <2>1, <2>4, DoneStep DEF NotifyActor, Answer
  <1>6. CASE ReadFlagged(o) \/ ReloadFlagged(o) \/ ShowFlagged(o)
    <2>1. PICK s \in {"reload", "show", "write"} \cup Answer : Goto(o, s) /\ Reads
      BY <1>6 DEF ReadFlagged, ReloadFlagged, ShowFlagged, Answer
    <2>2. Method(o) = "PATCH" /\ Resource(o) = "notification"
      BY <1>6 DEF ReadFlagged, ReloadFlagged, ShowFlagged, Is
    <2>3. s \in Step /\ Ready(o, s)
      BY <2>2 DEF Step, Answer, Ready, Place, Changes, OnRows, Is
    <2>. QED BY <2>1, <2>3, ReadStep
  <1>7. CASE WriteFlag(o)
    <2>1. PICK r \in {"ok", "none"} :
            /\ MarkNotification(On(o), Body(o).read, r)
            /\ Done(o, r, [ok |-> "show", none |-> "notFound"])
      BY <1>7 DEF WriteFlag
    <2>2. On(o) \in Notification BY <1>1, <1>7 DEF WriteFlag, WellFormed, Is
    <2>3. TablesOK' BY <1>1, <2>1, <2>2, NoRowApart, MarkNotificationKeeps
    <2>. QED BY <1>7, <2>1, <2>3, DoneStep DEF WriteFlag, Answer, Is
  <1>. QED BY <1>2, <1>3, <1>4, <1>5, <1>6, <1>7 DEF NextNotifications

-----------------------------------------------------------------------------
(* The invariant.                                                          *)

\* It holds at the start.
LEMMA InitIInv == Init => IInv
  <1>. SUFFICES ASSUME Init PROVE IInv OBVIOUS
  <1>1. TablesOK BY SeedAssumption DEF Init, TablesOK
  <1>2. TypeOK
    BY <1>1, FaultsAssumption DEF Init, InitRequests, TypeOK, Step, AnyRow
  <1>3. ASSUME NEW o \in traffic PROVE Ready(o, pc[o]) /\ Reading(o)
    <2>1. pc[o] = "ready" /\ seen[o] = NoRow /\ loaded[o] = NoRow /\ todo[o] = {}
      BY DEF Init, InitRequests
    <2>. QED BY <2>1 DEF Ready, Place, Reading
  <1>. QED BY <1>2, <1>3 DEF IInv

\* Every step keeps it.
LEMMA NextIInv == IInv /\ [Next]_vars => IInv'
  <1>. SUFFICES ASSUME IInv, [Next]_vars PROVE IInv' OBVIOUS
  <1>1. CASE Next
    <2>1. PICK o \in traffic : Serve(o) BY <1>1 DEF Next
    <2>. QED BY <2>1, ReceiveStep, CallFailsStep, UsersStep, CategoriesStep, DatasetsStep,
                ReviewsStep, SubscriptionsStep, NotificationsStep DEF Serve
  <1>2. CASE UNCHANGED vars
    BY <1>2 DEF vars, histories, IInv, TypeOK, TablesOK, References, UniqueKeys, Ready, Reading
  <1>. QED BY <1>1, <1>2

\* The tables stay as the migrations promise, whatever interleaves: every reference
\* leads to a row and no unique value occurs twice.
THEOREM TypesAndTables == Spec => []TypeOK
  <1>1. IInv => TypeOK BY DEF IInv
  <1>. QED BY <1>1, InitIInv, NextIInv, PTL DEF Spec
=============================================================================
