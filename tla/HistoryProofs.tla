----------------------------- MODULE HistoryProofs -----------------------------
(***************************************************************************)
(* What requests come to, in view of what others did while they ran, for any *)
(* mixes of requests: the lost updates, conflicts and broken fan-outs of      *)
(* Community. The argument is that what has gone does not come back, since    *)
(* ids are drawn once.                                                      *)
(***************************************************************************)
EXTENDS SubscriptionProofs

\* The requests that add a row with an id of its own.
Creating(o) == Method(o) = "POST" /\ Resource(o) \in {"users", "categories", "reviews"}

\* A row is not there before the request that creates it has written, which it does once.
Fresh(o) ==
  Creating(o) =>
    /\ o \in wrote => pc[o] \in {"show"} \cup Answer
    /\ o \notin wrote => Row(o) = NoRow

AllFresh == \A o \in traffic : Fresh(o)

-----------------------------------------------------------------------------
(* Rows that come and go.                                                  *)

\* A user who appears has been registered by the step.
LEMMA UsersAppear ==
  ASSUME IInv, NEW o \in traffic, Serve(o), NEW u \in User, ~HasUser(u), HasUser(u)'
  PROVE  RegisterWrite(o) /\ On(o) = u /\ o \in wrote'
  <1>1. db \in Database /\ db.users \in [User -> UserRow \cup {NoRow}] /\ WellFormed(o)
    BY Shapes, Fields DEF IInv, TypeOK, TablesOK
  <1>2. Statement(o) BY Kinds DEF Quiet, HasUser
  <1>3. CASE RegisterWrite(o)
    <2>1. PICK r \in {"ok", "exists", "error"} :
            /\ InsertUser(On(o), Body(o), r)
            /\ Done(o, r, [ok |-> "show", exists |-> "conflict", error |-> "error"])
      BY <1>3 DEF RegisterWrite
    <2>2. r = "ok" BY <2>1 DEF InsertUser, HasUser
    <2>3. db'.users = [db.users EXCEPT ![On(o)] = Body(o)]
      BY <1>1, <2>1, <2>2 DEF InsertUser, Database
    <2>. QED BY <1>1, <1>3, <2>1, <2>2, <2>3 DEF HasUser, Done, Follow
  <1>4. ~WriteUser(o)
    <2>1. SUFFICES ASSUME WriteUser(o) PROVE FALSE OBVIOUS
    <2>2. PICK r : UpdateUserRow(On(o), UserUpdated(o), r) BY <2>1 DEF WriteUser
    <2>3. \/ UNCHANGED db
          \/ HasUser(On(o)) /\ db'.users = [db.users EXCEPT ![On(o)] = UserUpdated(o)]
      BY <1>1, <2>2 DEF UpdateUserRow, Database
    <2>. QED BY <1>1, <2>3 DEF HasUser
  <1>5. ~DeleteUser(o)
    <2>1. SUFFICES ASSUME DeleteUser(o) PROVE FALSE OBVIOUS
    <2>2. PICK r : DeleteUserRow(On(o), r) BY <2>1 DEF DeleteUser
    <2>3. UNCHANGED db \/ db'.users = [db.users EXCEPT ![On(o)] = NoRow]
      BY <1>1, <2>2 DEF DeleteUserRow, Database
    <2>. QED BY <1>1, <2>3 DEF HasUser
  <1>6. db'.users # db.users BY DEF HasUser
  <1>7. ~(CreateCategory(o) \/ WriteCategory(o) \/ DeleteCategory(o))
    BY <1>1, <1>6 DEF CreateCategory, WriteCategory, DeleteCategory, InsertCategory,
                      UpdateCategoryRow, DeleteCategoryRow, Database
  <1>8. ~(WriteDataset(o) \/ DeleteDataset(o))
    BY <1>1, <1>6 DEF WriteDataset, DeleteDataset, UpdateDatasetRow, DeleteDatasetRow, Database
  <1>9. ~(CreateReview(o) \/ WriteReview(o) \/ DeleteReview(o))
    BY <1>1, <1>6 DEF CreateReview, WriteReview, DeleteReview, InsertReview,
                      UpdateReviewRow, DeleteReviewRow, Database
  <1>10. ~(Notify(o) \/ NotifyActor(o) \/ WriteFlag(o))
    BY <1>1, <1>6 DEF Notify, NotifyActor, WriteFlag, InsertNotification, MarkNotification, Database
  <1>11. ~(SubscribeInsert(o) \/ UnsubscribeDelete(o))
    BY <1>1, <1>6 DEF SubscribeInsert, UnsubscribeDelete, InsertSubscription,
                      DeleteSubscription, Database
  <1>. QED BY <1>2, <1>3, <1>4, <1>5, <1>7, <1>8, <1>9, <1>10, <1>11 DEF Statement

\* The same for categories.
LEMMA CategoriesAppear ==
  ASSUME IInv, NEW o \in traffic, Serve(o), NEW c \in Category, ~HasCategory(c), HasCategory(c)'
  PROVE  CreateCategory(o) /\ On(o) = c /\ o \in wrote'
  <1>1. db \in Database /\ db.categories \in [Category -> CategoryRow \cup {NoRow}] /\ WellFormed(o)
    BY Shapes, Fields DEF IInv, TypeOK, TablesOK
  <1>2. Statement(o) BY Kinds DEF Quiet, HasCategory
  <1>3. CASE CreateCategory(o)
    <2>1. PICK r \in {"ok", "exists"} :
            /\ InsertCategory(On(o), Body(o), r)
            /\ Done(o, r, [ok |-> "show", exists |-> "conflict"])
      BY <1>3 DEF CreateCategory
    <2>2. r = "ok" BY <2>1 DEF InsertCategory, HasCategory
    <2>3. db'.categories = [db.categories EXCEPT ![On(o)] = Body(o)]
      BY <1>1, <2>1, <2>2 DEF InsertCategory, Database
    <2>. QED BY <1>1, <1>3, <2>1, <2>2, <2>3 DEF HasCategory, Done, Follow
  <1>4. ~WriteCategory(o)
    <2>1. SUFFICES ASSUME WriteCategory(o) PROVE FALSE OBVIOUS
    <2>2. PICK r : UpdateCategoryRow(On(o), CategoryUpdated(o), r) BY <2>1 DEF WriteCategory
    <2>3. \/ UNCHANGED db
          \/ HasCategory(On(o)) /\ db'.categories = [db.categories EXCEPT ![On(o)] = CategoryUpdated(o)]
      BY <1>1, <2>2 DEF UpdateCategoryRow, Database
    <2>. QED BY <1>1, <2>3 DEF HasCategory
  <1>5. ~DeleteCategory(o)
    <2>1. SUFFICES ASSUME DeleteCategory(o) PROVE FALSE OBVIOUS
    <2>2. PICK r : DeleteCategoryRow(On(o), r) BY <2>1 DEF DeleteCategory
    <2>3. UNCHANGED db \/ db'.categories = [db.categories EXCEPT ![On(o)] = NoRow]
      BY <1>1, <2>2 DEF DeleteCategoryRow, Database
    <2>. QED BY <1>1, <2>3 DEF HasCategory
  <1>6. db'.categories # db.categories BY DEF HasCategory
  <1>7. ~(RegisterWrite(o) \/ WriteUser(o) \/ DeleteUser(o))
    BY <1>1, <1>6 DEF RegisterWrite, WriteUser, DeleteUser, InsertUser, UpdateUserRow,
                      DeleteUserRow, Database
  <1>8. ~(WriteDataset(o) \/ DeleteDataset(o))
    BY <1>1, <1>6 DEF WriteDataset, DeleteDataset, UpdateDatasetRow, DeleteDatasetRow, Database
  <1>9. ~(CreateReview(o) \/ WriteReview(o) \/ DeleteReview(o))
    BY <1>1, <1>6 DEF CreateReview, WriteReview, DeleteReview, InsertReview,
                      UpdateReviewRow, DeleteReviewRow, Database
  <1>10. ~(Notify(o) \/ NotifyActor(o) \/ WriteFlag(o))
    BY <1>1, <1>6 DEF Notify, NotifyActor, WriteFlag, InsertNotification, MarkNotification, Database
  <1>11. ~(SubscribeInsert(o) \/ UnsubscribeDelete(o))
    BY <1>1, <1>6 DEF SubscribeInsert, UnsubscribeDelete, InsertSubscription,
                      DeleteSubscription, Database
  <1>. QED BY <1>2, <1>3, <1>4, <1>5, <1>7, <1>8, <1>9, <1>10, <1>11 DEF Statement

\* The same for reviews; the deletes of users and datasets take some along.
LEMMA ReviewsAppear ==
  ASSUME IInv, NEW o \in traffic, Serve(o), NEW v \in Review, ~HasReview(v), HasReview(v)'
  PROVE  CreateReview(o) /\ On(o) = v /\ o \in wrote'
  <1>1. db \in Database /\ db.reviews \in [Review -> ReviewRow \cup {NoRow}] /\ WellFormed(o)
    BY Shapes, Fields DEF IInv, TypeOK, TablesOK
  <1>2. Statement(o) BY Kinds DEF Quiet, HasReview
  <1>3. CASE CreateReview(o)
    <2>1. PICK r \in {"ok", "error"} :
            /\ InsertReview(On(o), Body(o), r)
            /\ Done(o, r, [ok |-> "show", error |-> "error"])
      BY <1>3 DEF CreateReview
    <2>2. r = "ok" BY <2>1 DEF InsertReview, HasReview
    <2>3. db'.reviews = [db.reviews EXCEPT ![On(o)] = Body(o)]
      BY <1>1, <2>1, <2>2 DEF InsertReview, Database
    <2>. QED BY <1>1, <1>3, <2>1, <2>2, <2>3 DEF HasReview, Done, Follow
  <1>4. ~WriteReview(o)
    <2>1. SUFFICES ASSUME WriteReview(o) PROVE FALSE OBVIOUS
    <2>2. PICK r : UpdateReviewRow(On(o), ReviewUpdated(o), r) BY <2>1 DEF WriteReview
    <2>3. \/ UNCHANGED db
          \/ HasReview(On(o)) /\ \E row : db'.reviews = [db.reviews EXCEPT ![On(o)] = row]
      BY <1>1, <2>2 DEF UpdateReviewRow, Database
    <2>. QED BY <1>1, <2>3 DEF HasReview
  <1>5. ~DeleteReview(o)
    <2>1. SUFFICES ASSUME DeleteReview(o) PROVE FALSE OBVIOUS
    <2>2. PICK r : DeleteReviewRow(On(o), r) BY <2>1 DEF DeleteReview
    <2>3. UNCHANGED db \/ db'.reviews = [db.reviews EXCEPT ![On(o)] = NoRow]
      BY <1>1, <2>2 DEF DeleteReviewRow, Database
    <2>. QED BY <1>1, <2>3 DEF HasReview
  <1>6. ~DeleteUser(o)
    <2>1. SUFFICES ASSUME DeleteUser(o) PROVE FALSE OBVIOUS
    <2>2. PICK r : DeleteUserRow(On(o), r) BY <2>1 DEF DeleteUser
    <2>3. \/ UNCHANGED db
          \/ db'.reviews = [w \in Review |->
               IF HasReview(w) /\ db.reviews[w].user = On(o) THEN NoRow ELSE db.reviews[w]]
      BY <1>1, <2>2 DEF DeleteUserRow, Database
    <2>. QED BY <1>1, <2>3 DEF HasReview
  <1>7. ~DeleteDataset(o)
    <2>1. SUFFICES ASSUME DeleteDataset(o) PROVE FALSE OBVIOUS
    <2>2. PICK r : DeleteDatasetRow(On(o), r) BY <2>1 DEF DeleteDataset
    <2>3. \/ UNCHANGED db
          \/ db'.reviews = [w \in Review |->
               IF HasReview(w) /\ db.reviews[w].dataset = On(o) THEN NoRow ELSE db.reviews[w]]
      BY <1>1, <2>2 DEF DeleteDatasetRow, Database
    <2>. QED BY <1>1, <2>3 DEF HasReview
  <1>8. db'.reviews # db.reviews BY DEF HasReview
  <1>9. ~(RegisterWrite(o) \/ WriteUser(o))
    BY <1>1, <1>8 DEF RegisterWrite, WriteUser, InsertUser, UpdateUserRow, Database
  <1>10. ~(CreateCategory(o) \/ WriteCategory(o) \/ DeleteCategory(o))
    BY <1>1, <1>8 DEF CreateCategory, WriteCategory, DeleteCategory, InsertCategory,
                      UpdateCategoryRow, DeleteCategoryRow, Database
  <1>11. ~WriteDataset(o) BY <1>1, <1>8 DEF WriteDataset, UpdateDatasetRow, Database
  <1>12. ~(Notify(o) \/ NotifyActor(o) \/ WriteFlag(o))
    BY <1>1, <1>8 DEF Notify, NotifyActor, WriteFlag, InsertNotification, MarkNotification, Database
  <1>13. ~(SubscribeInsert(o) \/ UnsubscribeDelete(o))
    BY <1>1, <1>8 DEF SubscribeInsert, UnsubscribeDelete, InsertSubscription,
                      DeleteSubscription, Database
  <1>. QED BY <1>2, <1>3, <1>4, <1>5, <1>6, <1>7, <1>9, <1>10, <1>11, <1>12, <1>13 DEF Statement

\* The row of a request appears only by the request that creates it.
LEMMA RowsAppear ==
  ASSUME IInv, NEW o \in traffic, Serve(o), NEW p \in traffic, OnRows(p),
         Method(p) # "GET", ~HasRow(p), HasRow(p)'
  PROVE  /\ RegisterWrite(o) \/ CreateCategory(o) \/ CreateReview(o)
         /\ Resource(o) = Resource(p) /\ On(o) = On(p) /\ Creating(o) /\ o \in wrote'
  <1>1. WellFormed(p) BY Shapes DEF IInv
  <1>2. CASE Resource(p) = "users"
    <2>1. On(p) \in User /\ ~HasUser(On(p)) /\ HasUser(On(p))'
      BY <1>1, <1>2 DEF WellFormed, HasRow, Row, TableOf, HasUser
    <2>. QED BY <1>2, <2>1, UsersAppear DEF Creating, RegisterWrite, Is
  <1>3. CASE Resource(p) = "categories"
    <2>1. On(p) \in Category /\ ~HasCategory(On(p)) /\ HasCategory(On(p))'
      BY <1>1, <1>3 DEF WellFormed, HasRow, Row, TableOf, HasCategory
    <2>. QED BY <1>3, <2>1, CategoriesAppear DEF Creating, CreateCategory, Is
  <1>4. CASE Resource(p) = "reviews"
    <2>1. On(p) \in Review /\ ~HasReview(On(p)) /\ HasReview(On(p))'
      BY <1>1, <1>4 DEF WellFormed, HasRow, Row, TableOf, HasReview
    <2>. QED BY <1>4, <2>1, ReviewsAppear DEF Creating, CreateReview, Is
  <1>5. CASE Resource(p) = "datasets"
    <2>1. On(p) \in Dataset /\ ~HasDataset(On(p)) /\ HasDataset(On(p))'
      BY <1>1, <1>5 DEF WellFormed, HasRow, Row, TableOf, HasDataset
    <2>. QED BY <1>5, <2>1, OwnersStay
  <1>. QED BY <1>2, <1>3, <1>4, <1>5 DEF OnRows

\* A request that shows what it wrote answers next.
LEMMA FromShow ==
  ASSUME IInv, NEW o \in traffic, Serve(o), pc[o] = "show"
  PROVE  pc'[o] \in Answer
  <1>1. pc \in [traffic -> Step] BY DEF IInv, TypeOK
  <1>2. CASE CallFails(o) BY <1>1, <1>2 DEF CallFails, Failure, Goto, Answer
  <1>3. ~Receive(o) BY DEF Receive, At
  <1>4. CASE NextUsers(o)
    BY <1>1, <1>4 DEF NextUsers, RegisterLookup, RegisterWrite, ShowUser, ReadUser, ReloadUser,
         CheckEmail, WriteUser, DeleteUser, ShowRow, ReadRow, ReloadRow, At, Goto, Answer
  <1>5. CASE NextCategories(o)
    BY <1>1, <1>5 DEF NextCategories, CreateCategory, ShowCategory, ReadCategory, ReloadCategory,
         WriteCategory, DeleteCategory, ShowRow, ReadRow, ReloadRow, At, Goto, Answer
  <1>6. CASE NextDatasets(o)
    BY <1>1, <1>6 DEF NextDatasets, ReadOwnDataset, ReloadDataset, WriteDataset, ShowDataset,
         DeleteDataset, ListDatasets, GetDataset, Rate, CheckDigest, Digest, Provided,
         ShowRow, ReadRow, ReloadRow, At, Goto, Answer
  <1>7. CASE NextReviews(o)
    BY <1>1, <1>7 DEF NextReviews, CreateReview, ShowReview, ReadReview, ReloadReview,
         WriteReview, DeleteReview, ListFiltered, ListReviewed, ListReviews, ReviewsListed,
         ShowRow, ReadRow, ReloadRow, At, Goto, Answer
  <1>8. CASE NextSubscriptions(o)
    BY <1>1, <1>8 DEF NextSubscriptions, SubscribeLookup, SubscribeInsert, SubscribeShow,
         UnsubscribeLookup, UnsubscribeDelete, At, Goto, Answer
  <1>9. CASE NextNotifications(o)
    BY <1>1, <1>9 DEF NextNotifications, ReadNotified, Collect, Notify, NotifyActor, ReadFlagged,
         ReloadFlagged, WriteFlag, ShowFlagged, ReadRow, At, Goto, Answer
  <1>. QED BY <1>2, <1>3, <1>4, <1>5, <1>6, <1>7, <1>8, <1>9 DEF Serve

\* What a request that creates a row executes.
LEMMA CreatingStatement ==
  ASSUME IInv, NEW o \in traffic, Statement(o), Creating(o)
  PROVE  RegisterWrite(o) \/ CreateCategory(o) \/ CreateReview(o)
  <1>1. ~NotifyActor(o) BY DEF NotifyActor, At, IInv, Ready, Place, Is, Creating
  <1>. QED
    BY <1>1 DEF Creating, Statement, WriteUser, DeleteUser, WriteCategory, DeleteCategory,
           WriteDataset, DeleteDataset, WriteReview, DeleteReview, SubscribeInsert,
           UnsubscribeDelete, Notify, WriteFlag, Is

\* Where the three statements lead.
LEMMA AfterCreating ==
  ASSUME IInv, NEW o \in traffic, RegisterWrite(o) \/ CreateCategory(o) \/ CreateReview(o)
  PROVE  /\ pc[o] = "write" /\ pc'[o] \in {"show", "conflict", "error"}
         /\ Creating(o)
  <1>1. pc \in [traffic -> Step] BY DEF IInv, TypeOK
  <1>. QED BY <1>1 DEF RegisterWrite, CreateCategory, CreateReview, At, Done, Goto, Creating, Is

\* Rows are drawn by one request each.
LEMMA InitFresh == Init => AllFresh
  <1>. SUFFICES ASSUME Init, NEW o \in traffic, Creating(o) PROVE Fresh(o)
    BY DEF AllFresh, Fresh
  <1>1. o \in Op /\ wrote = {} /\ db = Seed
    BY RequestsAssumption DEF Init, InitRequests
  <1>2. Row(o) = NoRow
    BY <1>1, RequestsAssumption DEF FreshIds, Creates, Creating, Row, TableOf, Is
  <1>. QED BY <1>1, <1>2 DEF Fresh

\* Every step keeps that.
LEMMA NextFresh ==
  ASSUME IInv, AllFresh, [Next]_vars
  PROVE  AllFresh'
  <1>1. CASE UNCHANGED vars
    BY <1>1 DEF vars, histories, AllFresh, Fresh, Row, TableOf
  <1>2. ASSUME NEW o \in traffic, Serve(o) PROVE AllFresh'
    <2>1. /\ traffic' = traffic /\ pc[o] \notin Answer
          /\ wrote' = wrote \/ wrote' = wrote \cup {o}
      BY <1>2, StepShape
    <2>2. PICK s : pc' = [pc EXCEPT ![o] = s] BY <1>2, StepShape
    <2>3. pc \in [traffic -> Step] BY DEF IInv, TypeOK
    <2>4. ASSUME NEW p \in traffic, Creating(p), p \in wrote'
          PROVE  pc'[p] \in {"show"} \cup Answer
      <3>1. CASE p # o BY <2>1, <2>2, <2>3, <2>4, <3>1 DEF AllFresh, Fresh
      <3>2. CASE p = o /\ o \in wrote
        BY <1>2, <2>1, <2>4, <3>2, FromShow DEF AllFresh, Fresh
      <3>3. CASE p = o /\ o \notin wrote
        <4>1. Statement(o) BY <1>2, <2>4, <3>3, Kinds DEF Quiet
        <4>. QED BY <2>4, <3>3, <4>1, CreatingStatement, AfterCreating DEF Answer
      <3>. QED BY <3>1, <3>2, <3>3
    <2>5. ASSUME NEW p \in traffic, Creating(p), p \notin wrote'
          PROVE  Row(p)' = NoRow
      <3>1. p \notin wrote /\ ~HasRow(p)
        BY <2>1, <2>5 DEF AllFresh, Fresh, HasRow
      <3>2. SUFFICES ASSUME HasRow(p)' PROVE FALSE BY DEF HasRow
      <3>3. /\ Creating(o) /\ o \in wrote'
            /\ Resource(o) = Resource(p) /\ On(o) = On(p)
        BY <1>2, <2>5, <3>1, <3>2, RowsAppear DEF Creating, OnRows
      <3>4. o \in Op /\ p \in Op BY Shapes DEF IInv
      <3>. QED BY <2>5, <3>3, <3>4, RequestsAssumption DEF FreshIds, Creating
    <2>. QED BY <2>1, <2>4, <2>5 DEF AllFresh, Fresh
  <1>. QED BY <1>1, <1>2 DEF Next

\* Once there has been a row, it does not come back.
Drawn(resource, id) ==
  \A p \in traffic : Creating(p) /\ Resource(p) = resource /\ On(p) = id => p \in wrote

\* A row that is there has been drawn, and that is for good.
LEMMA RowsAreDrawn ==
  ASSUME AllFresh, NEW o, OnRows(o), HasRow(o)
  PROVE  Drawn(Resource(o), On(o))
  BY DEF AllFresh, Fresh, Drawn, HasRow, Row, TableOf, Creating

LEMMA DrawnStays ==
  ASSUME IInv, NEW o \in traffic, Serve(o), NEW resource, NEW id, Drawn(resource, id)
  PROVE  Drawn(resource, id)'
  BY StepShape DEF Drawn

\* A row that has gone stays away.
LEMMA GoneStaysGone ==
  ASSUME IInv, AllFresh, NEW o \in traffic, Serve(o), NEW p \in traffic, OnRows(p),
         Method(p) # "GET", Drawn(Resource(p), On(p)), ~HasRow(p)
  PROVE  ~HasRow(p)'
  <1>. SUFFICES ASSUME HasRow(p)' PROVE FALSE OBVIOUS
  <1>1. /\ RegisterWrite(o) \/ CreateCategory(o) \/ CreateReview(o)
        /\ Resource(o) = Resource(p) /\ On(o) = On(p) /\ Creating(o)
    BY RowsAppear
  <1>2. o \in wrote BY <1>1 DEF Drawn
  <1>. QED BY <1>1, <1>2, AfterCreating DEF AllFresh, Fresh, Answer

-----------------------------------------------------------------------------
(* What a request has read, and what has changed since.                    *)

\* A row that was read is there as it was, but for the columns known to have changed.
Accounts(o, row) ==
  /\ Drawn(Resource(o), On(o))
  /\ HasRow(o) => \A f \in DOMAIN Row(o) : Row(o)[f] = row[f] \/ f \in stale[o]

\* It holds of the rows from which a request fills what it writes.
Tracked(o) ==
  Changes(o) =>
    /\ pc[o] \in {"reload", "email", "write"} /\ Method(o) = "PATCH" => Accounts(o, seen[o])
    /\ pc[o] \in {"email", "write"} => Accounts(o, loaded[o])
    /\ pc[o] = "email" => EmailChanges(o, loaded[o])

AllTracked == \A o \in traffic : Tracked(o)

\* A step reads rows for its own request.
LEMMA OthersRead ==
  ASSUME IInv, NEW o \in traffic, Serve(o), NEW p \in traffic, p # o
  PROVE  seen'[p] = seen[p] /\ loaded'[p] = loaded[p]
  <1>1. /\ seen \in [traffic -> AnyRow \cup {NoRow}]
        /\ loaded \in [traffic -> AnyRow \cup {NoRow}]
    BY DEF IInv, TypeOK
  <1>2. CASE Statement(o) BY <1>2, StatementShape
  <1>3. CASE Receive(o) \/ CallFails(o) BY <1>3 DEF Receive, CallFails
  <1>4. CASE NextUsers(o) /\ ~Statement(o)
    BY <1>1, <1>4 DEF NextUsers, Statement, Reads, RegisterLookup, ShowUser, ShowRow,
                ReadUser, ReadRow, ReloadUser, ReloadRow, CheckEmail
  <1>5. CASE NextCategories(o) /\ ~Statement(o)
    BY <1>1, <1>5 DEF NextCategories, Statement, Reads, ShowCategory, ShowRow,
                ReadCategory, ReadRow, ReloadCategory, ReloadRow
  <1>6. CASE NextDatasets(o) /\ ~Statement(o)
    BY <1>1, <1>6 DEF NextDatasets, Statement, Reads, Shows, ReadOwnDataset, ReadRow,
                ReloadDataset, ReloadRow, ShowDataset, ShowRow, ListDatasets, GetDataset, Rate,
                CheckDigest, Digest, Provided
  <1>7. CASE NextReviews(o) /\ ~Statement(o)
    BY <1>1, <1>7 DEF NextReviews, Statement, Reads, Shows, ShowReview, ShowRow,
                ReadReview, ReadRow, ReloadReview, ReloadRow, ListFiltered, ListReviewed,
                ListReviews, ReviewsListed
  <1>8. CASE NextSubscriptions(o) /\ ~Statement(o)
    BY <1>8 DEF NextSubscriptions, Statement, Reads, SubscribeLookup, SubscribeShow,
                UnsubscribeLookup
  <1>9. CASE NextNotifications(o) /\ ~Statement(o)
    BY <1>1, <1>9 DEF NextNotifications, Statement, Reads, ReadNotified, ReadRow,
                Collect, ReadFlagged, ReloadFlagged, ShowFlagged
  <1>. QED BY <1>2, <1>3, <1>4, <1>5, <1>6, <1>7, <1>8, <1>9 DEF Serve

\* How a request that changes a row comes to its write.
ReadsSeen(o) ==
  pc'[o] = "reload" /\ HasRow(o) /\ seen'[o] = Row(o)

ReadsLoaded(o) ==
  /\ pc[o] = "reload" /\ pc'[o] \in {"email", "write"} /\ HasRow(o)
  /\ loaded'[o] = Row(o) /\ seen'[o] = seen[o]
  /\ pc'[o] = "email" => EmailChanges(o, Row(o))

LEMMA OwnMoves ==
  ASSUME IInv, NEW o \in traffic, Serve(o), Changes(o), pc'[o] \in {"reload", "email", "write"}
  PROVE  /\ Quiet(o)
         /\ \/ pc'[o] = "reload" /\ Method(o) = "PUT"
            \/ ReadsSeen(o)
            \/ ReadsLoaded(o)
            \/ /\ pc[o] = "email" /\ pc'[o] = "write"
               /\ seen'[o] = seen[o] /\ loaded'[o] = loaded[o]
  <1>1. /\ pc \in [traffic -> Step] /\ WellFormed(o)
        /\ seen \in [traffic -> AnyRow \cup {NoRow}]
        /\ loaded \in [traffic -> AnyRow \cup {NoRow}]
        /\ Method(o) \in {"PATCH", "PUT"} /\ pc[o] \notin Answer
    BY Shapes, StepShape DEF IInv, TypeOK, Changes
  <1>2. CASE Receive(o)
    <2>1. First(o) = IF Method(o) = "PUT" THEN "reload" ELSE "read"
      BY <1>1 DEF First, Changes, OnRows, Is
    <2>2. pc'[o] \in {"unauthorized", "forbidden", First(o)} BY <1>1, <1>2 DEF Receive, Goto
    <2>. QED BY <1>1, <1>2, <2>1, <2>2 DEF Receive, Quiet
  <1>3. ~CallFails(o)
    <2>1. CallFails(o) => pc'[o] \in Answer \cup {"each"}
      BY <1>1, WhereTo DEF CallFails, Goto
    <2>. QED BY <2>1 DEF Answer
  <1>4. CASE NextUsers(o)
    <2>1. ~RegisterLookup(o) /\ ~RegisterWrite(o) /\ ~DeleteUser(o)
      BY <1>1 DEF RegisterLookup, RegisterWrite, DeleteUser, Is
    <2>2. ~WriteUser(o) /\ ~ShowUser(o)
      BY <1>1 DEF WriteUser, Done, Goto, ShowUser, ShowRow
    <2>3. CASE ReadUser(o)
      BY <1>1, <2>3 DEF ReadUser, ReadRow, Goto, Keeps, histories, Quiet, ReadsSeen, Is
    <2>4. CASE ReloadUser(o)
      BY <1>1, <2>4 DEF ReloadUser, ReloadRow, At, Goto, Keeps, histories, Quiet, ReadsLoaded
    <2>5. CASE CheckEmail(o)
      BY <1>1, <2>5 DEF CheckEmail, At, Goto, Reads, histories, Quiet
    <2>. QED BY <1>4, <2>1, <2>2, <2>3, <2>4, <2>5 DEF NextUsers
  <1>5. CASE NextCategories(o)
    <2>1. ~CreateCategory(o) /\ ~DeleteCategory(o)
      BY <1>1 DEF CreateCategory, DeleteCategory, Is
    <2>2. ~WriteCategory(o) /\ ~ShowCategory(o)
      BY <1>1 DEF WriteCategory, Done, Goto, ShowCategory, ShowRow
    <2>3. CASE ReadCategory(o)
      BY <1>1, <2>3 DEF ReadCategory, ReadRow, Goto, Keeps, histories, Quiet, ReadsSeen, Is
    <2>4. CASE ReloadCategory(o)
      BY <1>1, <2>4 DEF ReloadCategory, ReloadRow, At, Goto, Keeps, histories, Quiet, ReadsLoaded
    <2>. QED BY <1>5, <2>1, <2>2, <2>3, <2>4 DEF NextCategories
  <1>6. CASE NextDatasets(o)
    <2>1. ~DeleteDataset(o) /\ ~ListDatasets(o) /\ ~GetDataset(o) /\ ~CheckDigest(o)
      BY <1>1 DEF DeleteDataset, ListDatasets, GetDataset, CheckDigest, Is
    <2>2. ~WriteDataset(o) /\ ~ShowDataset(o) /\ ~Rate(o) /\ ~Provided(o)
      BY <1>1 DEF WriteDataset, Done, Goto, ShowDataset, ShowRow, Rate, Provided
    <2>3. ~Digest(o)
      BY <1>1 DEF Digest, Shows, Goto
    <2>4. CASE ReadOwnDataset(o)
      <3>1. Method(o) = "PATCH" BY <1>1, <2>4 DEF ReadOwnDataset
      <3>. QED BY <1>1, <2>4, <3>1 DEF ReadOwnDataset, ReadRow, Goto, Keeps, histories, Quiet, ReadsSeen
    <2>5. CASE ReloadDataset(o)
      BY <1>1, <2>5 DEF ReloadDataset, ReloadRow, At, Goto, Keeps, histories, Quiet, ReadsLoaded
    <2>. QED BY <1>6, <2>1, <2>2, <2>3, <2>4, <2>5 DEF NextDatasets
  <1>7. CASE NextReviews(o)
    <2>1. /\ ~CreateReview(o) /\ ~DeleteReview(o) /\ ~ListFiltered(o)
          /\ ~ListReviewed(o) /\ ~ListReviews(o) /\ ~ReviewsListed(o)
      BY <1>1 DEF CreateReview, DeleteReview, ListFiltered, ListReviewed, ListReviews,
           ReviewsListed, Is
    <2>2. ~WriteReview(o) /\ ~ShowReview(o)
      BY <1>1 DEF WriteReview, Done, Goto, ShowReview, ShowRow
    <2>3. CASE ReadReview(o)
      <3>1. Method(o) = "PATCH" BY <1>1, <2>3 DEF ReadReview
      <3>. QED BY <1>1, <2>3, <3>1 DEF ReadReview, ReadRow, Goto, Keeps, histories, Quiet, ReadsSeen
    <2>4. CASE ReloadReview(o)
      BY <1>1, <2>4 DEF ReloadReview, ReloadRow, At, Goto, Keeps, histories, Quiet, ReadsLoaded
    <2>. QED BY <1>7, <2>1, <2>2, <2>3, <2>4 DEF NextReviews
  <1>8. ~NextSubscriptions(o)
    BY <1>1 DEF NextSubscriptions, SubscribeLookup, SubscribeInsert, SubscribeShow,
         UnsubscribeLookup, UnsubscribeDelete, Is
  <1>9. ~NextNotifications(o)
    <2>1. ~Collect(o) /\ ~NotifyActor(o)
      BY <1>1 DEF Collect, NotifyActor, At, IInv, Ready, Place, Is
    <2>. QED BY <2>1 DEF NextNotifications, ReadNotified, Notify, ReadFlagged, ReloadFlagged,
                WriteFlag, ShowFlagged, Is, Changes, OnRows
  <1>. QED BY <1>2, <1>3, <1>4, <1>5, <1>6, <1>7, <1>8, <1>9 DEF Serve

\* The rows of a table have the same columns.
LEMMA SameColumns ==
  ASSUME NEW o, NEW row \in RowsOf(o), NEW other \in RowsOf(o)
  PROVE  DOMAIN row = DOMAIN other
  BY DEF RowsOf, UserRow, CategoryRow, DatasetRow, ReviewRow

\* A row read just now.
LEMMA JustRead ==
  ASSUME AllFresh, NEW o, OnRows(o), HasRow(o)
  PROVE  Accounts(o, Row(o))
  BY RowsAreDrawn DEF Accounts

\* Quiet steps leave the account right ...
LEMMA QuietAccounts ==
  ASSUME IInv, NEW o \in traffic, Serve(o), Quiet(o), NEW p, NEW row, Accounts(p, row)
  PROVE  Accounts(p, row)'
  BY DrawnStays DEF Accounts, Quiet, HasRow, Row, TableOf

\* ... and statements of others add what they change.
LEMMA StatementAccounts ==
  ASSUME IInv, IInv', AllFresh, NEW o \in traffic, Serve(o), Statement(o),
         NEW p \in traffic, p # o, Changes(p), Running(p), seen[p] # NoRow \/ loaded[p] # NoRow,
         NEW row, Accounts(p, row)
  PROVE  Accounts(p, row)'
  <1>1. Drawn(Resource(p), On(p))' BY DrawnStays DEF Accounts
  <1>2. SUFFICES ASSUME HasRow(p)', NEW f \in DOMAIN Row(p)', Row(p)'[f] # row[f]
                 PROVE  f \in stale'[p]
    BY <1>1 DEF Accounts
  <1>3. HasRow(p) BY <1>2, GoneStaysGone DEF Accounts, Changes
  <1>4. traffic' = traffic /\ WellFormed(p) BY StepShape, Shapes DEF IInv
  <1>5. Row(p) \in RowsOf(p) /\ Row(p)' \in RowsOf(p)
    <2>1. Row(p) \in RowsOf(p) \cup {NoRow} BY <1>4, RowTyped DEF IInv, TypeOK
    <2>2. db' \in Database BY DEF IInv, TypeOK, TablesOK
    <2>3. /\ db'.users \in [User -> UserRow \cup {NoRow}]
          /\ db'.categories \in [Category -> CategoryRow \cup {NoRow}]
          /\ db'.datasets \in [Dataset -> DatasetRow \cup {NoRow}]
          /\ db'.reviews \in [Review -> ReviewRow \cup {NoRow}]
      BY <2>2 DEF Database
    <2>4. Row(p)' \in RowsOf(p) \cup {NoRow}
      BY <1>4, <2>3 DEF WellFormed, Row, TableOf, RowsOf, Changes, OnRows
    <2>. QED BY <1>2, <1>3, <2>1, <2>4 DEF HasRow, RowsOf
  <1>6. f \in DOMAIN Row(p) BY <1>2, <1>5, SameColumns
  <1>7. PICK r : Follow(o, r) BY StatementShape
  <1>8. stale'[p] = stale[p] \cup Changed(p) BY <1>7 DEF Follow
  <1>9. CASE Row(p)[f] # row[f] BY <1>3, <1>6, <1>8, <1>9 DEF Accounts
  <1>10. CASE Row(p)[f] = row[f]
    <2>1. f \in Changed(p) BY <1>2, <1>3, <1>6, <1>10 DEF Changed, HasRow
    <2>. QED BY <1>8, <2>1
  <1>. QED BY <1>9, <1>10

\* A PATCH that is about to write has read its row.
LEMMA HasRead ==
  ASSUME IInv, NEW o \in traffic, Changes(o)
  PROVE  /\ pc[o] \in {"reload", "email", "write"} /\ Method(o) = "PATCH" =>
              seen[o] \in RowsOf(o) /\ seen[o] # NoRow /\ Running(o)
         /\ pc[o] \in {"email", "write"} =>
              loaded[o] \in RowsOf(o) /\ loaded[o] # NoRow /\ Running(o)
  BY RowsAreRows DEF IInv, Ready, Running, Answer

\* No account is needed at the start.
LEMMA InitTracked == Init => AllTracked
  BY DEF Init, InitRequests, AllTracked, Tracked

\* Every step keeps them right.
LEMMA NextTracked ==
  ASSUME IInv, IInv', AllFresh, AllTracked, [Next]_vars
  PROVE  AllTracked'
  <1>1. CASE UNCHANGED vars
    BY <1>1 DEF vars, histories, AllTracked, Tracked, Accounts, Drawn, HasRow, Row, TableOf,
                EmailChanges, NewEmail
  <1>2. ASSUME NEW o \in traffic, Serve(o) PROVE AllTracked'
    <2>1. traffic' = traffic BY <1>2, StepShape
    <2>2. PICK s : pc' = [pc EXCEPT ![o] = s] BY <1>2, StepShape
    <2>3. pc \in [traffic -> Step] BY DEF IInv, TypeOK
    <2>4. ASSUME NEW p \in traffic, Changes(p) PROVE Tracked(p)'
      <3>1. CASE p # o
        <4>1. pc'[p] = pc[p] /\ seen'[p] = seen[p] /\ loaded'[p] = loaded[p]
          BY <1>2, <2>2, <2>3, <3>1, OthersRead
        <4>2. ASSUME NEW row, Accounts(p, row), seen[p] # NoRow \/ loaded[p] # NoRow, Running(p)
              PROVE  Accounts(p, row)'
          BY <1>2, <2>4, <3>1, <4>2, Kinds, QuietAccounts, StatementAccounts
        <4>3. EmailChanges(p, loaded[p])' = EmailChanges(p, loaded[p])
          BY <4>1 DEF EmailChanges, NewEmail
        <4>. QED BY <2>4, <4>1, <4>2, <4>3, HasRead DEF AllTracked, Tracked
      <3>2. CASE p = o /\ pc'[o] \in {"reload", "email", "write"}
        <4>. DEFINE Kept(row) ==
               /\ Drawn(Resource(o), On(o))'
               /\ HasRow(o)' => \A f \in DOMAIN Row(o)' : Row(o)'[f] = row[f] \/ f \in stale'[o]
        <4>1. Quiet(o) BY <1>2, <2>4, <3>2, OwnMoves
        <4>2. ASSUME NEW row, Accounts(o, row) PROVE Kept(row)
          BY <1>2, <4>1, <4>2, QuietAccounts DEF Accounts
        <4>3. CASE pc'[o] = "reload" /\ Method(o) = "PUT"
          BY <3>2, <4>3 DEF Tracked
        <4>4. CASE ReadsSeen(o)
          <5>1. Kept(seen'[o]) BY <2>4, <3>2, <4>2, <4>4, JustRead DEF ReadsSeen, Changes
          <5>. QED BY <3>2, <4>4, <5>1 DEF ReadsSeen, Tracked, Accounts
        <4>5. CASE ReadsLoaded(o)
          <5>1. Kept(loaded'[o])
            BY <2>4, <3>2, <4>2, <4>5, JustRead DEF ReadsLoaded, Changes
          <5>2. Method(o) = "PATCH" => Kept(seen'[o])
            BY <2>4, <3>2, <4>2, <4>5 DEF ReadsLoaded, AllTracked, Tracked
          <5>3. pc'[o] = "email" => EmailChanges(o, loaded[o])'
            BY <4>5 DEF ReadsLoaded, EmailChanges, NewEmail
          <5>. QED BY <3>2, <5>1, <5>2, <5>3 DEF Tracked, Accounts
        <4>6. CASE pc[o] = "email" /\ pc'[o] = "write" /\ seen'[o] = seen[o] /\ loaded'[o] = loaded[o]
          <5>1. Kept(loaded'[o]) /\ (Method(o) = "PATCH" => Kept(seen'[o]))
            BY <2>4, <3>2, <4>2, <4>6 DEF AllTracked, Tracked
          <5>. QED BY <3>2, <4>6, <5>1 DEF Tracked, Accounts
        <4>. QED BY <1>2, <2>4, <3>2, <4>3, <4>4, <4>5, <4>6, OwnMoves
      <3>3. CASE p = o /\ pc'[o] \notin {"reload", "email", "write"}
        BY <3>3 DEF Tracked
      <3>. QED BY <3>1, <3>2, <3>3
    <2>. QED BY <2>1, <2>4 DEF AllTracked, Tracked, Changes, OnRows
  <1>. QED BY <1>1, <1>2 DEF Next

-----------------------------------------------------------------------------
(* Lost updates and conflicts.                                             *)

\* What a PATCH writes into its row.
LEMMA PatchWrites ==
  ASSUME IInv, NEW o \in traffic, Statement(o), Changes(o), Method(o) = "PATCH", ~UNCHANGED db
  PROVE  /\ pc[o] = "write"
         /\ HasRow(o)
         /\ HasRow(o)' => \A f \in DOMAIN Row(o) :
              \/ f \in Asked(o)
              \/ Row(o)'[f] \in {Row(o)[f], seen[o][f], loaded[o][f]}
  <1>1. db \in Database /\ WellFormed(o) BY Shapes DEF IInv, TypeOK, TablesOK
  <1>2. /\ db.users \in [User -> UserRow \cup {NoRow}]
        /\ db.categories \in [Category -> CategoryRow \cup {NoRow}]
        /\ db.datasets \in [Dataset -> DatasetRow \cup {NoRow}]
        /\ db.reviews \in [Review -> ReviewRow \cup {NoRow}]
    BY <1>1, Fields
  <1>3. Api(o) = "v2" BY <1>1 DEF WellFormed
  <1>4. CASE WriteUser(o)
    <2>1. On(o) \in User /\ Row(o) = db.users[On(o)] /\ Row(o)' = db'.users[On(o)] /\ pc[o] = "write"
          /\ UserUpdated(o) \in UserRow /\ seen[o] \in UserRow
      BY <1>1, <1>4, UpdatesTyped DEF WriteUser, WellFormed, Row, TableOf, At, IInv, Ready, RowsOf
    <2>2. PICK r : UpdateUserRow(On(o), UserUpdated(o), r) BY <1>4 DEF WriteUser
    <2>3. HasUser(On(o)) /\ db'.users[On(o)] = UserUpdated(o)
      BY <1>1, <1>2, <2>1, <2>2 DEF UpdateUserRow, Database
    <2>4. Row(o) \in UserRow BY <1>2, <2>1, <2>3 DEF HasUser
    <2>5. ASSUME NEW f \in DOMAIN Row(o), f \notin Asked(o)
          PROVE  UserUpdated(o)[f] \in {seen[o][f], loaded[o][f]}
      BY <1>3, <2>1, <2>4, <2>5 DEF UserUpdated, UserCommand, Filled, UserRow
    <2>. QED BY <2>1, <2>3, <2>5 DEF HasRow, HasUser
  <1>5. CASE WriteCategory(o)
    <2>1. On(o) \in Category /\ Row(o) = db.categories[On(o)] /\ Row(o)' = db'.categories[On(o)]
          /\ pc[o] = "write" /\ seen[o] \in CategoryRow
      BY <1>1, <1>5 DEF WriteCategory, WellFormed, Row, TableOf, At, IInv, Ready, RowsOf
    <2>2. PICK r : UpdateCategoryRow(On(o), CategoryUpdated(o), r) BY <1>5 DEF WriteCategory
    <2>3. HasCategory(On(o)) /\ db'.categories[On(o)] = CategoryUpdated(o)
      BY <1>1, <1>2, <2>1, <2>2 DEF UpdateCategoryRow, Database
    <2>4. Row(o) \in CategoryRow BY <1>2, <2>1, <2>3 DEF HasCategory
    <2>5. ASSUME NEW f \in DOMAIN Row(o), f \notin Asked(o)
          PROVE  CategoryUpdated(o)[f] = seen[o][f]
      BY <1>3, <2>1, <2>4, <2>5 DEF CategoryUpdated, Filled, CategoryRow
    <2>. QED BY <2>1, <2>3, <2>5 DEF HasRow, HasCategory
  <1>6. CASE WriteDataset(o)
    <2>1. On(o) \in Dataset /\ Row(o) = db.datasets[On(o)] /\ Row(o)' = db'.datasets[On(o)]
          /\ pc[o] = "write" /\ seen[o] \in DatasetRow /\ DatasetUpdated(o) \in DatasetRow
      BY <1>1, <1>6, UpdatesTyped DEF WriteDataset, WellFormed, Row, TableOf, At, IInv, Ready, RowsOf, Is
    <2>2. PICK r : UpdateDatasetRow(On(o), DatasetUpdated(o), r) BY <1>6 DEF WriteDataset
    <2>3. HasDataset(On(o))
          /\ db'.datasets[On(o)] = [DatasetUpdated(o) EXCEPT !.owner = db.datasets[On(o)].owner]
      BY <1>1, <1>2, <2>1, <2>2 DEF UpdateDatasetRow, Database
    <2>4. Row(o) \in DatasetRow BY <1>2, <2>1, <2>3 DEF HasDataset
    <2>5. ASSUME NEW f \in DOMAIN Row(o), f \notin Asked(o)
          PROVE  DatasetUpdated(o)[f] = seen[o][f]
      BY <2>1, <2>4, <2>5 DEF DatasetUpdated, Filled, DatasetRow
    <2>6. ASSUME NEW f \in DOMAIN Row(o), f \notin Asked(o)
          PROVE  Row(o)'[f] \in {Row(o)[f], seen[o][f]}
      BY <2>1, <2>3, <2>4, <2>5, <2>6 DEF DatasetRow
    <2>. QED BY <2>1, <2>3, <2>6 DEF HasRow, HasDataset
  <1>7. CASE WriteReview(o)
    <2>1. On(o) \in Review /\ Row(o) = db.reviews[On(o)] /\ Row(o)' = db'.reviews[On(o)]
          /\ pc[o] = "write" /\ seen[o] \in ReviewRow
      BY <1>1, <1>7 DEF WriteReview, WellFormed, Row, TableOf, At, IInv, Ready, RowsOf
    <2>2. PICK r : UpdateReviewRow(On(o), ReviewUpdated(o), r) BY <1>7 DEF WriteReview
    <2>3. HasReview(On(o))
          /\ db'.reviews[On(o)] = [db.reviews[On(o)] EXCEPT !.rating = ReviewUpdated(o).rating,
                                                            !.text = ReviewUpdated(o).text]
      BY <1>1, <1>2, <2>1, <2>2 DEF UpdateReviewRow, Database
    <2>4. Row(o) \in ReviewRow BY <1>2, <2>1, <2>3 DEF HasReview
    <2>5. ASSUME NEW f \in DOMAIN Row(o), f \notin Asked(o)
          PROVE  ReviewUpdated(o)[f] = seen[o][f]
      BY <1>3, <2>1, <2>4, <2>5 DEF ReviewUpdated, Filled, ReviewRow
    <2>6. ASSUME NEW f \in DOMAIN Row(o), f \notin Asked(o)
          PROVE  Row(o)'[f] \in {Row(o)[f], seen[o][f]}
      BY <2>1, <2>3, <2>4, <2>5, <2>6 DEF ReviewRow
    <2>. QED BY <2>1, <2>3, <2>6 DEF HasRow, HasReview
  <1>8. ~NotifyActor(o) BY DEF NotifyActor, At, IInv, Ready, Place, Is
  <1>. QED
    BY <1>4, <1>5, <1>6, <1>7, <1>8 DEF Statement, RegisterWrite, DeleteUser, CreateCategory,
         DeleteCategory, DeleteDataset, CreateReview, DeleteReview, SubscribeInsert,
         UnsubscribeDelete, Notify, WriteFlag, Is, Changes, OnRows

\* ... is what it was asked for or a column that others have changed meanwhile.
LEMMA OverwritesKnown ==
  ASSUME IInv, AllTracked, NEW o \in traffic, Serve(o), o \in wrote' \ wrote,
         Method(o) = "PATCH", Resource(o) # "notification"
  PROVE  Changed(o) \subseteq Asked(o) \cup stale[o]
  <1>1. Statement(o) BY Kinds DEF Quiet
  <1>2. Changes(o) BY Shapes DEF IInv, WellFormed, Changes, OnRows
  <1>3. SUFFICES ASSUME NEW f \in Changed(o), f \notin Asked(o) PROVE f \in stale[o] OBVIOUS
  <1>4. /\ HasRow(o) /\ HasRow(o)' /\ f \in DOMAIN Row(o) /\ Row(o)'[f] # Row(o)[f]
        /\ ~UNCHANGED db
    BY <1>3 DEF Changed, HasRow, Row, TableOf
  <1>5. pc[o] = "write" /\ Row(o)'[f] \in {seen[o][f], loaded[o][f]}
    BY <1>1, <1>2, <1>3, <1>4, PatchWrites
  <1>6. Accounts(o, seen[o]) /\ Accounts(o, loaded[o])
    BY <1>2, <1>5 DEF AllTracked, Tracked
  <1>. QED BY <1>4, <1>5, <1>6 DEF Accounts

\* A change of a user ends in a conflict only by the look-up of the e-mail.
LEMMA ConflictByLookup ==
  ASSUME IInv, NEW o \in traffic, Serve(o), Resource(o) = "users", Method(o) \in {"PATCH", "PUT"},
         pc'[o] = "conflict"
  PROVE  CheckEmail(o)
  <1>1. pc \in [traffic -> Step] BY DEF IInv, TypeOK
  <1>2. ~CallFails(o)
    <2>1. CallFails(o) => pc'[o] = Failure(o) BY <1>1 DEF CallFails, Goto
    <2>2. Failure(o) # "conflict" BY DEF Failure
    <2>. QED BY <2>1, <2>2
  <1>3. ~Receive(o)
    <2>1. Receive(o) => pc'[o] \in {"unauthorized", "forbidden", First(o)}
      BY <1>1 DEF Receive, Goto
    <2>2. First(o) # "conflict" BY DEF First, Is
    <2>. QED BY <2>1, <2>2
  <1>4. NextUsers(o) => CheckEmail(o)
    BY <1>1 DEF NextUsers, RegisterLookup, RegisterWrite, ShowUser, ReadUser, ReloadUser,
         WriteUser, DeleteUser, ShowRow, ReadRow, ReloadRow, Done, Goto, Is
  <1>5. ~NextCategories(o)
    BY DEF NextCategories, CreateCategory, ShowCategory, ReadCategory, ReloadCategory,
           WriteCategory, DeleteCategory, Is
  <1>6. ~NextDatasets(o)
    BY <1>1 DEF NextDatasets, ReadOwnDataset, ReloadDataset, WriteDataset, ShowDataset,
         DeleteDataset, ListDatasets, GetDataset, Rate, CheckDigest, Digest, Provided, Shows,
         Goto, Is
  <1>7. ~NextReviews(o)
    BY DEF NextReviews, CreateReview, ShowReview, ReadReview, ReloadReview, WriteReview,
           DeleteReview, ListFiltered, ListReviewed, ListReviews, ReviewsListed, Is
  <1>8. ~NextSubscriptions(o)
    BY DEF NextSubscriptions, SubscribeLookup, SubscribeInsert, SubscribeShow,
           UnsubscribeLookup, UnsubscribeDelete, Is
  <1>9. ~NextNotifications(o)
    <2>1. ~Collect(o) /\ ~NotifyActor(o)
      BY DEF Collect, NotifyActor, At, IInv, Ready, Place, Is
    <2>. QED BY <2>1 DEF NextNotifications, ReadNotified, Notify, ReadFlagged, ReloadFlagged,
                WriteFlag, ShowFlagged, Is
  <1>. QED BY <1>2, <1>3, <1>4, <1>5, <1>6, <1>7, <1>8, <1>9 DEF Serve

\* ... and only for a reason.
LEMMA ConflictForAReason ==
  ASSUME IInv, AllTracked, NEW o \in traffic, Serve(o), Resource(o) = "users",
         Method(o) \in {"PATCH", "PUT"}, pc[o] # "conflict", pc'[o] = "conflict"
  PROVE  \E u \in FindByEmail(NewEmail(o, loaded[o])) : u # On(o) \/ "email" \in stale[o]
  <1>1. CheckEmail(o) BY ConflictByLookup
  <1>2. pc \in [traffic -> Step] /\ WellFormed(o) /\ db \in Database
    BY Shapes DEF IInv, TypeOK, TablesOK
  <1>3. PICK u : u \in FindByEmail(NewEmail(o, loaded[o]))
    BY <1>1, <1>2 DEF CheckEmail, Goto
  <1>4. SUFFICES ASSUME u = On(o) PROVE "email" \in stale[o] BY <1>3
  <1>5. Row(o) = db.users[On(o)] /\ HasRow(o) /\ Row(o).email = NewEmail(o, loaded[o])
        /\ Row(o) \in UserRow
    BY <1>2, <1>3, <1>4, Fields DEF FindByEmail, HasUser, HasRow, Row, TableOf
  <1>6. Accounts(o, loaded[o]) /\ EmailChanges(o, loaded[o])
    BY <1>1 DEF AllTracked, Tracked, CheckEmail, At, Changes, OnRows
  <1>7. "email" \in DOMAIN Row(o) BY <1>5 DEF UserRow
  <1>. QED BY <1>5, <1>6, <1>7 DEF Accounts, EmailChanges

\* What the two histories need.
LEMMA TrackedAlways == Spec => [](IInv /\ AllFresh /\ AllTracked)
  <1>1. Init => IInv /\ AllFresh /\ AllTracked BY InitIInv, InitFresh, InitTracked
  <1>2. IInv /\ AllFresh /\ AllTracked /\ [Next]_vars => (IInv /\ AllFresh /\ AllTracked)'
    BY NextIInv, NextFresh, NextTracked
  <1>. QED BY <1>1, <1>2, PTL DEF Spec

\* A PATCH changes the columns it was asked to change and those that somebody else has
\* changed since it read its row, and no others.
THEOREM LostUpdatesNeedOverlap == Spec => OverwrittenOnlyByOverlap
  <1>1. IInv /\ AllFresh /\ AllTracked /\ [Next]_vars =>
          [\A o \in wrote' \ wrote : Method(o) = "PATCH" /\ Resource(o) # "notification" =>
             Changed(o) \subseteq Asked(o) \cup stale[o]]_vars
    <2>. SUFFICES ASSUME IInv, AllTracked, Next, NEW o \in wrote' \ wrote,
                         Method(o) = "PATCH", Resource(o) # "notification"
                  PROVE  Changed(o) \subseteq Asked(o) \cup stale[o]
      OBVIOUS
    <2>1. PICK p \in traffic : Serve(p) BY DEF Next
    <2>2. o = p BY <2>1, StepShape
    <2>. QED BY <2>1, <2>2, OverwritesKnown
  <1>. QED BY <1>1, TrackedAlways, PTL DEF Spec, OverwrittenOnlyByOverlap

\* A change of a user is refused as a conflict only because of somebody else, or because
\* the e-mail was changed under it.
THEOREM ConflictsAreReal == Spec => ConflictIsReal
  <1>1. IInv /\ AllFresh /\ AllTracked /\ [Next]_vars =>
          [\A o \in traffic : Resource(o) = "users" /\ Method(o) \in {"PATCH", "PUT"}
             /\ pc[o] # "conflict" /\ pc'[o] = "conflict" =>
             \E u \in FindByEmail(NewEmail(o, loaded[o])) : u # On(o) \/ "email" \in stale[o]]_vars
    <2>. SUFFICES ASSUME IInv, AllTracked, Next, NEW o \in traffic, Resource(o) = "users",
                         Method(o) \in {"PATCH", "PUT"}, pc[o] # "conflict", pc'[o] = "conflict"
                  PROVE  \E u \in FindByEmail(NewEmail(o, loaded[o])) :
                           u # On(o) \/ "email" \in stale[o]
      OBVIOUS
    <2>1. PICK p \in traffic : Serve(p) BY DEF Next
    <2>2. PICK s : pc' = [pc EXCEPT ![p] = s] BY <2>1, StepShape
    <2>3. pc \in [traffic -> Step] BY DEF IInv, TypeOK
    <2>4. o = p BY <2>2, <2>3
    <2>. QED BY <2>1, <2>4, ConflictForAReason
  <1>. QED BY <1>1, TrackedAlways, PTL DEF Spec, ConflictIsReal

-----------------------------------------------------------------------------
(* Errors.                                                                 *)

\* What the steps that execute no statement leave to others, and how they fail.
LEMMA QuietOthers ==
  ASSUME IInv, NEW o \in traffic, Serve(o), ~Statement(o)
  PROVE  /\ \A p \in traffic : p # o => loyal'[p] = loyal[p] /\ todo'[p] = todo[p]
         /\ CallFails(o) \/ faults' = faults
         /\ pc'[o] = "error" => CallFails(o) \/ ReloadUser(o)
  <1>1. /\ pc \in [traffic -> Step] /\ loyal \in [traffic -> SUBSET User]
        /\ todo \in [traffic -> SUBSET (User \cup Dataset)] /\ pc[o] \notin Answer
    BY StepShape DEF IInv, TypeOK
  <1>2. CASE Receive(o)
    <2>1. First(o) # "error" BY <1>1, WhereTo
    <2>. QED BY <1>1, <1>2, <2>1 DEF Receive, Goto
  <1>3. CASE CallFails(o)
    <2>1. \/ todo' = todo
          \/ \E d \in todo[o] : todo' = [todo EXCEPT ![o] = @ \ {d}]
      BY <1>3 DEF CallFails
    <2>. QED BY <1>1, <1>3, <2>1 DEF CallFails, histories
  <1>4. CASE NextUsers(o)
    BY <1>1, <1>4 DEF NextUsers, Statement, Reads, Keeps, histories, Goto, RegisterLookup, ShowUser,
         ShowRow, ReadUser, ReadRow, ReloadUser, ReloadRow, CheckEmail
  <1>5. CASE NextCategories(o)
    BY <1>1, <1>5 DEF NextCategories, Statement, Reads, Keeps, histories, Goto, ShowCategory,
         ShowRow, ReadCategory, ReadRow, ReloadCategory, ReloadRow
  <1>6. CASE NextDatasets(o)
    BY <1>1, <1>6 DEF NextDatasets, Statement, Reads, Keeps, Shows, histories, Goto,
         ReadOwnDataset, ReadRow, ReloadDataset, ReloadRow, ShowDataset, ShowRow, ListDatasets,
         GetDataset, Rate, CheckDigest, Digest, Provided
  <1>7. CASE NextReviews(o)
    BY <1>1, <1>7 DEF NextReviews, Statement, Reads, Keeps, Shows, histories, Goto, At, ShowReview,
         ShowRow, ReadReview, ReadRow, ReloadReview, ReloadRow, ListFiltered, ListReviewed,
         ListReviews, ReviewsListed
  <1>8. CASE NextSubscriptions(o)
    BY <1>1, <1>8 DEF NextSubscriptions, Statement, Reads, Keeps, histories, Goto, SubscribeLookup,
         SubscribeShow, UnsubscribeLookup
  <1>9. CASE NextNotifications(o)
    BY <1>1, <1>9 DEF NextNotifications, Statement, Reads, Keeps, histories, Goto, ReadNotified,
         ReadRow, Collect, ReadFlagged, ReloadFlagged, ShowFlagged
  <1>. QED BY <1>2, <1>3, <1>4, <1>5, <1>6, <1>7, <1>8, <1>9 DEF Serve

\* Failures are counted.
LEMMA FaultsGrow ==
  ASSUME IInv, NEW o \in traffic, Serve(o)
  PROVE  /\ faults \in Nat /\ faults' \in Nat
         /\ faults' = 0 => faults = 0 /\ ~CallFails(o)
  <1>1. faults \in Nat BY FaultsAssumption DEF IInv, TypeOK
  <1>2. faults' = faults \/ (CallFails(o) /\ faults' = faults + 1)
    BY QuietOthers, StatementShape DEF CallFails
  <1>3. CallFails(o) => faults' = faults + 1 BY DEF CallFails
  <1>. QED BY <1>1, <1>2, <1>3

\* A registration ends in an error only if a call fails.
LEMMA RegistrationErrors ==
  ASSUME IInv, NEW o \in traffic, Serve(o), Is(o, "POST", "users"), pc'[o] = "error"
  PROVE  CallFails(o)
  <1>1. pc \in [traffic -> Step] BY DEF IInv, TypeOK
  <1>2. ~ReloadUser(o) BY DEF ReloadUser, ReloadRow, At, IInv, Ready, Place, Is
  <1>3. ~Statement(o)
    <2>1. SUFFICES ASSUME Statement(o) PROVE FALSE OBVIOUS
    <2>2. RegisterWrite(o)
      BY <2>1, CreatingStatement DEF Creating, CreateCategory, CreateReview, Is
    <2>3. PICK r \in {"ok", "exists", "error"} :
            /\ InsertUser(On(o), Body(o), r)
            /\ Done(o, r, [ok |-> "show", exists |-> "conflict", error |-> "error"])
      BY <2>2 DEF RegisterWrite
    <2>4. r \in {"ok", "exists"} BY <2>3 DEF InsertUser
    <2>. QED BY <1>1, <2>3, <2>4 DEF Done, Goto
  <1>. QED BY <1>2, <1>3, QuietOthers

\* The loser of two registrations with one e-mail is told of a conflict, although the
\* look-up let it pass: an error is always a failed call.
THEOREM DuplicatesAreConflicts == Spec => []DuplicateRegistrationIsConflict
  <1>1. Init => DuplicateRegistrationIsConflict
    BY DEF Init, InitRequests, DuplicateRegistrationIsConflict
  <1>2. IInv /\ DuplicateRegistrationIsConflict /\ [Next]_vars => DuplicateRegistrationIsConflict'
    <2>. SUFFICES ASSUME IInv, DuplicateRegistrationIsConflict, [Next]_vars
                  PROVE  DuplicateRegistrationIsConflict'
      OBVIOUS
    <2>1. CASE UNCHANGED vars BY <2>1 DEF vars, DuplicateRegistrationIsConflict
    <2>2. ASSUME NEW o \in traffic, Serve(o) PROVE DuplicateRegistrationIsConflict'
      <3>1. traffic' = traffic BY <2>2, StepShape
      <3>2. PICK s : pc' = [pc EXCEPT ![o] = s] BY <2>2, StepShape
      <3>3. pc \in [traffic -> Step] BY DEF IInv, TypeOK
      <3>4. ASSUME NEW p \in traffic, Is(p, "POST", "users"), pc'[p] = "error"
            PROVE  faults' > 0
        <4>1. CASE p = o BY <2>2, <3>4, <4>1, RegistrationErrors, FaultsGrow
        <4>2. CASE p # o
          BY <2>2, <3>2, <3>3, <3>4, <4>2, FaultsGrow DEF DuplicateRegistrationIsConflict
        <4>. QED BY <4>1, <4>2
      <3>. QED BY <3>1, <3>4 DEF DuplicateRegistrationIsConflict
    <2>. QED BY <2>1, <2>2 DEF Next
  <1>. QED BY <1>1, <1>2, InitIInv, NextIInv, PTL DEF Spec

-----------------------------------------------------------------------------
(* Fan-outs.                                                               *)

\* Somebody who was a user, and may have gone since.
WasUser(u) == u \in User /\ Drawn("users", u)

\* What a fan-out knows of its subscribers.
FanOut(o) ==
  Notifying(o) =>
    /\ pc[o] \in {"ready", "read", "collect", "each", "own"} \cup Answer
    /\ Running(o) => loyal[o] \subseteq SubscribersOf(On(o))
    /\ Running(o) /\ Api(o) = "v2" => WasUser(By(o))
    /\ pc[o] = "each" =>
         /\ \A u \in todo[o] : WasUser(u)
         /\ \A u \in loyal[o] : u \in todo[o] \/ Notified(o, u)
    /\ pc[o] \in {"own", "ok", "created"} =>
         \A u \in loyal[o] :
           WasUser(u) /\ (HasUser(u) /\ HasDataset(On(o)) => Notified(o, u))
    /\ pc[o] = "error" /\ faults = 0 =>
         \/ ~HasDataset(On(o))
         \/ By(o) # Nobody /\ WasUser(By(o)) /\ ~HasUser(By(o))
         \/ \E u \in todo[o] : WasUser(u) /\ ~HasUser(u)

AllFanOut == \A o \in traffic : FanOut(o)

\* Who is there has been drawn.
LEMMA UsersWereUsers ==
  ASSUME AllFresh, NEW u \in User, HasUser(u)
  PROVE  WasUser(u)
  BY DEF AllFresh, Fresh, WasUser, Drawn, HasUser, Row, TableOf, Creating

\* Subscribers are users.
LEMMA SubscribersWereUsers ==
  ASSUME IInv, AllFresh, NEW d, NEW u \in SubscribersOf(d)
  PROVE  WasUser(u) /\ HasUser(u)
  <1>1. u \in User /\ <<u, d>> \in db.subscriptions BY DEF SubscribersOf
  <1>2. HasUser(u) BY <1>1 DEF IInv, TypeOK, TablesOK, References, HasUser
  <1>. QED BY <1>1, <1>2, UsersWereUsers

\* Who has gone stays away.
LEMMA UsersStayGone ==
  ASSUME IInv, AllFresh, NEW o \in traffic, Serve(o), NEW u, WasUser(u)
  PROVE  WasUser(u)' /\ (HasUser(u)' => HasUser(u))
  <1>1. Drawn("users", u)' BY DrawnStays DEF WasUser
  <1>2. ASSUME ~HasUser(u), HasUser(u)' PROVE FALSE
    <2>1. RegisterWrite(o) /\ On(o) = u BY <1>2, UsersAppear DEF WasUser
    <2>2. Creating(o) /\ Resource(o) = "users" /\ pc[o] = "write"
      BY <2>1, AfterCreating DEF RegisterWrite, Is
    <2>3. o \in wrote BY <2>1, <2>2 DEF WasUser, Drawn
    <2>. QED BY <2>2, <2>3 DEF AllFresh, Fresh, Answer
  <1>. QED BY <1>1, <1>2 DEF WasUser

\* Notifications go with their user or their dataset only.
LEMMA NotificationsStay ==
  ASSUME IInv, NEW o \in traffic, Serve(o), NEW n \in db.notifications,
         HasUser(n.user)', HasDataset(n.dataset)'
  PROVE  n \in db'.notifications
  <1>1. db \in Database /\ WellFormed(o) BY Shapes DEF IInv, TypeOK, TablesOK
  <1>2. CASE Quiet(o) BY <1>2 DEF Quiet
  <1>3. CASE RegisterWrite(o) \/ WriteUser(o)
    BY <1>1, <1>3 DEF RegisterWrite, WriteUser, InsertUser, UpdateUserRow, Database
  <1>4. CASE DeleteUser(o)
    <2>1. PICK r : DeleteUserRow(On(o), r) BY <1>4 DEF DeleteUser
    <2>2. On(o) \in User BY <1>1, <1>4 DEF DeleteUser, WellFormed, Is
    <2>3. \/ UNCHANGED db
          \/ /\ db'.users = [db.users EXCEPT ![On(o)] = NoRow]
             /\ db'.notifications = {m \in db.notifications : m.user # On(o)}
      BY <1>1, <2>1 DEF DeleteUserRow, Database
    <2>4. db.users \in [User -> UserRow \cup {NoRow}] BY <1>1, Fields
    <2>. QED BY <2>2, <2>3, <2>4 DEF HasUser
  <1>5. CASE DeleteDataset(o)
    <2>1. PICK r : DeleteDatasetRow(On(o), r) BY <1>5 DEF DeleteDataset
    <2>2. On(o) \in Dataset BY <1>1, <1>5 DEF DeleteDataset, WellFormed, Is
    <2>3. \/ UNCHANGED db
          \/ /\ db'.datasets = [db.datasets EXCEPT ![On(o)] = NoRow]
             /\ db'.notifications = {m \in db.notifications : m.dataset # On(o)}
      BY <1>1, <2>1 DEF DeleteDatasetRow, Database
    <2>4. db.datasets \in [Dataset -> DatasetRow \cup {NoRow}] BY <1>1, Fields
    <2>. QED BY <2>2, <2>3, <2>4 DEF HasDataset
  <1>6. CASE CreateCategory(o) \/ WriteCategory(o) \/ DeleteCategory(o)
    BY <1>1, <1>6 DEF CreateCategory, WriteCategory, DeleteCategory, InsertCategory,
                      UpdateCategoryRow, DeleteCategoryRow, Database
  <1>7. CASE WriteDataset(o) BY <1>1, <1>7 DEF WriteDataset, UpdateDatasetRow, Database
  <1>8. CASE CreateReview(o) \/ WriteReview(o) \/ DeleteReview(o)
    BY <1>1, <1>8 DEF CreateReview, WriteReview, DeleteReview, InsertReview,
                      UpdateReviewRow, DeleteReviewRow, Database
  <1>9. CASE Notify(o) \/ NotifyActor(o) \/ WriteFlag(o)
    BY <1>1, <1>9 DEF Notify, NotifyActor, WriteFlag, InsertNotification, MarkNotification, Database
  <1>10. CASE SubscribeInsert(o) \/ UnsubscribeDelete(o)
    BY <1>1, <1>10 DEF SubscribeInsert, UnsubscribeDelete, InsertSubscription,
                       DeleteSubscription, Database
  <1>. QED BY <1>2, <1>3, <1>4, <1>5, <1>6, <1>7, <1>8, <1>9, <1>10, Kinds DEF Statement

\* What a fan-out does.
LEMMA FanOutActions ==
  ASSUME IInv, NEW o \in traffic, Serve(o), Notifying(o), FanOut(o)
  PROVE  \/ Receive(o) \/ CallFails(o)
         \/ ReadNotified(o) \/ Collect(o) \/ Notify(o) \/ NotifyActor(o)
  <1>1. /\ Resource(o) = "notifications" /\ Method(o) = "POST"
        /\ pc[o] \in {"ready", "read", "collect", "each", "own"} \cup Answer
    BY DEF Notifying, Is, FanOut
  <1>2. ~NextUsers(o)
    BY <1>1 DEF NextUsers, RegisterLookup, RegisterWrite, ShowUser, ReadUser, ReloadUser,
         CheckEmail, WriteUser, DeleteUser, Is, At, Answer
  <1>3. ~NextCategories(o)
    BY <1>1 DEF NextCategories, CreateCategory, ShowCategory, ReadCategory, ReloadCategory,
         WriteCategory, DeleteCategory, Is
  <1>4. ~NextDatasets(o)
    BY <1>1 DEF NextDatasets, ReadOwnDataset, ReloadDataset, WriteDataset, ShowDataset,
         DeleteDataset, ListDatasets, GetDataset, Rate, CheckDigest, Digest, Provided, Is, At, Answer
  <1>5. ~NextReviews(o)
    BY <1>1 DEF NextReviews, CreateReview, ShowReview, ReadReview, ReloadReview, WriteReview,
         DeleteReview, ListFiltered, ListReviewed, ListReviews, ReviewsListed, Is
  <1>6. ~NextSubscriptions(o)
    BY <1>1 DEF NextSubscriptions, SubscribeLookup, SubscribeInsert, SubscribeShow,
         UnsubscribeLookup, UnsubscribeDelete, Is
  <1>7. NextNotifications(o) => ReadNotified(o) \/ Collect(o) \/ Notify(o) \/ NotifyActor(o)
    BY <1>1 DEF NextNotifications, ReadFlagged, ReloadFlagged, WriteFlag, ShowFlagged, Is
  <1>. QED BY <1>2, <1>3, <1>4, <1>5, <1>6, <1>7 DEF Serve

\* What other requests do to it.
LEMMA OthersFanOut ==
  ASSUME IInv, IInv', AllFresh, NEW o \in traffic, Serve(o), NEW p \in traffic, p # o,
         Notifying(p), FanOut(p)
  PROVE  FanOut(p)'
  <1>1. PICK s : pc' = [pc EXCEPT ![o] = s] BY StepShape
  <1>2. pc \in [traffic -> Step] /\ loyal \in [traffic -> SUBSET User] BY DEF IInv, TypeOK
  <1>3. pc'[p] = pc[p] BY <1>1, <1>2
  <1>4. todo'[p] = todo[p] BY QuietOthers, WritingShape
  <1>5. On(p) \in Dataset BY Shapes DEF IInv, WellFormed, Notifying, Is
  <1>6. \A u : WasUser(u) => WasUser(u)' /\ (HasUser(u)' => HasUser(u)) BY UsersStayGone
  <1>7. HasDataset(On(p))' => HasDataset(On(p)) BY <1>5, OwnersStay
  <1>8. loyal'[p] \subseteq loyal[p]
        /\ (Running(p) => loyal'[p] \subseteq SubscribersOf(On(p))')
    <2>1. CASE ~Statement(o)
      <3>1. loyal'[p] = loyal[p] /\ UNCHANGED db BY <2>1, QuietOthers, Kinds DEF Quiet
      <3>. QED BY <3>1 DEF FanOut, SubscribersOf
    <2>2. CASE Statement(o)
      <3>1. PICK r : Follow(o, r) BY <2>2, StatementShape
      <3>2. loyal'[p] = IF Running(p) /\ loyal[p] # {}
                        THEN loyal[p] \cap SubscribersOf(On(p))' ELSE loyal[p]
        BY <3>1 DEF Follow
      <3>. QED BY <3>2
    <2>. QED BY <2>1, <2>2
  <1>9. ASSUME NEW u \in User, Notified(p, u), HasUser(u)', HasDataset(On(p))'
        PROVE  Notified(p, u)'
    <2>1. NotificationFor(p, u, "fanOut") \in db.notifications
          /\ NotificationFor(p, u, "fanOut").user = u
          /\ NotificationFor(p, u, "fanOut").dataset = On(p)
      BY <1>9 DEF Notified, NotificationFor
    <2>2. NotificationFor(p, u, "fanOut") \in db'.notifications
      BY <1>9, <2>1, NotificationsStay
    <2>. QED BY <2>2 DEF Notified, NotificationFor
  <1>10. ASSUME pc[p] = "each", NEW u \in loyal'[p] PROVE u \in todo'[p] \/ Notified(p, u)'
    <2>1. u \in SubscribersOf(On(p))' BY <1>8, <1>10 DEF Running, Answer
    <2>2. HasUser(u)' /\ HasDataset(On(p))' /\ u \in User
      BY <2>1 DEF IInv, TypeOK, TablesOK, References, SubscribersOf, HasUser, HasDataset
    <2>. QED BY <1>4, <1>8, <1>9, <1>10, <2>2 DEF FanOut
  <1>11. ASSUME pc[p] \in {"own", "ok", "created"}, NEW u \in loyal'[p]
         PROVE  WasUser(u)' /\ (HasUser(u)' /\ HasDataset(On(p))' => Notified(p, u)')
    <2>1. u \in loyal[p] /\ u \in User BY <1>2, <1>8, <1>11
    <2>. QED BY <1>6, <1>7, <1>9, <1>11, <2>1 DEF FanOut
  <1>12. ASSUME pc[p] = "error", faults' = 0
         PROVE  \/ ~HasDataset(On(p))'
                \/ By(p) # Nobody /\ WasUser(By(p))' /\ ~HasUser(By(p))'
                \/ \E u \in todo'[p] : WasUser(u)' /\ ~HasUser(u)'
    <2>1. faults = 0 BY <1>12, FaultsGrow
    <2>. QED BY <1>4, <1>6, <1>7, <1>12, <2>1 DEF FanOut
  <1>13. Running(p)' = Running(p) BY <1>3 DEF Running
  <1>. QED BY <1>3, <1>4, <1>6, <1>8, <1>10, <1>11, <1>12, <1>13 DEF FanOut

\* A fan-out is received.
LEMMA ReceiveFanOut ==
  ASSUME IInv, AllFresh, NEW o \in traffic, Notifying(o), Receive(o)
  PROVE  FanOut(o)'
  <1>1. /\ pc \in [traffic -> Step] /\ loyal \in [traffic -> SUBSET User] /\ WellFormed(o)
        /\ UNCHANGED <<db, traffic, wrote>>
        /\ loyal' = [loyal EXCEPT ![o] = SubscribersOf(On(o))]
    BY Shapes DEF IInv, TypeOK, Receive, Notifying
  <1>2. Resource(o) = "notifications" /\ Method(o) = "POST" BY DEF Notifying, Is
  <1>3. First(o) \in {"collect", "read"} BY <1>2 DEF First, Is
  <1>4. /\ pc'[o] \in {"unauthorized", "forbidden", "collect", "read"}
        /\ pc'[o] \in {"collect", "read"} /\ Api(o) = "v2" => By(o) # Nobody /\ HasUser(By(o))
    BY <1>1, <1>2, <1>3 DEF Receive, Goto, Protected, Is
  <1>5. loyal'[o] = SubscribersOf(On(o))' BY <1>1 DEF SubscribersOf
  <1>6. pc'[o] \in {"collect", "read"} /\ Api(o) = "v2" => WasUser(By(o))'
    <2>. SUFFICES ASSUME pc'[o] \in {"collect", "read"}, Api(o) = "v2" PROVE WasUser(By(o))'
      OBVIOUS
    <2>1. WasUser(By(o)) BY <1>1, <1>4, UsersWereUsers DEF WellFormed
    <2>. QED BY <1>1, <2>1 DEF WasUser, Drawn
  <1>. QED BY <1>4, <1>5, <1>6 DEF FanOut, Running, Answer

\* It fails by itself, or reads and collects.
LEMMA QuietFanOut ==
  ASSUME IInv, AllFresh, NEW o \in traffic, Serve(o), Notifying(o), FanOut(o),
         CallFails(o) \/ ReadNotified(o) \/ Collect(o)
  PROVE  FanOut(o)'
  <1>1. /\ pc \in [traffic -> Step] /\ todo \in [traffic -> SUBSET (User \cup Dataset)]
        /\ UNCHANGED <<db, traffic, wrote, loyal>>
        /\ Resource(o) = "notifications" /\ Method(o) = "POST" /\ pc[o] \notin Answer
    BY StepShape DEF IInv, TypeOK, CallFails, ReadNotified, ReadRow, Collect, histories, Notifying, Is
  <1>2. \A u : WasUser(u)' = WasUser(u) BY <1>1 DEF WasUser, Drawn
  <1>3. SubscribersOf(On(o))' = SubscribersOf(On(o)) BY <1>1 DEF SubscribersOf
  <1>4. CASE CallFails(o)
    <2>1. Failure(o) \in Answer /\ pc'[o] = Failure(o) /\ Failure(o) \notin {"ok", "created"}
      BY <1>1, <1>4 DEF CallFails, Goto, Failure, Answer, FanOut, Is
    <2>2. faults' # 0 BY <1>4, FaultsGrow
    <2>. QED BY <2>1, <2>2 DEF FanOut, Running, Answer
  <1>5. CASE ReadNotified(o)
    <2>1. pc[o] = "read" /\ pc'[o] \in {"notFound", "forbidden", "collect"}
      BY <1>1, <1>5 DEF ReadNotified, ReadRow, At, Goto
    <2>. QED BY <1>1, <1>2, <1>3, <2>1 DEF FanOut, Running, Answer
  <1>6. CASE Collect(o)
    <2>1. /\ pc[o] = "collect" /\ pc'[o] \in {"dependency", "each"}
          /\ todo'[o] = SubscribersOf(On(o))
      BY <1>1, <1>6 DEF Collect, At, Goto
    <2>2. \A u \in todo'[o] : WasUser(u) BY <2>1, SubscribersWereUsers
    <2>3. loyal[o] \subseteq todo'[o] BY <2>1 DEF FanOut, Running, Answer
    <2>. QED BY <1>1, <1>2, <1>3, <2>1, <2>2, <2>3 DEF FanOut, Running, Answer
  <1>. QED BY <1>4, <1>5, <1>6

\* It notifies a subscriber.
LEMMA NotifyFanOut ==
  ASSUME IInv, AllFresh, NEW o \in traffic, Serve(o), Notifying(o), FanOut(o), Notify(o)
  PROVE  FanOut(o)'
  <1>1. /\ pc \in [traffic -> Step] /\ todo \in [traffic -> SUBSET (User \cup Dataset)]
        /\ traffic' = traffic /\ pc[o] = "each" /\ db \in Database
        /\ loyal \in [traffic -> SUBSET User]
    BY DEF IInv, TypeOK, TablesOK, Notify, At, Done, Keeps
  <1>2. PICK u \in todo[o], r \in {"ok", "error"} :
          /\ InsertNotification(NotificationFor(o, u, "fanOut"), r)
          /\ todo' = IF r = "ok" THEN [todo EXCEPT ![o] = @ \ {u}] ELSE todo
          /\ Done(o, r, [ok |-> NextAfter(o, u), error |-> "error"])
    BY <1>1 DEF Notify
  <1>3. \A w : WasUser(w) => WasUser(w)' BY UsersStayGone
  <1>4. /\ db'.users = db.users /\ db'.datasets = db.datasets
        /\ db'.subscriptions = db.subscriptions
        /\ db.notifications \subseteq db'.notifications
    BY <1>1, <1>2 DEF InsertNotification, Database
  <1>5. SubscribersOf(On(o))' = SubscribersOf(On(o)) BY <1>4 DEF SubscribersOf
  <1>6. loyal'[o] \subseteq loyal[o]
    BY <1>1, <1>2 DEF Done, Follow
  <1>7. loyal[o] \subseteq SubscribersOf(On(o)) BY <1>1 DEF FanOut, Running, Answer
  <1>8. \A w : Notified(o, w) => Notified(o, w)' BY <1>4 DEF Notified, NotificationFor
  <1>9. CASE r = "ok"
    <2>1. pc'[o] = NextAfter(o, u) /\ todo'[o] = todo[o] \ {u} BY <1>1, <1>2, <1>9 DEF Done, Goto
    <2>2. Notified(o, u)'
      BY <1>1, <1>2, <1>9 DEF InsertNotification, Notified, NotificationFor, Database
    <2>3. \A w \in loyal'[o] : w \in todo'[o] \/ Notified(o, w)'
      BY <1>1, <1>6, <1>8, <2>1, <2>2 DEF FanOut
    <2>4. \A w \in todo'[o] : WasUser(w)' BY <1>1, <1>3, <2>1 DEF FanOut
    <2>5. Api(o) = "v2" => WasUser(By(o))' BY <1>1, <1>3 DEF FanOut, Running, Answer
    <2>6. CASE todo[o] = {u}
      <3>1. \A w \in loyal'[o] : WasUser(w)' /\ Notified(o, w)'
        BY <1>3, <1>6, <1>7, <2>1, <2>3, <2>6, SubscribersWereUsers
      <3>2. pc'[o] \in {"own", "ok"} BY <2>1, <2>6 DEF NextAfter, AfterFanOut
      <3>. QED BY <1>5, <1>6, <1>7, <2>5, <3>1, <3>2 DEF FanOut, Running, Answer
    <2>7. CASE todo[o] # {u}
      <3>1. pc'[o] = "each" BY <2>1, <2>7 DEF NextAfter
      <3>. QED BY <1>5, <1>6, <1>7, <2>3, <2>4, <2>5, <3>1 DEF FanOut, Running, Answer
    <2>. QED BY <2>6, <2>7
  <1>10. CASE r = "error"
    <2>1. pc'[o] = "error" /\ todo' = todo BY <1>1, <1>2, <1>10 DEF Done, Goto
    <2>2. UNCHANGED db /\ (~HasUser(u) \/ ~HasDataset(On(o)))
      BY <1>2, <1>10 DEF InsertNotification, NotificationFor
    <2>3. WasUser(u)' BY <1>1, <1>3 DEF FanOut
    <2>4. ~HasDataset(On(o))' \/ \E w \in todo'[o] : WasUser(w)' /\ ~HasUser(w)'
      BY <2>1, <2>2, <2>3 DEF HasUser, HasDataset
    <2>. QED BY <2>1, <2>4 DEF FanOut, Running, Answer
  <1>. QED BY <1>9, <1>10

\* It notifies its actor.
LEMMA NotifyActorFanOut ==
  ASSUME IInv, AllFresh, NEW o \in traffic, Serve(o), Notifying(o), FanOut(o), NotifyActor(o)
  PROVE  FanOut(o)'
  <1>1. /\ pc \in [traffic -> Step] /\ traffic' = traffic /\ pc[o] = "own" /\ db \in Database
        /\ loyal \in [traffic -> SUBSET User] /\ todo' = todo
    BY DEF IInv, TypeOK, TablesOK, NotifyActor, At, Done, Keeps
  <1>2. PICK r \in {"ok", "error"} :
          /\ InsertNotification(NotificationFor(o, By(o), "own"), r)
          /\ Done(o, r, [ok |-> "created", error |-> "error"])
    BY DEF NotifyActor
  <1>3. \A w : WasUser(w) => WasUser(w)' BY UsersStayGone
  <1>4. /\ db'.users = db.users /\ db'.datasets = db.datasets
        /\ db.notifications \subseteq db'.notifications
    BY <1>1, <1>2 DEF InsertNotification, Database
  <1>5. loyal'[o] \subseteq loyal[o] BY <1>1, <1>2 DEF Done, Follow
  <1>6. CASE r = "ok"
    <2>1. pc'[o] = "created" BY <1>1, <1>2, <1>6 DEF Done, Goto
    <2>2. \A w \in loyal'[o] : WasUser(w)' /\ (HasUser(w)' /\ HasDataset(On(o))' => Notified(o, w)')
      BY <1>1, <1>3, <1>4, <1>5 DEF FanOut, HasUser, HasDataset, Notified, NotificationFor
    <2>. QED BY <2>1, <2>2 DEF FanOut, Running, Answer
  <1>7. CASE r = "error"
    <2>1. pc'[o] = "error" BY <1>1, <1>2, <1>7 DEF Done, Goto
    <2>2. UNCHANGED db /\ (~HasUser(By(o)) \/ ~HasDataset(On(o)))
      BY <1>2, <1>7 DEF InsertNotification, NotificationFor
    <2>3. Api(o) = "v2" BY <1>1 DEF IInv, Ready, Place
    <2>4. WasUser(By(o)) BY <1>1, <2>3 DEF FanOut, Running, Answer
    <2>5. By(o) # Nobody BY <2>4, IdsAssumption DEF WasUser
    <2>6. ~HasDataset(On(o))' \/ (WasUser(By(o))' /\ ~HasUser(By(o))')
      BY <1>3, <2>2, <2>4 DEF HasUser, HasDataset
    <2>. QED BY <2>1, <2>5, <2>6 DEF FanOut, Running, Answer
  <1>. QED BY <1>6, <1>7

\* It holds at the start, and every step keeps it.
LEMMA InitFanOut == Init => AllFanOut
  BY DEF Init, InitRequests, AllFanOut, FanOut, Running, Answer

LEMMA NextFanOut ==
  ASSUME IInv, IInv', AllFresh, AllFanOut, [Next]_vars
  PROVE  AllFanOut'
  <1>1. CASE UNCHANGED vars
    BY <1>1 DEF vars, histories, AllFanOut, FanOut, Running, WasUser, Drawn, Notified,
                SubscribersOf, HasUser, HasDataset
  <1>2. ASSUME NEW o \in traffic, Serve(o) PROVE AllFanOut'
    <2>1. traffic' = traffic BY <1>2, StepShape
    <2>2. ASSUME NEW p \in traffic, Notifying(p) PROVE FanOut(p)'
      <3>1. FanOut(p) BY DEF AllFanOut
      <3>2. CASE p # o BY <1>2, <2>2, <3>1, <3>2, OthersFanOut
      <3>3. CASE p = o
        BY <1>2, <2>2, <3>1, <3>3, FanOutActions, ReceiveFanOut, QuietFanOut, NotifyFanOut,
           NotifyActorFanOut
      <3>. QED BY <3>2, <3>3
    <2>3. \A p \in traffic : FanOut(p)' BY <2>2 DEF FanOut, Notifying
    <2>. QED BY <2>1, <2>3 DEF AllFanOut
  <1>. QED BY <1>1, <1>2 DEF Next

LEMMA FanOutAlways == Spec => [](IInv /\ AllFresh /\ AllFanOut)
  <1>1. Init => IInv /\ AllFresh /\ AllFanOut BY InitIInv, InitFresh, InitFanOut
  <1>2. IInv /\ AllFresh /\ AllFanOut /\ [Next]_vars => (IInv /\ AllFresh /\ AllFanOut)'
    BY NextIInv, NextFresh, NextFanOut
  <1>. QED BY <1>1, <1>2, PTL DEF Spec

\* A fan-out that ends well has notified everybody who was subscribed all along.
THEOREM FanOutIsComplete == Spec => []FanOutReachesSubscribers
  <1>1. AllFanOut => FanOutReachesSubscribers BY DEF AllFanOut, FanOut, FanOutReachesSubscribers
  <1>. QED BY <1>1, FanOutAlways, PTL

\* Without failing calls it breaks off only because somebody or something was deleted.
THEOREM FanOutIsRobust == Spec => []FanOutBreaksForACause
  <1>1. AllFanOut => FanOutBreaksForACause BY DEF AllFanOut, FanOut, FanOutBreaksForACause
  <1>. QED BY <1>1, FanOutAlways, PTL
=============================================================================
