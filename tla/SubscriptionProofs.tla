--------------------------- MODULE SubscriptionProofs ---------------------------
(***************************************************************************)
(* Community implements SubscriptionContract, for any users, datasets and    *)
(* mixes of requests. A step of a request either leaves the tables alone or  *)
(* executes one statement; statements of other requests end subscriptions    *)
(* only through the cascade of a deleted user or dataset.                   *)
(* Then what lists, views and digests show: a reader never sees a dataset    *)
(* because the check of access and the read of the data are two steps.      *)
(***************************************************************************)
EXTENDS CommunityProofs

\* The steps that execute a statement which writes.
Statement(o) ==
  \/ RegisterWrite(o) \/ WriteUser(o) \/ DeleteUser(o)
  \/ CreateCategory(o) \/ WriteCategory(o) \/ DeleteCategory(o)
  \/ WriteDataset(o) \/ DeleteDataset(o)
  \/ CreateReview(o) \/ WriteReview(o) \/ DeleteReview(o)
  \/ SubscribeInsert(o) \/ UnsubscribeDelete(o)
  \/ Notify(o) \/ NotifyActor(o) \/ WriteFlag(o)

\* The other steps, as far as the tables and the histories of writes go.
Quiet(o) == UNCHANGED <<db, wrote, stale>>

\* Every step is of one of the two kinds.
LEMMA Kinds ==
  ASSUME NEW o, Serve(o)
  PROVE  Statement(o) \/ Quiet(o)
  <1>1. CASE Receive(o) \/ CallFails(o)
    BY <1>1 DEF Receive, CallFails, Quiet, histories
  <1>2. CASE NextUsers(o)
    BY <1>2 DEF NextUsers, Statement, Quiet, Reads, histories, RegisterLookup, ShowUser, ShowRow,
                ReadUser, ReadRow, ReloadUser, ReloadRow, CheckEmail
  <1>3. CASE NextCategories(o)
    BY <1>3 DEF NextCategories, Statement, Quiet, Reads, histories, ShowCategory, ShowRow,
                ReadCategory, ReadRow, ReloadCategory, ReloadRow
  <1>4. CASE NextDatasets(o)
    BY <1>4 DEF NextDatasets, Statement, Quiet, Reads, Shows, histories, ReadOwnDataset, ReadRow,
                ReloadDataset, ReloadRow, ShowDataset, ShowRow, ListDatasets, GetDataset, Rate,
                CheckDigest, Digest, Provided
  <1>5. CASE NextReviews(o)
    BY <1>5 DEF NextReviews, Statement, Quiet, Reads, Shows, histories, ShowReview, ShowRow,
                ReadReview, ReadRow, ReloadReview, ReloadRow, ListFiltered, ListReviewed,
                ListReviews, ReviewsListed
  <1>6. CASE NextSubscriptions(o)
    BY <1>6 DEF NextSubscriptions, Statement, Quiet, Reads, histories, SubscribeLookup,
                SubscribeShow, UnsubscribeLookup
  <1>7. CASE NextNotifications(o)
    BY <1>7 DEF NextNotifications, Statement, Quiet, Reads, histories, ReadNotified, ReadRow,
                Collect, ReadFlagged, ReloadFlagged, ShowFlagged
  <1>. QED BY <1>1, <1>2, <1>3, <1>4, <1>5, <1>6, <1>7 DEF Serve

\* A request that has its answer takes no step, and no step moves another request.
LEMMA QuietShape ==
  ASSUME IInv, NEW o \in traffic, Serve(o), ~Statement(o)
  PROVE  /\ traffic' = traffic
         /\ pc[o] \notin Answer
         /\ \E s : pc' = [pc EXCEPT ![o] = s]
  <1>0. pc \in [traffic -> Step] BY DEF IInv, TypeOK
  <1>1. CASE Receive(o) \/ CallFails(o)
    BY <1>1 DEF Receive, CallFails, At, Running, Goto, Answer
  <1>2. CASE NextUsers(o)
    BY <1>2 DEF NextUsers, Statement, Reads, Keeps, Goto, At, Answer, RegisterLookup, ShowUser,
                ShowRow, ReadUser, ReadRow, ReloadUser, ReloadRow, CheckEmail
  <1>3. CASE NextCategories(o)
    BY <1>3 DEF NextCategories, Statement, Reads, Keeps, Goto, At, Answer, ShowCategory, ShowRow,
                ReadCategory, ReadRow, ReloadCategory, ReloadRow
  <1>4. CASE NextDatasets(o)
    BY <1>4 DEF NextDatasets, Statement, Reads, Keeps, Shows, Goto, At, Answer, ReadOwnDataset,
                ReadRow, ReloadDataset, ReloadRow, ShowDataset, ShowRow, ListDatasets, GetDataset,
                Rate, CheckDigest, Digest, Provided
  <1>5. CASE NextReviews(o)
    <2>1. CASE ListReviews(o)
      <3>1. pc' = [pc EXCEPT ![o] = pc[o]] BY <1>0, <2>1 DEF ListReviews
      <3>. QED BY <2>1, <3>1 DEF ListReviews, At, Answer
    <2>2. CASE ~ListReviews(o)
      BY <1>5, <2>2 DEF NextReviews, Statement, Reads, Keeps, Shows, Goto, At, Answer, ShowReview,
                  ShowRow, ReadReview, ReadRow, ReloadReview, ReloadRow, ListFiltered,
                  ListReviewed, ReviewsListed
    <2>. QED BY <2>1, <2>2
  <1>6. CASE NextSubscriptions(o)
    BY <1>6 DEF NextSubscriptions, Statement, Reads, Keeps, Goto, At, Answer, SubscribeLookup,
                SubscribeShow, UnsubscribeLookup
  <1>7. CASE NextNotifications(o)
    BY <1>7 DEF NextNotifications, Statement, Reads, Keeps, Goto, At, Answer, ReadNotified,
                ReadRow, Collect, ReadFlagged, ReloadFlagged, ShowFlagged
  <1>. QED BY <1>1, <1>2, <1>3, <1>4, <1>5, <1>6, <1>7 DEF Serve

\* A statement moves its request alone, and may add it to those that wrote.
LEMMA StatementShape ==
  ASSUME NEW o \in traffic, Statement(o)
  PROVE  /\ traffic' = traffic /\ UNCHANGED <<admins, seen, loaded, shown, faults>>
         /\ pc[o] \in {"write", "each", "own"}
         /\ \E r : Follow(o, r)
         /\ \E s : pc' = [pc EXCEPT ![o] = s]
         /\ wrote' = wrote \/ wrote' = wrote \cup {o}
  <1>1. \E r, steps : Done(o, r, steps)
    BY DEF Statement, RegisterWrite, WriteUser, DeleteUser, CreateCategory, WriteCategory,
           DeleteCategory, WriteDataset, DeleteDataset, CreateReview, WriteReview, DeleteReview,
           SubscribeInsert, UnsubscribeDelete, Notify, NotifyActor, WriteFlag
  <1>2. PICK r, steps : Done(o, r, steps) BY <1>1
  <1>3. UNCHANGED <<seen, loaded>> /\ pc[o] \in {"write", "each", "own"}
    BY DEF Statement, RegisterWrite, WriteUser, DeleteUser, CreateCategory, WriteCategory,
           DeleteCategory, WriteDataset, DeleteDataset, CreateReview, WriteReview, DeleteReview,
           SubscribeInsert, UnsubscribeDelete, Notify, NotifyActor, WriteFlag, At
  <1>. QED BY <1>2, <1>3 DEF Done, Follow, Keeps, Goto

\* What the steps of both kinds have in common.
LEMMA StepShape ==
  ASSUME IInv, NEW o \in traffic, Serve(o)
  PROVE  /\ traffic' = traffic
         /\ pc[o] \notin Answer
         /\ \E s : pc' = [pc EXCEPT ![o] = s]
         /\ wrote' = wrote \/ wrote' = wrote \cup {o}
  BY Kinds, QuietShape, StatementShape DEF Quiet, Answer

-----------------------------------------------------------------------------
(* Subscriptions.                                                          *)

\* What an operation on a subscription does.
LEMMA SubscriptionActions ==
  ASSUME IInv, NEW o \in traffic, Serve(o), Resource(o) = "subscriptions"
  PROVE  \/ Receive(o) \/ CallFails(o) \/ NextSubscriptions(o) \/ Rate(o) \/ Provided(o)
  <1>1. Method(o) \in {"POST", "DELETE"} /\ Place(o, pc[o])
    BY Shapes DEF IInv, Ready, WellFormed
  <1>2. ~NextUsers(o)
    BY <1>1 DEF NextUsers, RegisterLookup, RegisterWrite, ShowUser, ReadUser, ReloadUser,
                CheckEmail, WriteUser, DeleteUser, Is, At, Place
  <1>3. ~NextCategories(o)
    BY <1>1 DEF NextCategories, CreateCategory, ShowCategory, ReadCategory, ReloadCategory,
                WriteCategory, DeleteCategory, Is
  <1>4. NextDatasets(o) => Rate(o) \/ Provided(o)
    BY <1>1 DEF NextDatasets, ReadOwnDataset, ReloadDataset, WriteDataset, ShowDataset,
                DeleteDataset, ListDatasets, GetDataset, CheckDigest, Digest, Is, At, Place
  <1>5. ~NextReviews(o)
    BY <1>1 DEF NextReviews, CreateReview, ShowReview, ReadReview, ReloadReview, WriteReview,
                DeleteReview, ListFiltered, ListReviewed, ListReviews, ReviewsListed, Is
  <1>6. ~NextNotifications(o)
    BY <1>1 DEF NextNotifications, ReadNotified, Collect, Notify, NotifyActor, ReadFlagged,
                ReloadFlagged, WriteFlag, ShowFlagged, Is, At, Place
  <1>. QED BY <1>2, <1>3, <1>4, <1>5, <1>6 DEF Serve

\* What it executes.
LEMMA SubscriptionStatement ==
  ASSUME IInv, NEW o \in traffic, Statement(o), Resource(o) = "subscriptions"
  PROVE  SubscribeInsert(o) \/ UnsubscribeDelete(o)
  <1>1. ~NotifyActor(o) BY DEF NotifyActor, At, IInv, Ready, Place, Is
  <1>. QED
    BY <1>1 DEF Statement, RegisterWrite, WriteUser, DeleteUser, CreateCategory, WriteCategory,
           DeleteCategory, WriteDataset, DeleteDataset, CreateReview, WriteReview, DeleteReview,
           Notify, WriteFlag, Is

\* An operation that has not come to its write has not written.
Unwritten ==
  \A o \in traffic : Resource(o) = "subscriptions" /\ o \in wrote => pc[o] \in {"show"} \cup Answer

\* It holds at the start, and every step keeps it.
LEMMA InitUnwritten == Init => Unwritten
  BY DEF Init, InitRequests, Unwritten

LEMMA NextUnwritten ==
  ASSUME IInv, Unwritten, [Next]_vars
  PROVE  Unwritten'
  <1>1. CASE UNCHANGED vars BY <1>1 DEF vars, histories, Unwritten
  <1>2. ASSUME NEW o \in traffic, Serve(o) PROVE Unwritten'
    <2>1. /\ traffic' = traffic /\ pc[o] \notin Answer
          /\ wrote' = wrote \/ wrote' = wrote \cup {o}
      BY <1>2, StepShape
    <2>2. PICK s : pc' = [pc EXCEPT ![o] = s] BY <1>2, StepShape
    <2>3. pc \in [traffic -> Step] BY DEF IInv, TypeOK
    <2>4. ASSUME Resource(o) = "subscriptions", o \in wrote' PROVE s \in {"show"} \cup Answer
      <3>1. CASE o \in wrote
        <4>1. pc[o] = "show" BY <2>1, <2>4, <3>1 DEF Unwritten
        <4>2. CASE CallFails(o) BY <2>2, <2>3, <4>1, <4>2 DEF CallFails, Failure, Goto, Answer
        <4>3. CASE SubscribeShow(o) BY <2>2, <2>3, <4>3 DEF SubscribeShow, Goto, Answer
        <4>4. ~Receive(o) /\ ~Rate(o) /\ ~Provided(o) BY <4>1 DEF Receive, Rate, Provided, At
        <4>5. NextSubscriptions(o) => SubscribeShow(o)
          BY <4>1 DEF NextSubscriptions, SubscribeLookup, SubscribeInsert, UnsubscribeLookup,
                      UnsubscribeDelete, At
        <4>. QED BY <1>2, <2>4, <4>2, <4>3, <4>4, <4>5, SubscriptionActions
      <3>2. CASE o \notin wrote
        <4>1. Statement(o) BY <1>2, <2>4, <3>2, Kinds DEF Quiet
        <4>2. SubscribeInsert(o) \/ UnsubscribeDelete(o)
          BY <2>4, <4>1, SubscriptionStatement
        <4>3. CASE SubscribeInsert(o)
          BY <2>2, <2>3, <4>3 DEF SubscribeInsert, Done, Goto, Answer
        <4>4. CASE UnsubscribeDelete(o)
          BY <2>2, <2>3, <4>4 DEF UnsubscribeDelete, Done, Goto, Answer
        <4>. QED BY <4>2, <4>3, <4>4
      <3>. QED BY <3>1, <3>2
    <2>. QED BY <2>1, <2>2, <2>3, <2>4 DEF Unwritten
  <1>. QED BY <1>1, <1>2 DEF Next

-----------------------------------------------------------------------------
(* The refinement.                                                         *)

\* Everybody else's operation stays as it is.
LEMMA OtherOutcomes ==
  ASSUME IInv, NEW o \in traffic, Serve(o), NEW p, p # o
  PROVE  Outcome(p)' = Outcome(p)
  <1>1. traffic' = traffic /\ (wrote' = wrote \/ wrote' = wrote \cup {o}) BY StepShape
  <1>2. PICK s : pc' = [pc EXCEPT ![o] = s] BY StepShape
  <1>3. pc \in [traffic -> Step] BY DEF IInv, TypeOK
  <1>4. p \in traffic => pc'[p] = pc[p] BY <1>2, <1>3
  <1>. QED BY <1>1, <1>4 DEF Outcome

\* Statements of other requests end subscriptions through a cascade, if at all.
LEMMA OthersCascade ==
  ASSUME TablesOK, NEW o \in traffic, WellFormed(o), Statement(o), Resource(o) # "subscriptions"
  PROVE  \/ db'.subscriptions = db.subscriptions
         \/ \E u \in User : db'.subscriptions = {s \in db.subscriptions : s[1] # u}
         \/ \E d \in Dataset : db'.subscriptions = {s \in db.subscriptions : s[2] # d}
  <1>1. db \in Database BY DEF TablesOK
  <1>2. CASE RegisterWrite(o) \/ WriteUser(o)
    BY <1>1, <1>2 DEF RegisterWrite, WriteUser, InsertUser, UpdateUserRow, Database
  <1>3. CASE DeleteUser(o)
    <2>1. PICK r : DeleteUserRow(On(o), r) BY <1>3 DEF DeleteUser
    <2>2. On(o) \in User BY <1>3 DEF WellFormed, DeleteUser, Is
    <2>. QED BY <1>1, <2>1, <2>2 DEF DeleteUserRow, Database
  <1>4. CASE CreateCategory(o) \/ WriteCategory(o) \/ DeleteCategory(o)
    BY <1>1, <1>4 DEF CreateCategory, WriteCategory, DeleteCategory, InsertCategory,
                      UpdateCategoryRow, DeleteCategoryRow, Database
  <1>5. CASE WriteDataset(o)
    BY <1>1, <1>5 DEF WriteDataset, UpdateDatasetRow, Database
  <1>6. CASE DeleteDataset(o)
    <2>1. PICK r : DeleteDatasetRow(On(o), r) BY <1>6 DEF DeleteDataset
    <2>2. On(o) \in Dataset BY <1>6 DEF WellFormed, DeleteDataset, Is
    <2>. QED BY <1>1, <2>1, <2>2 DEF DeleteDatasetRow, Database
  <1>7. CASE CreateReview(o) \/ WriteReview(o) \/ DeleteReview(o)
    BY <1>1, <1>7 DEF CreateReview, WriteReview, DeleteReview, InsertReview, UpdateReviewRow,
                      DeleteReviewRow, Database
  <1>8. CASE Notify(o) \/ NotifyActor(o) \/ WriteFlag(o)
    BY <1>1, <1>8 DEF Notify, NotifyActor, WriteFlag, InsertNotification, MarkNotification, Database
  <1>9. ~SubscribeInsert(o) /\ ~UnsubscribeDelete(o) BY DEF SubscribeInsert, UnsubscribeDelete, Is
  <1>. QED BY <1>2, <1>3, <1>4, <1>5, <1>6, <1>7, <1>8, <1>9 DEF Statement

\* A look-up tells an operation that it has nothing to do only if that is so.
LEMMA RefusedForAReason ==
  ASSUME IInv, NEW o \in traffic, Serve(o), ~Statement(o), Resource(o) = "subscriptions",
         o \notin wrote, pc'[o] = (IF Method(o) = "POST" THEN "conflict" ELSE "notFound")
  PROVE  Method(o) = "POST" <=> IsSubscribed(PairOf(o))
  <1>1. pc \in [traffic -> Step] BY DEF IInv, TypeOK
  <1>2. Method(o) \in {"POST", "DELETE"} /\ Place(o, pc[o])
    BY Shapes DEF IInv, Ready, WellFormed
  <1>3. CASE Receive(o)
    <2>1. First(o) = "lookup" BY DEF First, Is
    <2>2. pc'[o] \in {"unauthorized", "forbidden", "lookup"}
      BY <1>1, <1>3, <2>1 DEF Receive, Goto
    <2>. QED BY <2>2
  <1>4. CASE CallFails(o)
    <2>1. pc'[o] = Failure(o) BY <1>1, <1>4 DEF CallFails, Goto
    <2>2. Failure(o) \notin {"conflict", "notFound"} BY <1>2 DEF Failure
    <2>. QED BY <2>1, <2>2
  <1>5. CASE Rate(o) \/ Provided(o)
    <2>1. pc'[o] = "ok" BY <1>1, <1>5 DEF Rate, Provided, Goto
    <2>. QED BY <2>1
  <1>6. CASE SubscribeLookup(o) BY <1>1, <1>6 DEF SubscribeLookup, Goto, Is
  <1>7. CASE UnsubscribeLookup(o) BY <1>1, <1>7 DEF UnsubscribeLookup, Goto, Is
  <1>8. CASE SubscribeShow(o)
    <2>1. pc'[o] \in {"created", "notFound"} /\ Method(o) = "POST"
      BY <1>1, <1>8 DEF SubscribeShow, Goto, Is
    <2>. QED BY <2>1
  <1>. QED BY <1>3, <1>4, <1>5, <1>6, <1>7, <1>8, SubscriptionActions
        DEF NextSubscriptions, Statement

\* A step of an operation on a subscription.
LEMMA OwnOutcome ==
  ASSUME IInv, Unwritten, NEW o \in traffic, Serve(o), Resource(o) = "subscriptions"
  PROVE  \/ Outcome(o)' = Outcome(o) /\ db'.subscriptions = db.subscriptions
         \/ /\ Outcome(o) = "open"
            /\ \/ /\ Outcome(o)' = "done"
                  /\ IF Method(o) = "POST"
                     THEN /\ ~IsSubscribed(PairOf(o))
                          /\ db'.subscriptions = db.subscriptions \cup {PairOf(o)}
                     ELSE /\ IsSubscribed(PairOf(o))
                          /\ db'.subscriptions = db.subscriptions \ {PairOf(o)}
               \/ /\ Outcome(o)' = "refused" /\ db'.subscriptions = db.subscriptions
                  /\ Method(o) = "POST" <=> IsSubscribed(PairOf(o))
               \/ Outcome(o)' = "failed" /\ db'.subscriptions = db.subscriptions
  <1>1. /\ traffic' = traffic /\ pc[o] \notin Answer
        /\ wrote' = wrote \/ wrote' = wrote \cup {o}
    BY StepShape
  <1>2. o \in SubscriptionOp /\ (o \in Adding <=> Method(o) = "POST") /\ db \in Database
    BY Shapes DEF IInv, TypeOK, TablesOK, SubscriptionOp, Adding
  <1>3. pc \in [traffic -> Step] BY DEF IInv, TypeOK
  <1>4. o \notin wrote => Outcome(o) = "open" BY <1>1 DEF Outcome
  <1>5. CASE ~Statement(o)
    <2>1. UNCHANGED <<db, wrote>> BY <1>5, Kinds DEF Quiet
    <2>2. CASE o \in wrote BY <1>1, <2>1, <2>2 DEF Outcome
    <2>3. CASE o \notin wrote
      <3>1. Outcome(o)' \in {"open", "refused", "failed"} BY <1>1, <2>1, <2>3 DEF Outcome
      <3>2. ASSUME Outcome(o)' = "refused" PROVE Method(o) = "POST" <=> IsSubscribed(PairOf(o))
        <4>1. pc'[o] = (IF Method(o) = "POST" THEN "conflict" ELSE "notFound")
          BY <1>1, <1>2, <2>1, <2>3, <3>2 DEF Outcome
        <4>. QED BY <1>5, <2>3, <4>1, RefusedForAReason
      <3>. QED BY <1>4, <2>1, <2>3, <3>1, <3>2
    <2>. QED BY <2>2, <2>3
  <1>6. CASE SubscribeInsert(o)
    <2>1. PICK r \in {"ok", "exists", "error"} :
            /\ InsertSubscription(PairOf(o), r)
            /\ Done(o, r, [ok |-> IF Api(o) = "v2" THEN "show" ELSE "ok",
                           exists |-> "conflict", error |-> "error"])
      BY <1>6 DEF SubscribeInsert
    <2>2. o \notin wrote /\ Method(o) = "POST"
      BY <1>6 DEF SubscribeInsert, At, Is, Unwritten, Answer
    <2>3. CASE r = "ok"
      <3>1. wrote' = wrote \cup {o} BY <2>1, <2>3 DEF Done, Follow
      <3>2. ~IsSubscribed(PairOf(o)) /\ db'.subscriptions = db.subscriptions \cup {PairOf(o)}
        BY <1>2, <2>1, <2>3 DEF InsertSubscription, Database
      <3>. QED BY <1>4, <2>2, <3>1, <3>2 DEF Outcome
    <2>4. CASE r # "ok"
      <3>1. wrote' = wrote /\ db' = db BY <2>1, <2>4 DEF Done, Follow, InsertSubscription
      <3>2. pc'[o] = IF r = "exists" THEN "conflict" ELSE "error"
        BY <1>3, <2>1, <2>4 DEF Done, Goto
      <3>3. r = "exists" => IsSubscribed(PairOf(o)) BY <2>1 DEF InsertSubscription
      <3>4. Outcome(o)' = IF r = "exists" THEN "refused" ELSE "failed"
        BY <1>1, <1>2, <2>2, <3>1, <3>2 DEF Outcome, Answer
      <3>. QED BY <1>4, <2>2, <3>1, <3>3, <3>4
    <2>. QED BY <2>3, <2>4
  <1>7. CASE UnsubscribeDelete(o)
    <2>1. PICK r \in {"ok", "none"} :
            DeleteSubscription(PairOf(o), r) /\ Done(o, r, [ok |-> "ok", none |-> "notFound"])
      BY <1>7 DEF UnsubscribeDelete
    <2>2. o \notin wrote /\ Method(o) = "DELETE"
      BY <1>7 DEF UnsubscribeDelete, At, Is, Unwritten, Answer
    <2>3. CASE r = "ok"
      <3>1. wrote' = wrote \cup {o} BY <2>1, <2>3 DEF Done, Follow
      <3>2. IsSubscribed(PairOf(o)) /\ db'.subscriptions = db.subscriptions \ {PairOf(o)}
        BY <1>2, <2>1, <2>3 DEF DeleteSubscription, Database
      <3>. QED BY <1>4, <2>2, <3>1, <3>2 DEF Outcome
    <2>4. CASE r # "ok"
      <3>1. wrote' = wrote /\ db' = db /\ ~IsSubscribed(PairOf(o))
        BY <2>1, <2>4 DEF Done, Follow, DeleteSubscription
      <3>2. pc'[o] = "notFound" BY <1>3, <2>1, <2>4 DEF Done, Goto
      <3>3. Outcome(o)' = "refused"
        BY <1>1, <1>2, <2>2, <3>1, <3>2 DEF Outcome, Answer
      <3>. QED BY <1>4, <2>2, <3>1, <3>3
    <2>. QED BY <2>3, <2>4
  <1>. QED BY <1>5, <1>6, <1>7, SubscriptionStatement

\* The start of the contract.
LEMMA ContractInit == Init => Contract!Init
  <1>. SUFFICES ASSUME Init PROVE Contract!Init OBVIOUS
  <1>1. ASSUME NEW o \in SubscriptionOp PROVE Outcome(o) = "open"
    BY DEF Init, InitRequests, Outcome, Answer
  <1>. QED BY <1>1 DEF Init, Contract!Init

\* Every step is one of the contract, or changes nothing it speaks of.
LEMMA ContractStep ==
  ASSUME IInv, Unwritten, [Next]_vars
  PROVE  [Contract!Next]_Contract!contractVars
  <1>1. CASE UNCHANGED vars
    <2>1. \A o \in SubscriptionOp : Outcome(o)' = Outcome(o)
      BY <1>1 DEF vars, histories, Outcome
    <2>2. db'.subscriptions = db.subscriptions BY <1>1 DEF vars
    <2>. QED BY <2>1, <2>2 DEF Contract!contractVars
  <1>2. ASSUME NEW o \in traffic, Serve(o) PROVE [Contract!Next]_Contract!contractVars
    <2>1. \A p : p # o => Outcome(p)' = Outcome(p) BY <1>2, OtherOutcomes
    <2>2. o \in Op /\ WellFormed(o) /\ TablesOK BY Shapes DEF IInv, TypeOK
    <2>3. CASE Resource(o) # "subscriptions"
      <3>1. \A p \in SubscriptionOp : Outcome(p)' = Outcome(p)
        BY <2>1, <2>3 DEF SubscriptionOp
      <3>2. \/ db'.subscriptions = db.subscriptions
            \/ \E u \in User : db'.subscriptions = {s \in db.subscriptions : s[1] # u}
            \/ \E d \in Dataset : db'.subscriptions = {s \in db.subscriptions : s[2] # d}
        BY <1>2, <2>2, <2>3, Kinds, OthersCascade DEF Quiet
      <3>3. CASE db'.subscriptions = db.subscriptions
        BY <3>1, <3>3 DEF Contract!contractVars
      <3>4. CASE db'.subscriptions # db.subscriptions
        BY <3>1, <3>2, <3>4 DEF Contract!Next, Contract!Cascade
      <3>. QED BY <3>3, <3>4
    <2>4. CASE Resource(o) = "subscriptions"
      <3>. DEFINE ends(result) ==
             [p \in SubscriptionOp |-> Outcome(p)]' =
               [[p \in SubscriptionOp |-> Outcome(p)] EXCEPT ![o] = result]
      <3>1. o \in SubscriptionOp /\ (o \in Adding <=> Method(o) = "POST")
        BY <2>2, <2>4 DEF SubscriptionOp, Adding
      <3>2. \A result : Outcome(o)' = result => ends(result) BY <2>1, <3>1
      <3>3. CASE Outcome(o)' = Outcome(o) /\ db'.subscriptions = db.subscriptions
        <4>1. \A p \in SubscriptionOp : Outcome(p)' = Outcome(p) BY <2>1, <3>3
        <4>. QED BY <3>3, <4>1 DEF Contract!contractVars
      <3>4. CASE Outcome(o) = "open" /\ Outcome(o)' = "done" /\ Method(o) = "POST"
                 /\ ~IsSubscribed(PairOf(o))
                 /\ db'.subscriptions = db.subscriptions \cup {PairOf(o)}
        <4>1. ends("done") BY <3>2, <3>4
        <4>2. Contract!Subscribe(o)
          BY <3>1, <3>4, <4>1 DEF Contract!Subscribe, Contract!Ends, IsSubscribed
        <4>. QED BY <3>1, <4>2 DEF Contract!Next
      <3>5. CASE Outcome(o) = "open" /\ Outcome(o)' = "done" /\ Method(o) # "POST"
                 /\ IsSubscribed(PairOf(o))
                 /\ db'.subscriptions = db.subscriptions \ {PairOf(o)}
        <4>1. ends("done") BY <3>2, <3>5
        <4>2. Contract!Unsubscribe(o)
          BY <3>1, <3>5, <4>1 DEF Contract!Unsubscribe, Contract!Ends, IsSubscribed
        <4>. QED BY <3>1, <4>2 DEF Contract!Next
      <3>6. CASE Outcome(o) = "open" /\ Outcome(o)' = "refused"
                 /\ db'.subscriptions = db.subscriptions
                 /\ (Method(o) = "POST" <=> IsSubscribed(PairOf(o)))
        <4>1. ends("refused") BY <3>2, <3>6
        <4>2. Contract!Refuse(o)
          BY <3>1, <3>6, <4>1 DEF Contract!Refuse, Contract!Ends, IsSubscribed
        <4>. QED BY <3>1, <4>2 DEF Contract!Next
      <3>7. CASE Outcome(o) = "open" /\ Outcome(o)' = "failed"
                 /\ db'.subscriptions = db.subscriptions
        <4>1. ends("failed") BY <3>2, <3>7
        <4>2. Contract!Fail(o) BY <3>1, <3>7, <4>1 DEF Contract!Fail, Contract!Ends
        <4>. QED BY <3>1, <4>2 DEF Contract!Next
      <3>. QED BY <1>2, <2>4, <3>3, <3>4, <3>5, <3>6, <3>7, OwnOutcome
    <2>. QED BY <2>3, <2>4
  <1>. QED BY <1>1, <1>2 DEF Next

\* Subscriptions keep their contract, however look-ups and writes interleave and
\* whatever is deleted meanwhile.
THEOREM SubscriptionRefinement == Spec => SubscriptionsKeepContract
  <1>1. Init => IInv /\ Unwritten BY InitIInv, InitUnwritten
  <1>2. IInv /\ Unwritten /\ [Next]_vars => (IInv /\ Unwritten)'
    BY NextIInv, NextUnwritten
  <1>3. Spec => [](IInv /\ Unwritten) BY <1>1, <1>2, PTL DEF Spec
  <1>4. IInv /\ Unwritten /\ [Next]_vars => [Contract!Next]_Contract!contractVars
    BY ContractStep
  <1>. QED BY <1>3, <1>4, ContractInit, PTL DEF Spec, SubscriptionsKeepContract, Contract!Spec

-----------------------------------------------------------------------------
(* Disclosure.                                                             *)

\* The dataset has been public since the request came, or the reader has a right to it.
Readable(o, d) ==
  HasDataset(d) =>
    \/ d \in public[o]
    \/ IsAdmin(o)
    \/ By(o) # Nobody /\ db.datasets[d].owner = By(o)

\* A list that is open to everybody.
Open(o) == Is(o, "GET", "reviews") /\ Filtered(o)

\* What a request knows of the datasets it has shown or will show.
Discreet(o) ==
  /\ pc[o] = "ready" => shown[o] = {} /\ todo[o] = {}
  /\ Running(o) => PublicDatasets \subseteq public[o]
  /\ Is(o, "GET", "reviews") => todo[o] \subseteq public[o]
  /\ pc[o] = "digest" => Readable(o, On(o))
  /\ \A d \in shown[o] : Open(o) \/ Readable(o, d)

AllDiscreet == \A o \in traffic : Discreet(o)

-----------------------------------------------------------------------------
(* Rows of datasets.                                                       *)

\* No dataset comes back, and none changes its owner.
LEMMA OwnersStay ==
  ASSUME IInv, NEW o \in traffic, Serve(o), NEW d \in Dataset, HasDataset(d)'
  PROVE  HasDataset(d) /\ db'.datasets[d].owner = db.datasets[d].owner
  <1>1. db \in Database /\ db.datasets \in [Dataset -> DatasetRow \cup {NoRow}] /\ WellFormed(o)
    BY Shapes, Fields DEF IInv, TypeOK, TablesOK
  <1>2. CASE db'.datasets = db.datasets BY <1>2 DEF HasDataset
  <1>3. CASE WriteDataset(o)
    <2>1. PICK r : UpdateDatasetRow(On(o), DatasetUpdated(o), r) BY <1>3 DEF WriteDataset
    <2>2. On(o) \in Dataset BY <1>1, <1>3 DEF WriteDataset, WellFormed, Is
    <2>3. DatasetUpdated(o) \in DatasetRow
      BY <1>3, UpdatesTyped DEF WriteDataset, Changes, OnRows, Is
    <2>4. CASE UNCHANGED db BY <1>2, <2>4
    <2>5. CASE ~UNCHANGED db
      <3>1. /\ HasDataset(On(o))
            /\ db'.datasets = [db.datasets EXCEPT
                 ![On(o)] = [DatasetUpdated(o) EXCEPT !.owner = db.datasets[On(o)].owner]]
        BY <1>1, <2>1, <2>5 DEF UpdateDatasetRow, Database
      <3>. QED BY <1>1, <2>2, <2>3, <3>1 DEF HasDataset, DatasetRow
    <2>. QED BY <2>4, <2>5
  <1>4. CASE DeleteDataset(o)
    <2>1. PICK r : DeleteDatasetRow(On(o), r) BY <1>4 DEF DeleteDataset
    <2>2. CASE UNCHANGED db BY <1>2, <2>2
    <2>3. CASE ~UNCHANGED db
      <3>1. db'.datasets = [db.datasets EXCEPT ![On(o)] = NoRow]
        BY <1>1, <2>1, <2>3 DEF DeleteDatasetRow, Database
      <3>. QED BY <1>1, <3>1 DEF HasDataset
    <2>. QED BY <2>2, <2>3
  <1>5. CASE ~WriteDataset(o) /\ ~DeleteDataset(o)
    <2>1. CASE Quiet(o) BY <1>2, <2>1 DEF Quiet
    <2>2. CASE RegisterWrite(o) \/ WriteUser(o)
      BY <1>1, <1>2, <2>2 DEF RegisterWrite, WriteUser, InsertUser, UpdateUserRow, Database
    <2>3. CASE DeleteUser(o)
      BY <1>1, <1>2, <2>3 DEF DeleteUser, DeleteUserRow, Database
    <2>4. CASE CreateCategory(o) \/ WriteCategory(o) \/ DeleteCategory(o)
      BY <1>1, <1>2, <2>4 DEF CreateCategory, WriteCategory, DeleteCategory, InsertCategory,
                        UpdateCategoryRow, DeleteCategoryRow, Database
    <2>5. CASE CreateReview(o) \/ WriteReview(o) \/ DeleteReview(o)
      BY <1>1, <1>2, <2>5 DEF CreateReview, WriteReview, DeleteReview, InsertReview,
                        UpdateReviewRow, DeleteReviewRow, Database
    <2>6. CASE Notify(o) \/ NotifyActor(o) \/ WriteFlag(o)
      BY <1>1, <1>2, <2>6 DEF Notify, NotifyActor, WriteFlag, InsertNotification,
                        MarkNotification, Database
    <2>7. CASE SubscribeInsert(o) \/ UnsubscribeDelete(o)
      BY <1>1, <1>2, <2>7 DEF SubscribeInsert, UnsubscribeDelete, InsertSubscription,
                        DeleteSubscription, Database
    <2>. QED BY <1>5, <2>1, <2>2, <2>3, <2>4, <2>5, <2>6, <2>7, Kinds DEF Statement
  <1>. QED BY <1>3, <1>4, <1>5

\* What its reader might see stays so as long as nothing is taken back.
LEMMA ReadableStays ==
  ASSUME IInv, NEW o \in traffic, Serve(o), NEW p, NEW d \in Dataset, Readable(p, d),
         public[p] \subseteq public'[p], p \in admins => p \in admins'
  PROVE  Readable(p, d)'
  BY OwnersStay DEF Readable, IsAdmin

-----------------------------------------------------------------------------
(* Kinds of steps.                                                         *)

\* The steps that find something to show.
Displays(o) ==
  \/ ListDatasets(o) \/ GetDataset(o) \/ CheckDigest(o) \/ Digest(o)
  \/ ListFiltered(o) \/ ListReviewed(o) \/ ListReviews(o)

Plain(o) == ~Statement(o) /\ ~Displays(o) /\ ~Receive(o)

\* Failures and first calls.
LEMMA WhereTo ==
  ASSUME NEW o, pc[o] \notin Answer
  PROVE  /\ First(o) \in {"lookup", "collect", "read", "reload", "write", "list"}
         /\ Failure(o) \in Answer \cup {"each"}
         /\ pc[o] = "ready" => Failure(o) = "unauthorized"
  BY DEF First, Failure, Answer

\* What the other reading steps have in common.
LEMMA PlainShape ==
  ASSUME IInv, NEW o \in traffic, Serve(o), Plain(o)
  PROVE  /\ UNCHANGED <<db, admins, public, shown>>
         /\ pc[o] = "ready" => pc'[o] \in Answer
         /\ pc'[o] \notin {"ready", "digest"}
         /\ Is(o, "GET", "reviews") => todo'[o] \subseteq todo[o]
         /\ \A p \in traffic : p # o => todo'[p] = todo[p]
  <1>1. /\ pc \in [traffic -> Step] /\ todo \in [traffic -> SUBSET (User \cup Dataset)]
        /\ WellFormed(o) /\ ~Statement(o) /\ ~Displays(o) /\ ~Receive(o)
    BY Shapes DEF IInv, TypeOK, Plain
  <1>2. CASE CallFails(o)
    <2>1. pc[o] \notin Answer BY StepShape
    <2>2. pc'[o] = Failure(o) BY <1>1, <1>2 DEF CallFails, Goto
    <2>3. UNCHANGED <<db, admins, public, shown>> BY <1>2 DEF CallFails, histories
    <2>4. \/ todo' = todo
          \/ \E d \in todo[o] : todo' = [todo EXCEPT ![o] = @ \ {d}]
      BY <1>2 DEF CallFails
    <2>. QED BY <1>1, <2>1, <2>2, <2>3, <2>4, WhereTo DEF Answer
  <1>3. CASE NextUsers(o)
    BY <1>1, <1>3 DEF NextUsers, Statement, Reads, Keeps, histories, Goto, At, Answer,
         RegisterLookup, ShowUser, ShowRow, ReadUser, ReadRow, ReloadUser, ReloadRow, CheckEmail
  <1>4. CASE NextCategories(o)
    BY <1>1, <1>4 DEF NextCategories, Statement, Reads, Keeps, histories, Goto, At, Answer,
         ShowCategory, ShowRow, ReadCategory, ReadRow, ReloadCategory, ReloadRow
  <1>5. CASE NextDatasets(o)
    BY <1>1, <1>5 DEF NextDatasets, Statement, Displays, Reads, Keeps, histories, Goto, At, Answer,
         ReadOwnDataset, ReadRow, ReloadDataset, ReloadRow, ShowDataset, ShowRow, Rate, Provided
  <1>6. CASE NextReviews(o)
    BY <1>1, <1>6 DEF NextReviews, Statement, Displays, Reads, Keeps, histories, Goto, At, Answer,
         ShowReview, ShowRow, ReadReview, ReadRow, ReloadReview, ReloadRow, ReviewsListed
  <1>7. CASE NextSubscriptions(o)
    BY <1>1, <1>7 DEF NextSubscriptions, Statement, Reads, Keeps, histories, Goto, At, Answer,
         SubscribeLookup, SubscribeShow, UnsubscribeLookup
  <1>8. CASE NextNotifications(o)
    <2>1. Collect(o) => ~Is(o, "GET", "reviews")
      BY DEF IInv, Ready, Place, Collect, At, Is
    <2>. QED
      BY <1>1, <1>8, <2>1 DEF NextNotifications, Statement, Reads, Keeps, histories, Goto, At, Answer,
         ReadNotified, ReadRow, Collect, ReadFlagged, ReloadFlagged, ShowFlagged
  <1>. QED BY <1>1, <1>2, <1>3, <1>4, <1>5, <1>6, <1>7, <1>8 DEF Serve

\* What statements have in common.
LEMMA WritingShape ==
  ASSUME IInv, NEW o \in traffic, Statement(o)
  PROVE  /\ UNCHANGED <<admins, shown>>
         /\ \A p \in traffic :
              public'[p] = IF Running(p) THEN public[p] \cup PublicDatasets' ELSE public[p]
         /\ Running(o)
         /\ pc'[o] \notin {"ready", "digest"}
         /\ todo'[o] \subseteq todo[o]
         /\ \A p \in traffic : p # o => todo'[p] = todo[p]
  <1>1. pc \in [traffic -> Step] /\ todo \in [traffic -> SUBSET (User \cup Dataset)]
    BY DEF IInv, TypeOK
  <1>2. UNCHANGED <<admins, shown>> /\ Running(o) BY StatementShape DEF Running, Answer
  <1>3. PICK r : Follow(o, r) BY StatementShape
  <1>4. CASE RegisterWrite(o) \/ WriteUser(o) \/ DeleteUser(o)
    BY <1>1, <1>2, <1>3, <1>4 DEF RegisterWrite, WriteUser, DeleteUser, Done, Goto, Follow
  <1>5. CASE CreateCategory(o) \/ WriteCategory(o) \/ DeleteCategory(o)
    BY <1>1, <1>2, <1>3, <1>5 DEF CreateCategory, WriteCategory, DeleteCategory, Done, Goto, Follow
  <1>6. CASE WriteDataset(o) \/ DeleteDataset(o)
    BY <1>1, <1>2, <1>3, <1>6 DEF WriteDataset, DeleteDataset, Done, Goto, Follow
  <1>7. CASE CreateReview(o) \/ WriteReview(o) \/ DeleteReview(o)
    BY <1>1, <1>2, <1>3, <1>7 DEF CreateReview, WriteReview, DeleteReview, Done, Goto, Follow
  <1>8. CASE SubscribeInsert(o) \/ UnsubscribeDelete(o)
    BY <1>1, <1>2, <1>3, <1>8 DEF SubscribeInsert, UnsubscribeDelete, Done, Goto, Follow
  <1>9. CASE Notify(o)
    <2>1. PICK u \in todo[o], s \in {"ok", "error"} :
            /\ todo' = IF s = "ok" THEN [todo EXCEPT ![o] = @ \ {u}] ELSE todo
            /\ Done(o, s, [ok |-> NextAfter(o, u), error |-> "error"])
      BY <1>9 DEF Notify
    <2>2. pc'[o] \in {"each", "own", "ok", "error"}
      BY <1>1, <2>1 DEF Done, Goto, NextAfter, AfterFanOut
    <2>. QED BY <1>1, <1>2, <1>3, <2>1, <2>2 DEF Follow
  <1>10. CASE NotifyActor(o) \/ WriteFlag(o)
    BY <1>1, <1>2, <1>3, <1>10 DEF NotifyActor, WriteFlag, Done, Goto, Follow
  <1>. QED BY <1>4, <1>5, <1>6, <1>7, <1>8, <1>9, <1>10 DEF Statement

-----------------------------------------------------------------------------
(* The invariant.                                                          *)

\* Public datasets are rows of the table.
LEMMA PublicAreDatasets == PublicDatasets \subseteq Dataset
  BY DEF PublicDatasets, AllDatasets

\* Steps that show nothing new keep it.
LEMMA BystandersDiscreet ==
  ASSUME IInv, AllDiscreet, NEW o \in traffic, Serve(o), Plain(o) \/ Statement(o)
  PROVE  AllDiscreet'
  <1>1. /\ traffic' = traffic /\ pc[o] \notin Answer
        /\ pc \in [traffic -> Step] /\ public \in [traffic -> SUBSET Dataset]
        /\ shown \in [traffic -> SUBSET Dataset]
    BY StepShape DEF IInv, TypeOK
  <1>2. PICK s : pc' = [pc EXCEPT ![o] = s] BY StepShape
  <1>3. /\ UNCHANGED <<admins, shown>>
        /\ pc'[o] \notin {"ready", "digest"}
        /\ Is(o, "GET", "reviews") => todo'[o] \subseteq todo[o]
        /\ \A p \in traffic : p # o => todo'[p] = todo[p]
    BY PlainShape, WritingShape
  <1>4. ASSUME NEW p \in traffic
        PROVE  public[p] \subseteq public'[p] /\ (Running(p)' => PublicDatasets' \subseteq public'[p])
    <2>1. CASE Plain(o)
      <3>1. UNCHANGED <<db, public>> /\ (pc[o] = "ready" => pc'[o] \in Answer)
        BY <2>1, PlainShape
      <3>2. Running(p)' => Running(p) BY <1>1, <1>2, <3>1 DEF Running
      <3>. QED BY <3>1, <3>2 DEF AllDiscreet, Discreet, PublicDatasets, AllDatasets, HasDataset
    <2>2. CASE Statement(o)
      <3>1. /\ public'[p] = IF Running(p) THEN public[p] \cup PublicDatasets' ELSE public[p]
            /\ Running(o)
        BY <2>2, WritingShape
      <3>2. Running(p)' => Running(p) BY <1>1, <1>2, <3>1 DEF Running
      <3>. QED BY <3>1, <3>2
    <2>. QED BY <2>1, <2>2
  <1>5. ASSUME NEW p \in traffic PROVE Discreet(p)'
    <2>1. pc'[p] = IF p = o THEN s ELSE pc[p] BY <1>1, <1>2
    <2>2. pc'[p] = "ready" => shown'[p] = {} /\ todo'[p] = {}
      BY <1>3, <2>1 DEF AllDiscreet, Discreet
    <2>3. Is(p, "GET", "reviews") => todo'[p] \subseteq public'[p]
      BY <1>3, <1>4 DEF AllDiscreet, Discreet
    <2>4. ASSUME NEW d \in Dataset, Readable(p, d) PROVE Readable(p, d)'
      BY <1>3, <1>4, <2>4, ReadableStays
    <2>5. pc'[p] = "digest" => Readable(p, On(p))'
      <3>. SUFFICES ASSUME pc'[p] = "digest" PROVE Readable(p, On(p))' OBVIOUS
      <3>1. pc[p] = "digest" BY <1>3, <2>1
      <3>2. On(p) \in Dataset
        BY <3>1, Shapes DEF IInv, Ready, Place, WellFormed
      <3>. QED BY <2>4, <3>1, <3>2 DEF AllDiscreet, Discreet
    <2>6. \A d \in shown'[p] : Open(p) \/ Readable(p, d)'
      BY <1>1, <1>3, <2>4 DEF AllDiscreet, Discreet
    <2>. QED BY <1>4, <2>2, <2>3, <2>5, <2>6 DEF Discreet, Open
  <1>. QED BY <1>1, <1>5 DEF AllDiscreet

\* A request that is received knows what is public now.
LEMMA ReceiveDiscreet ==
  ASSUME IInv, AllDiscreet, NEW o \in traffic, Serve(o), Receive(o)
  PROVE  AllDiscreet'
  <1>1. /\ pc \in [traffic -> Step] /\ public \in [traffic -> SUBSET Dataset]
        /\ At(o, "ready") /\ UNCHANGED <<db, traffic, todo, shown>>
        /\ public' = [public EXCEPT ![o] = PublicDatasets]
        /\ admins \subseteq admins'
    BY DEF IInv, TypeOK, Receive
  <1>2. PICK s \in {"unauthorized", "forbidden", First(o)} : pc' = [pc EXCEPT ![o] = s]
    BY DEF Receive, Goto
  <1>3. s \notin {"ready", "digest"} BY <1>1, <1>2, WhereTo DEF At, Answer
  <1>4. \A p \in traffic : p # o => admins' \cap {p} = admins \cap {p}
    BY DEF Receive
  <1>5. ASSUME NEW p \in traffic PROVE Discreet(p)'
    <2>1. CASE p = o
      <3>1. shown'[o] = {} /\ todo'[o] = {} BY <1>1 DEF AllDiscreet, Discreet, At
      <3>2. pc'[o] = s /\ public'[o] = PublicDatasets BY <1>1, <1>2
      <3>3. PublicDatasets' = PublicDatasets
        BY <1>1 DEF PublicDatasets, AllDatasets, HasDataset
      <3>. QED BY <1>3, <2>1, <3>1, <3>2, <3>3 DEF Discreet
    <2>2. CASE p # o
      <3>1. pc'[p] = pc[p] /\ public'[p] = public[p] BY <1>1, <1>2, <2>2
      <3>2. (p \in admins') = (p \in admins) BY <1>4, <2>2
      <3>. QED BY <1>1, <3>1, <3>2 DEF AllDiscreet, Discreet, Running, Readable, HasDataset,
                IsAdmin, Open, PublicDatasets, AllDatasets
    <2>. QED BY <2>1, <2>2
  <1>. QED BY <1>1, <1>5 DEF AllDiscreet

\* A reader with a right to a row has a right to its dataset.
LEMMA CheckedIsReadable ==
  ASSUME AllDiscreet, NEW o \in traffic, Running(o), NEW d \in Dataset,
         HasDataset(d) => DatasetReadable(o, db.datasets[d])
  PROVE  Readable(o, d)
  BY DEF AllDiscreet, Discreet, Readable, DatasetReadable, PublicDatasets, AllDatasets

\* What is shown is what the reader might see.
LEMMA DisplaysReadable ==
  ASSUME IInv, AllDiscreet, NEW o \in traffic, Displays(o)
  PROVE  /\ UNCHANGED <<db, traffic, admins, public>>
         /\ Running(o)
         /\ pc'[o] # "ready"
         /\ pc'[o] = "digest" => Readable(o, On(o))
         /\ \A p \in traffic : p # o => todo'[p] = todo[p] /\ shown'[p] = shown[p]
         /\ Is(o, "GET", "reviews") => todo'[o] \subseteq public[o]
         /\ \A d \in shown'[o] : Open(o) \/ Readable(o, d)
  <1>1. /\ pc \in [traffic -> Step] /\ public \in [traffic -> SUBSET Dataset]
        /\ shown \in [traffic -> SUBSET Dataset]
        /\ todo \in [traffic -> SUBSET (User \cup Dataset)]
        /\ WellFormed(o)
    BY Shapes DEF IInv, TypeOK
  <1>2. Running(o)
    BY DEF Displays, ListDatasets, GetDataset, CheckDigest, ReadRow, Digest, ListFiltered,
           ListReviewed, ListReviews, At, Running, Answer
  <1>3. Discreet(o) BY DEF AllDiscreet
  <1>4. CASE ListDatasets(o)
    <2>1. Shows(o, Viewed(o), IF Viewed(o) = {} THEN "ok" ELSE "ratings") /\ ~Is(o, "GET", "reviews")
      BY <1>4 DEF ListDatasets, Is
    <2>2. ASSUME NEW d \in Viewed(o) PROVE Readable(o, d)
      <3>1. d \in Dataset /\ DatasetReadable(o, db.datasets[d])
        BY DEF Viewed, Queried, DatasetsOf, PublicDatasets, AllDatasets
      <3>. QED BY <1>2, <3>1, CheckedIsReadable
    <2>. QED BY <1>1, <1>2, <2>1, <2>2 DEF Shows, Goto, histories
  <1>5. CASE GetDataset(o)
    <2>1. On(o) \in Dataset /\ Row(o) = db.datasets[On(o)] /\ ~Is(o, "GET", "reviews")
      BY <1>1, <1>5 DEF GetDataset, WellFormed, Is, Row, TableOf
    <2>2. CASE HasRow(o) /\ DatasetReadable(o, Row(o))
      <3>1. Shows(o, {On(o)}, "ratings") BY <1>5, <2>2 DEF GetDataset
      <3>2. Readable(o, On(o)) BY <1>2, <2>1, <2>2, CheckedIsReadable
      <3>. QED BY <1>1, <1>2, <2>1, <3>1, <3>2 DEF Shows, Goto, histories
    <2>3. CASE ~(HasRow(o) /\ DatasetReadable(o, Row(o)))
      <3>1. Reads /\ (Goto(o, "notFound") \/ Goto(o, "forbidden")) BY <1>5, <2>3 DEF GetDataset
      <3>. QED BY <1>1, <1>2, <1>3, <2>1, <3>1 DEF Reads, Keeps, Goto, histories, Discreet
    <2>. QED BY <2>2, <2>3
  <1>6. CASE CheckDigest(o)
    <2>1. On(o) \in Dataset /\ Row(o) = db.datasets[On(o)] /\ Method(o) = "GET"
          /\ ~Is(o, "GET", "reviews")
      BY <1>1, <1>6 DEF CheckDigest, WellFormed, Is, Row, TableOf
    <2>2. PICK s \in {"notFound", "forbidden", "digest"} :
            /\ Goto(o, s) /\ Keeps /\ UNCHANGED <<db, loaded, todo, histories>>
            /\ s = "digest" => HasRow(o) /\ DatasetReadable(o, Row(o))
      BY <1>6 DEF CheckDigest, ReadRow
    <2>3. s = "digest" => Readable(o, On(o)) BY <1>2, <2>1, <2>2, CheckedIsReadable
    <2>. QED BY <1>1, <1>2, <1>3, <2>1, <2>2, <2>3 DEF Keeps, Goto, histories, Discreet
  <1>7. CASE Digest(o)
    <2>1. Readable(o, On(o)) /\ ~Is(o, "GET", "reviews")
      BY <1>3, <1>7 DEF Digest, At, Discreet, IInv, Ready, Place, Is
    <2>2. CASE HasRow(o)
      <3>1. Shows(o, {On(o)}, "provider") BY <1>7, <2>2 DEF Digest
      <3>. QED BY <1>1, <1>2, <2>1, <3>1 DEF Shows, Goto, histories
    <2>3. CASE ~HasRow(o)
      <3>1. Reads /\ Goto(o, "notFound") BY <1>7, <2>3 DEF Digest
      <3>. QED BY <1>1, <1>2, <1>3, <2>1, <3>1 DEF Reads, Keeps, Goto, histories, Discreet
    <2>. QED BY <2>2, <2>3
  <1>8. CASE ListFiltered(o)
    <2>1. Shows(o, {db.reviews[v].dataset : v \in ReviewsAsked(o)}, "ok") /\ Open(o)
      BY <1>8 DEF ListFiltered, Open
    <2>. QED BY <1>1, <1>2, <1>3, <2>1 DEF Shows, Goto, histories, Discreet
  <1>9. CASE ListReviewed(o)
    <2>1. todo' = [todo EXCEPT ![o] = PublicDatasets] /\ Goto(o, "each") /\ Keeps
          /\ UNCHANGED <<db, histories>>
      BY <1>9 DEF ListReviewed
    <2>. QED BY <1>1, <1>2, <1>3, <2>1 DEF Keeps, Goto, histories, Discreet
  <1>10. CASE ListReviews(o)
    <2>1. PICK d \in todo[o] :
            /\ todo' = [todo EXCEPT ![o] = @ \ {d}]
            /\ shown' = IF ReviewsOf(d) = {} THEN shown ELSE [shown EXCEPT ![o] = @ \cup {d}]
      BY <1>10 DEF ListReviews
    <2>2. At(o, "each") /\ Is(o, "GET", "reviews")
          /\ UNCHANGED <<db, traffic, pc, admins, wrote, stale, public, loyal>>
      BY <1>10 DEF ListReviews, histories
    <2>3. pc' = [pc EXCEPT ![o] = "each"] BY <1>1, <2>2 DEF At
    <2>4. d \in public[o] BY <1>3, <2>1, <2>2 DEF Discreet
    <2>5. Readable(o, d) BY <2>4 DEF Readable
    <2>. QED BY <1>1, <1>2, <1>3, <2>1, <2>2, <2>3, <2>5 DEF Discreet
  <1>. QED BY <1>4, <1>5, <1>6, <1>7, <1>8, <1>9, <1>10 DEF Displays

\* ... so they keep it, too.
LEMMA DisplaysDiscreet ==
  ASSUME IInv, AllDiscreet, NEW o \in traffic, Serve(o), Displays(o)
  PROVE  AllDiscreet'
  <1>1. /\ UNCHANGED <<db, traffic, admins, public>>
        /\ Running(o) /\ pc'[o] # "ready"
        /\ pc'[o] = "digest" => Readable(o, On(o))
        /\ \A p \in traffic : p # o => todo'[p] = todo[p] /\ shown'[p] = shown[p]
        /\ Is(o, "GET", "reviews") => todo'[o] \subseteq public[o]
        /\ \A d \in shown'[o] : Open(o) \/ Readable(o, d)
    BY DisplaysReadable
  <1>2. PICK s : pc' = [pc EXCEPT ![o] = s] BY StepShape
  <1>3. pc \in [traffic -> Step] BY DEF IInv, TypeOK
  <1>4. \A p, d : Readable(p, d)' = Readable(p, d)
    BY <1>1 DEF Readable, HasDataset, IsAdmin
  <1>5. PublicDatasets' = PublicDatasets
    BY <1>1 DEF PublicDatasets, AllDatasets, HasDataset
  <1>6. ASSUME NEW p \in traffic PROVE Discreet(p)'
    <2>1. CASE p = o
      BY <1>1, <1>4, <1>5, <2>1 DEF AllDiscreet, Discreet, Open
    <2>2. CASE p # o
      <3>1. pc'[p] = pc[p] BY <1>2, <1>3, <2>2
      <3>. QED BY <1>1, <1>4, <1>5, <2>2, <3>1 DEF AllDiscreet, Discreet, Open, Running
    <2>. QED BY <2>1, <2>2
  <1>. QED BY <1>1, <1>6 DEF AllDiscreet

\* It holds at the start.
LEMMA InitDiscreet == Init => AllDiscreet
  <1>. SUFFICES ASSUME Init, NEW o \in traffic PROVE Discreet(o) BY DEF AllDiscreet
  <1>1. pc[o] = "ready" /\ shown[o] = {} /\ todo[o] = {} BY DEF Init, InitRequests
  <1>. QED BY <1>1 DEF Discreet, Running

\* Every step keeps it.
LEMMA NextDiscreet ==
  ASSUME IInv, AllDiscreet, [Next]_vars
  PROVE  AllDiscreet'
  <1>1. CASE UNCHANGED vars
    BY <1>1 DEF vars, histories, AllDiscreet, Discreet, Open, Running, Readable, HasDataset,
                IsAdmin, PublicDatasets, AllDatasets
  <1>2. ASSUME NEW o \in traffic, Serve(o) PROVE AllDiscreet'
    BY <1>2, BystandersDiscreet, ReceiveDiscreet, DisplaysDiscreet DEF Plain
  <1>. QED BY <1>1, <1>2 DEF Next

\* Nobody is shown a dataset that was at no time readable for them since they asked,
\* although the check of access, the list of datasets and the reads of what they hold
\* are steps of their own.
THEOREM NoDisclosure == Spec => []ShownWasReadable
  <1>1. Init => IInv /\ AllDiscreet BY InitIInv, InitDiscreet
  <1>2. IInv /\ AllDiscreet /\ [Next]_vars => (IInv /\ AllDiscreet)'
    BY NextIInv, NextDiscreet
  <1>3. IInv /\ AllDiscreet => ShownWasReadable
    BY DEF AllDiscreet, Discreet, Readable, Open, ShownWasReadable
  <1>. QED BY <1>1, <1>2, <1>3, PTL DEF Spec
=============================================================================
