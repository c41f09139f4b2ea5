----------------------------- MODULE MCCommunity -----------------------------
(***************************************************************************)
(* Instances of Community for TLC: a small database, and sets of requests   *)
(* that may come together. root administers, alice owns two datasets, one   *)
(* public, bob reviews and subscribes; two users will register.            *)
(***************************************************************************)
EXTENDS Community

CONSTANTS t1, t2, t3, past  \* texts; the poster of an older notification

root == 1
alice == 2
bob == 3
d1 == 1
d2 == 2

MCUser == 1..5
MCDataset == {d1, d2}
MCCategory == {"old", "empty", "fresh1", "fresh2"}
MCReview == {"old", "fresh1", "fresh2"}
MCEmail == {"root@", "alice@", "bob@", "new@"}
MCText == {t1, t2, t3}

UserOf(email, role) ==
  [email |-> email, password |-> t1, country |-> t1, blocked |-> FALSE, role |-> role]
DatasetOfAlice(public_) == [owner |-> alice, category |-> "old", name |-> t1, public |-> public_]
ReviewOf(rating) == [user |-> bob, dataset |-> d1, rating |-> rating, text |-> t1]
OldNotification == [by |-> past, user |-> bob, dataset |-> d1, kind |-> "fanOut"]

MCSeed ==
  [users |-> <<UserOf("root@", "admin"), UserOf("alice@", "user"), UserOf("bob@", "user"),
               NoRow, NoRow>>,
   categories |-> [c \in MCCategory |->
      CASE c = "old" -> [name |-> t1, description |-> t1]
        [] c = "empty" -> [name |-> t2, description |-> t1]
        [] OTHER -> NoRow],
   datasets |-> <<DatasetOfAlice(TRUE), DatasetOfAlice(FALSE)>>,
   reviews |-> [old |-> ReviewOf(3), fresh1 |-> NoRow, fresh2 |-> NoRow],
   subscriptions |-> {<<root, d1>>, <<bob, d1>>},
   notifications |-> {OldNotification},
   read |-> {}]

V2(method, resource, by, on, body) ==
  [api |-> "v2", method |-> method, resource |-> resource, by |-> by, on |-> on, body |-> body]
V1(method, resource, on, body) ==
  [api |-> "v1", method |-> method, resource |-> resource, by |-> Nobody, on |-> on, body |-> body]

None == <<>>  \* no row, or no body
List(owner, public_) == [owner |-> owner, public |-> public_]

RequestOf == [
  \* subscriptions
  subscribe |-> V2("POST", "subscriptions", bob, <<bob, d2>>, None),
  subscribeToo |-> V1("POST", "subscriptions", <<bob, d2>>, None),
  unsubscribe |-> V2("DELETE", "subscriptions", alice, EncodeSubscriptionID(bob, d2), None),
  unsubscribeToo |-> V1("DELETE", "subscriptions", <<bob, d2>>, None),
  subscribeOther |-> V2("POST", "subscriptions", bob, <<alice, d2>>, None),
  unsubscribe1 |-> V2("DELETE", "subscriptions", bob, EncodeSubscriptionID(bob, d1), None),
  subscribe1 |-> V2("POST", "subscriptions", root, <<alice, d1>>, None),
  \* notifications
  notify |-> V2("POST", "notifications", alice, d1, None),
  notifyByRoot |-> V2("POST", "notifications", root, d1, None),
  notifyByBob |-> V2("POST", "notifications", bob, d1, None),
  notifyNobody |-> V2("POST", "notifications", alice, d2, None),
  notifyV1 |-> V1("POST", "notifications", d1, None),
  markRead |-> V2("PATCH", "notification", bob, OldNotification, [read |-> TRUE]),
  markUnread |-> V2("PATCH", "notification", root, OldNotification, [read |-> FALSE]),
  markOthers |-> V2("PATCH", "notification", alice, OldNotification, [read |-> TRUE]),
  \* users
  register |-> V2("POST", "users", Nobody, 4, UserOf("new@", "user")),
  registerToo |-> V1("POST", "users", 5, UserOf("new@", "user")),
  changeEmail |-> V2("PATCH", "users", root, bob, [email |-> "new@"]),
  move |-> V2("PATCH", "users", root, bob, [country |-> t2, password |-> t2]),
  block |-> V2("PATCH", "users", root, bob, [blocked |-> TRUE]),
  replace |-> V1("PUT", "users", bob,
                 [email |-> "new@", country |-> t3, blocked |-> FALSE, role |-> "admin"]),
  deleteBob |-> V2("DELETE", "users", root, bob, None),
  deleteBobToo |-> V1("DELETE", "users", bob, None),
  deleteRoot |-> V1("DELETE", "users", root, None),
  deleteAlice |-> V2("DELETE", "users", root, alice, None),
  deleteByBob |-> V2("DELETE", "users", bob, alice, None),
  \* categories
  createCategory |-> V2("POST", "categories", root, "fresh1", [name |-> t3, description |-> t1]),
  createCategoryToo |-> V1("POST", "categories", "fresh2", [name |-> t3, description |-> t2]),
  renameCategory |-> V2("PATCH", "categories", root, "empty", [name |-> t3]),
  describeCategory |-> V2("PATCH", "categories", root, "empty", [description |-> t2]),
  replaceCategory |-> V1("PUT", "categories", "empty", [name |-> t3, description |-> t3]),
  deleteCategory |-> V2("DELETE", "categories", root, "empty", None),
  deleteCategoryToo |-> V1("DELETE", "categories", "empty", None),
  deleteUsed |-> V1("DELETE", "categories", "old", None),
  \* datasets
  rename |-> V2("PATCH", "datasets", alice, d1, [name |-> t2]),
  hide |-> V2("PATCH", "datasets", root, d1, [public |-> FALSE]),
  publish |-> V2("PATCH", "datasets", alice, d2, [public |-> TRUE]),
  recategorise |-> V2("PATCH", "datasets", alice, d1, [category |-> "empty"]),
  renameByBob |-> V2("PATCH", "datasets", bob, d1, [name |-> t3]),
  delete1 |-> V2("DELETE", "datasets", alice, d1, None),
  deleteAgain |-> V2("DELETE", "datasets", root, d1, None),
  delete2 |-> V2("DELETE", "datasets", root, d2, None),
  list |-> V2("GET", "datasets", bob, None, List({}, {})),
  listOwn |-> V2("GET", "datasets", bob, None, List({}, {FALSE})),
  listAlices |-> V2("GET", "datasets", bob, None, List({alice}, {})),
  listAnonymous |-> V2("GET", "datasets", Nobody, None, List({}, {FALSE})),
  listAll |-> V2("GET", "datasets", root, None, List({alice}, {FALSE})),
  view |-> V2("GET", "dataset", Nobody, d1, None),
  viewHidden |-> V2("GET", "dataset", bob, d2, None),
  digest |-> V2("GET", "digest", bob, d1, None),
  \* reviews
  review |-> V2("POST", "reviews", bob, "fresh1", ReviewOf(5)),
  reviewV1 |-> V1("POST", "reviews", "fresh2", ReviewOf(1)),
  rate |-> V2("PATCH", "reviews", bob, "old", [rating |-> 1]),
  reword |-> V2("PATCH", "reviews", root, "old", [text |-> t2]),
  rewordOthers |-> V2("PATCH", "reviews", alice, "old", [text |-> t3]),
  replaceReview |-> V1("PUT", "reviews", "old", [rating |-> 2, text |-> t3]),
  deleteReview |-> V2("DELETE", "reviews", bob, "old", None),
  deleteReviewV1 |-> V1("DELETE", "reviews", "old", None),
  listReviews |-> V2("GET", "reviews", Nobody, None, [dataset |-> {}, user |-> {}]),
  listByDataset |-> V2("GET", "reviews", Nobody, None, [dataset |-> {d1}, user |-> {}]),
  listByUser |-> V2("GET", "reviews", Nobody, None, [dataset |-> {}, user |-> {bob}])]

MCOp == DOMAIN RequestOf
MCRequest == [o \in MCOp |-> RequestOf[o]]  \* a function is faster to look into
MCPoster == MCOp \cup {past}

\* Which of them come together.
MCTraffic == {
  {"subscribe", "subscribeToo", "unsubscribe", "unsubscribeToo"},
  {"subscribe", "unsubscribe", "subscribeOther", "deleteBob", "delete2"},
  {"notify", "notifyV1", "deleteBob"},
  {"notify", "unsubscribe1", "subscribe1", "deleteBob"},
  {"notify", "notifyByRoot", "notifyByBob", "deleteRoot"},
  {"notify", "notifyNobody", "delete1", "markRead", "markUnread"},
  {"register", "registerToo", "changeEmail", "move"},
  {"changeEmail", "move", "block"},
  {"changeEmail", "block", "replace"},
  {"replace", "register", "deleteBob", "deleteBobToo", "deleteByBob", "deleteAlice"},
  {"createCategory", "createCategoryToo", "renameCategory", "describeCategory"},
  {"describeCategory", "replaceCategory", "deleteCategory"},
  {"deleteCategory", "deleteCategoryToo", "recategorise", "deleteUsed"},
  {"rename", "hide", "delete1", "renameByBob"},
  {"rename", "hide", "recategorise"},
  {"hide", "publish", "list", "viewHidden"},
  {"hide", "listOwn", "listAlices", "delete2"},
  {"hide", "delete1", "deleteAgain", "digest"},
  {"hide", "listAnonymous", "view", "listAll"},
  {"rate", "reword", "replaceReview", "rewordOthers"},
  {"reviewV1", "review", "deleteReview", "deleteReviewV1", "rate"},
  {"deleteReview", "listReviews", "publish", "hide"},
  {"markOthers", "markRead", "deleteBob", "review", "delete1"},
  {"deleteReview", "listByDataset", "listByUser", "hide"}}
=============================================================================
