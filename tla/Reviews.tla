------------------------------- MODULE Reviews -------------------------------
(***************************************************************************)
(* Reviews: reviewService (internal/services/review_service_impl.go) behind *)
(* POST, PATCH and DELETE of /api/v2/reviews and POST, PUT and DELETE of    *)
(* version 1, and the public list of version 2.                            *)
(***************************************************************************)
EXTENDS Requests

\* CreateReview. That the user and the dataset exist is left to the foreign keys.
CreateReview(o) ==
  /\ At(o, "write") /\ Is(o, "POST", "reviews")
  /\ \E r \in {"ok", "error"} :
       /\ InsertReview(On(o), Body(o), r)
       /\ Done(o, r, [ok |-> "show", error |-> "error"])
  /\ UNCHANGED <<seen, loaded, todo>>

\* The handlers answer with GetReviewByID.
ShowReview(o) == Resource(o) = "reviews" /\ ShowRow(o)

\* ensureReviewAccess, for UpdateReview and DeleteReview of version 2
AuthorOrAdmin(o) == Row(o).user = By(o) \/ IsAdmin(o)

ReadReview(o) ==
  /\ Resource(o) = "reviews" /\ Method(o) \in {"PATCH", "DELETE"}
  /\ ReadRow(o, AuthorOrAdmin(o), IF Method(o) = "PATCH" THEN "reload" ELSE "write")

\* UpdateReview of the service
ReloadReview(o) == Resource(o) = "reviews" /\ ReloadRow(o, "write", "notFound")

\* buildUpdateReviewCmd; in version 1 the request names rating and text.
ReviewUpdated(o) == Filled(o, IF Api(o) = "v2" THEN seen[o] ELSE loaded[o])

WriteReview(o) ==
  /\ At(o, "write") /\ Resource(o) = "reviews" /\ Method(o) \in {"PATCH", "PUT"}
  /\ \E r \in {"ok", "none"} :
       /\ UpdateReviewRow(On(o), ReviewUpdated(o), r)
       /\ Done(o, r, [ok |-> IF Api(o) = "v2" THEN "show" ELSE "ok", none |-> "notFound"])
  /\ UNCHANGED <<seen, loaded, todo>>

DeleteReview(o) ==
  /\ At(o, "write") /\ Is(o, "DELETE", "reviews")
  /\ \E r \in {"ok", "none"} :
       /\ DeleteReviewRow(On(o), r)
       /\ Done(o, r, [ok |-> "ok", none |-> "notFound"])
  /\ UNCHANGED <<seen, loaded, todo>>

-----------------------------------------------------------------------------
(* The list. Filters are sets of at most one value.                        *)

\* loadReviews: with a filter there is one query, which is open to everybody, and
\* without one there are several.
Filtered(o) == Body(o).dataset # {} \/ Body(o).user # {}

ReviewsAsked(o) ==
  IF Body(o).dataset # {} THEN UNION {ReviewsOf(d) : d \in Body(o).dataset}
  ELSE UNION {ReviewsBy(u) : u \in Body(o).user}

ListFiltered(o) ==
  /\ At(o, "list") /\ Is(o, "GET", "reviews") /\ Filtered(o)
  /\ Shows(o, {db.reviews[v].dataset : v \in ReviewsAsked(o)}, "ok")

\* collectPublicReviews asks for the public datasets ...
ListReviewed(o) ==
  /\ At(o, "list") /\ Is(o, "GET", "reviews") /\ ~Filtered(o)
  /\ todo' = [todo EXCEPT ![o] = PublicDatasets]
  /\ Goto(o, "each")
  /\ Keeps /\ UNCHANGED <<db, seen, loaded, histories>>

\* ... and then for the reviews of each, however public it is by then.
ReviewsListed(o) ==
  At(o, "each") /\ Is(o, "GET", "reviews") /\ todo[o] = {} /\ Goto(o, "ok") /\ Reads

ListReviews(o) ==
  /\ At(o, "each") /\ Is(o, "GET", "reviews")
  /\ \E d \in todo[o] :
       /\ todo' = [todo EXCEPT ![o] = @ \ {d}]
       /\ shown' = IF ReviewsOf(d) = {} THEN shown ELSE [shown EXCEPT ![o] = @ \cup {d}]
  /\ UNCHANGED <<db, traffic, pc, admins, seen, loaded, faults, histories>>

NextReviews(o) ==
  \/ CreateReview(o) \/ ShowReview(o) \/ ReadReview(o) \/ ReloadReview(o)
  \/ WriteReview(o) \/ DeleteReview(o)
  \/ ListFiltered(o) \/ ListReviewed(o) \/ ListReviews(o) \/ ReviewsListed(o)
=============================================================================
