----------------------------- MODULE Categories -----------------------------
(***************************************************************************)
(* Categories: categoryService (internal/services/category_service_impl.go) *)
(* behind POST, PATCH and DELETE of /api/v2/categories, and POST, PUT and   *)
(* DELETE of version 1.                                                    *)
(***************************************************************************)
EXTENDS Requests

\* CreateCategory: there is no look-up, the unique constraint decides.
CreateCategory(o) ==
  /\ At(o, "write") /\ Is(o, "POST", "categories")
  /\ \E r \in {"ok", "exists"} :
       /\ InsertCategory(On(o), Body(o), r)
       /\ Done(o, r, [ok |-> "show", exists |-> "conflict"])
  /\ UNCHANGED <<seen, loaded, todo>>

\* Both handlers answer with GetCategoryByID.
ShowCategory(o) == Resource(o) = "categories" /\ ShowRow(o)

\* The handler of version 2 reads the category.
ReadCategory(o) == Is(o, "PATCH", "categories") /\ ReadRow(o, TRUE, "reload")

\* UpdateCategory of the service only makes sure that it is there.
ReloadCategory(o) == Resource(o) = "categories" /\ ReloadRow(o, "write", "notFound")

\* buildUpdateCategoryCmd; in version 1 the request names every column.
CategoryUpdated(o) == IF Api(o) = "v2" THEN Filled(o, seen[o]) ELSE Body(o)

WriteCategory(o) ==
  /\ At(o, "write") /\ Resource(o) = "categories" /\ Method(o) \in {"PATCH", "PUT"}
  /\ \E r \in {"ok", "exists", "none"} :
       /\ UpdateCategoryRow(On(o), CategoryUpdated(o), r)
       /\ Done(o, r, [ok |-> IF Api(o) = "v2" THEN "show" ELSE "ok",
                      exists |-> "conflict", none |-> "notFound"])
  /\ UNCHANGED <<seen, loaded, todo>>

\* DeleteCategory. ErrCategoryNotEmpty has no status of its own.
DeleteCategory(o) ==
  /\ At(o, "write") /\ Is(o, "DELETE", "categories")
  /\ \E r \in {"ok", "notEmpty", "none"} :
       /\ DeleteCategoryRow(On(o), r)
       /\ Done(o, r, [ok |-> "ok", notEmpty |-> "error", none |-> "notFound"])
  /\ UNCHANGED <<seen, loaded, todo>>

NextCategories(o) ==
  \/ CreateCategory(o) \/ ShowCategory(o)
  \/ ReadCategory(o) \/ ReloadCategory(o) \/ WriteCategory(o) \/ DeleteCategory(o)
=============================================================================
